---------------------------- MODULE KeyprProofs ----------------------------
(***************************************************************************)
(* The firmware as a whole behaves, for its two parts, as the parts alone  *)
(* may; so what was proved of each holds here too.  On top of it: nothing  *)
(* is asserted without an answer of the phone, and, built without the      *)
(* write callback, nothing is asserted at all.                             *)
(***************************************************************************)
EXTENDS Keypr, Ctap2Proofs, BlePhoneProofs

-----------------------------------------------------------------------------
(* A step of the whole is a step of each part, or leaves the part alone. *)
LEMMA StepOfCtap == ASSUME [KeyprNext]_keyprVars PROVE [CtapNext]_ctapVars
PROOF
<1>1. CASE Setup BY <1>1 DEF Setup, CtapNext
<1>2. CASE PowerFails BY <1>2 DEF PowerFails, CtapNext
<1>3. CASE AskPhone BY <1>3 DEF AskPhone, CtapNext, Command
<1>4. CASE TakeAnswer BY <1>4 DEF TakeAnswer, CtapNext
<1>5. CASE RunCommand BY <1>5 DEF RunCommand, CtapNext, Command
<1>6. CASE Phone BY <1>6 DEF Phone
<1>7. CASE UNCHANGED keyprVars BY <1>7 DEF keyprVars
<1>. QED BY <1>1, <1>2, <1>3, <1>4, <1>5, <1>6, <1>7 DEF KeyprNext

LEMMA StepOfBle == ASSUME [KeyprNext]_keyprVars PROVE [BleNext]_bleVars
PROOF
<1>1. CASE Setup BY <1>1 DEF Setup, BleNext
<1>2. CASE PowerFails BY <1>2 DEF PowerFails, BleNext
<1>3. CASE AskPhone BY <1>3 DEF AskPhone, BleNext
<1>4. CASE TakeAnswer BY <1>4 DEF TakeAnswer
<1>5. CASE RunCommand BY <1>5 DEF RunCommand
<1>6. CASE Phone BY <1>6 DEF Phone, BleNext
<1>7. CASE UNCHANGED keyprVars BY <1>7 DEF keyprVars
<1>. QED BY <1>1, <1>2, <1>3, <1>4, <1>5, <1>6, <1>7 DEF KeyprNext

(* The firmware implements the command layer, whose phone answers as it    *)
(* likes, ...                                                              *)
THEOREM KeyprIsCtap == KeyprSpec => CtapSpec
PROOF
<1>1. KeyprInit => CtapInit BY DEF KeyprInit
<1>2. [KeyprNext]_keyprVars => [CtapNext]_ctapVars BY StepOfCtap
<1>. QED BY <1>1, <1>2, PTL DEF KeyprSpec, CtapSpec

(* ... so that its flash is a vault, whatever the phone does, ...          *)
THEOREM KeyprKeepsVault == KeyprSpec => VaultSpec
PROOF
<1>. QED BY KeyprIsCtap, CommandsKeepVault, PTL

(* ... and the phone link, which is asked at any time.                     *)
THEOREM KeyprIsBle == KeyprSpec => BleSpec
PROOF
<1>1. KeyprInit => BleInit BY DEF KeyprInit
<1>2. [KeyprNext]_keyprVars => [BleNext]_bleVars BY StepOfBle
<1>. QED BY <1>1, <1>2, PTL DEF KeyprSpec, BleSpec

-----------------------------------------------------------------------------
(* The strengthening. *)

(* The two parts agree on power, and the question is under way only inside *)
(* getAssertion.                                                           *)
Waiting == {"send", "set", "indicate", "poll", "check", "size", "msg", "lower"}
AgreeInv ==
  /\ powered <=> pc # "off"
  /\ gate \in Waiting => pc = "ask"

(* A granted question has no refusal for an answer. *)
ConsentInv == gate = "granted" => buf # Deny

(* Without the callback no command gets past the question. *)
NothingCounted ==
  ~installed =>
    /\ pc \notin {"find", "count", "sign"}
    /\ \A id \in CredIds : counted[id] = 0
    /\ \A i \in DOMAIN nvs : nvs[i].sign_count = 0

KeyprInv == AgreeInv /\ ConsentInv /\ SignsOnlyAfterAnswer /\ NothingCounted

(* The invariants of the parts, which the steps below rely on. *)
PartsInv == CtapInv /\ BleInv

LEMMA PartsInvariant == KeyprSpec => []PartsInv
PROOF
<1>1. CtapInv /\ BleInv => PartsInv BY DEF PartsInv
<1>. QED BY <1>1, KeyprIsCtap, KeyprIsBle, CtapInvariant, BleInvariant, PTL

LEMMA KeyprInitInv == ASSUME KeyprInit PROVE KeyprInv
PROOF
<1>. USE DEF KeyprInit, CtapInit, StoreInit, BleInit
<1>1. AgreeInv /\ ConsentInv /\ SignsOnlyAfterAnswer
  BY DEF AgreeInv, ConsentInv, SignsOnlyAfterAnswer, Waiting
<1>2. NothingCounted BY DEF NothingCounted
<1>. QED BY <1>1, <1>2 DEF KeyprInv

(* Steps that leave what NothingCounted speaks of alone. *)
LEMMA NothingCountedQuiet ==
  ASSUME NothingCounted, UNCHANGED <<nvs, counted, installed>>, pc' \notin {"find", "count", "sign"} \/ pc' = pc
  PROVE  NothingCounted'
BY DEF NothingCounted

(* What the tasks of the phone link do to what the commands wait for. *)
LEMMA HostQuiet ==
  ASSUME HostTask \/ Radio
  PROVE  UNCHANGED <<installed, powered, gate, buf>> /\ (wrote => wrote')
PROOF
<1>. USE DEF linkVars, prefsVars, mailVars, writeVars, gateVars
<1>1. CASE OnConnect \/ OnDisconnect BY <1>1 DEF OnConnect, OnDisconnect
<1>2. CASE OnWrite BY <1>2 DEF OnWrite
<1>3. CASE \E bonded \in BOOLEAN : OnAuthenticationComplete(bonded)
  BY <1>3 DEF OnAuthenticationComplete
<1>4. CASE Radio BY <1>4 DEF Radio, LinkDrops, PeerConnects, PeerWrites
<1>. QED BY <1>1, <1>2, <1>3, <1>4 DEF HostTask

LEMMA GateMoves ==
  ASSUME Gate
  PROVE  /\ gate \in Waiting /\ UNCHANGED <<installed, powered, wrote>>
         /\ gate' = "granted" => buf' # Deny
         /\ gate' \in Waiting \cup {"granted", "denied"}
PROOF
<1>. USE DEF GateStep, Waiting
<1>1. CASE CheckConnected \/ SetValue \/ Indicate
  BY <1>1 DEF CheckConnected, SetValue, Indicate
<1>2. CASE Poll \/ CheckNewMsg BY <1>2 DEF Poll, CheckNewMsg, Silence
<1>3. CASE ReadSize \/ ReadMsg BY <1>3 DEF ReadSize, ReadMsg
<1>4. CASE LowerFlag BY <1>4 DEF LowerFlag
<1>. QED BY <1>1, <1>2, <1>3, <1>4 DEF Gate

LEMMA PhoneKeeps == ASSUME KeyprInv, Phone PROVE KeyprInv'
PROOF
<1>1. UNCHANGED <<pc, nvs, counted>> BY DEF Phone, ctapVars, commandVars, historyVars, storageVars
<1>2. UNCHANGED installed BY HostQuiet, GateMoves DEF Phone
<1>5. NothingCounted' BY <1>1, <1>2, NothingCountedQuiet DEF KeyprInv
<1>3. CASE HostTask \/ Radio
  BY <1>1, <1>5, <1>3, HostQuiet
  DEF KeyprInv, AgreeInv, ConsentInv, SignsOnlyAfterAnswer, Waiting
<1>4. CASE Gate
  BY <1>1, <1>5, <1>4, GateMoves
  DEF KeyprInv, AgreeInv, ConsentInv, SignsOnlyAfterAnswer, Waiting
<1>. QED BY <1>3, <1>4 DEF Phone

(* Power comes and goes; nothing is under way on either side of it. *)
LEMMA PowerCycleKeeps == ASSUME KeyprInv, PartsInv, Setup \/ PowerFails PROVE KeyprInv'
PROOF
<1>1. UNCHANGED <<nvs, counted, installed>> /\ pc' \in {"idle", "off"}
  BY DEF Setup, PowerFails, Boot, PowerOff, StorageInit, PowerLoss, historyVars,
         BleContextInit, BlePowerOff
<1>2. NothingCounted' BY <1>1, NothingCountedQuiet DEF KeyprInv
<1>3. CASE Setup
  <2>1. pc' = "idle" /\ ~powered /\ powered' /\ gate' = gate
    BY <1>3 DEF Setup, Boot, BleContextInit, gateVars
  <2>2. gate = "idle" BY <2>1 DEF PartsInv, BleInv, PowerInv
  <2>. QED BY <1>2, <2>1, <2>2
       DEF KeyprInv, AgreeInv, ConsentInv, SignsOnlyAfterAnswer, Waiting
<1>4. CASE PowerFails
  <2>1. pc' = "off" /\ ~powered' /\ gate' = "idle"
    BY <1>4 DEF PowerFails, PowerOff, BlePowerOff
  <2>. QED BY <1>2, <2>1
       DEF KeyprInv, AgreeInv, ConsentInv, SignsOnlyAfterAnswer, Waiting
<1>. QED BY <1>3, <1>4

LEMMA AskKeeps == ASSUME KeyprInv, AskPhone PROVE KeyprInv'
PROOF
<1>1. /\ pc = "idle" /\ pc' = "ask" /\ gate' = "send" /\ powered' = powered
      /\ UNCHANGED <<nvs, counted, installed>>
  BY DEF AskPhone, GetAssertion, Start, Ask, storageVars, historyVars
<1>2. NothingCounted' BY <1>1, NothingCountedQuiet DEF KeyprInv
<1>. QED BY <1>1, <1>2 DEF KeyprInv, AgreeInv, ConsentInv, SignsOnlyAfterAnswer, Waiting

(* The answer lets a command past the question only if it is a consent,    *)
(* which without the callback it never is.                                 *)
LEMMA TakeAnswerKeeps == ASSUME KeyprInv, PartsInv, TakeAnswer PROVE KeyprInv'
PROOF
<1>1. /\ pc = "ask" /\ gate \in {"granted", "denied"}
      /\ pc' \in {"idle", "find"} /\ (pc' = "find" => gate = "granted")
      /\ UNCHANGED <<nvs, counted, installed, powered, gate, buf, wrote>>
  BY DEF TakeAnswer, Answered, Fails, Return, Goto, storageVars, historyVars, bleVars, gateVars
<1>2. gate = "granted" => /\ wrote /\ buf \notin {NoMessage, Deny} /\ Length(buf) > 0
                          /\ installed
  BY DEF KeyprInv, ConsentInv, PartsInv, BleInv, BleTypeOK, FlagsOK, GrantNeedsWrite, AsBuiltInv
<1>3. NothingCounted' BY <1>1, <1>2 DEF KeyprInv, NothingCounted
<1>4. AgreeInv' /\ ConsentInv' BY <1>1 DEF KeyprInv, AgreeInv, ConsentInv, Waiting
<1>5. SignsOnlyAfterAnswer' BY <1>1, <1>2 DEF SignsOnlyAfterAnswer
<1>. QED BY <1>3, <1>4, <1>5 DEF KeyprInv

(* The other steps of commands stay away from the question and get no      *)
(* further than it let them.                                               *)
LEMMA CommandMoves ==
  ASSUME RunCommand
  PROVE  /\ pc \notin {"off", "ask"} /\ pc' # "off"
         /\ pc' \in {"find", "count", "sign"} => pc \in {"find", "count", "sign"}
         /\ UNCHANGED <<installed, powered, gate, buf, wrote>>
PROOF
<1>. USE DEF Return, Fails, Start, Goto
<1>1. UNCHANGED <<installed, powered, gate, buf, wrote>>
  BY DEF RunCommand, bleVars, linkVars, gateVars, writeVars
<1>2. CASE \E status \in {"OK", "INVALID_LENGTH", "INVALID_COMMAND"} : Simple(status)
  BY <1>1, <1>2 DEF Simple
<1>3. CASE Reset BY <1>1, <1>3 DEF Reset
<1>4. CASE MakeCredential BY <1>1, <1>4 DEF MakeCredential
<1>5. CASE GenerateCredential BY <1>1, <1>5 DEF GenerateCredential
<1>6. CASE StoreNew \/ Attest BY <1>1, <1>6 DEF StoreNew, Attest
<1>7. CASE Find \/ Count \/ Sign BY <1>1, <1>7 DEF Find, Count, Sign
<1>. QED BY <1>2, <1>3, <1>4, <1>5, <1>6, <1>7 DEF RunCommand

(* Short of the question a command changes flash only to add a credential  *)
(* that was never asserted, or to erase them all.                          *)
LEMMA CommandKeepsNothing ==
  ASSUME KeyprInv, PartsInv, RunCommand
  PROVE  NothingCounted'
PROOF
<1>0. installed' = installed BY CommandMoves
<1>1. SUFFICES ASSUME ~installed PROVE NothingCounted'
  BY <1>0 DEF NothingCounted
<1>2. pc \notin {"find", "count", "sign"} /\ pc' \notin {"find", "count", "sign"}
  BY <1>1, CommandMoves DEF KeyprInv, NothingCounted
<1>3. ~(Find \/ Count \/ Sign) BY <1>2 DEF Find, Count, Sign
<1>4. UNCHANGED counted
  BY <1>3 DEF RunCommand, Simple, Reset, MakeCredential, GenerateCredential, StoreNew, Attest, historyVars
<1>5. CASE UNCHANGED nvs BY <1>0, <1>2, <1>4, <1>5, NothingCountedQuiet DEF KeyprInv
<1>6. CASE Reset
  <2>1. UNCHANGED nvs \/ DOMAIN nvs' = {} BY <1>6 DEF Reset, StorageReset
  <2>. QED BY <1>0, <1>2, <1>4, <1>5, <2>1 DEF KeyprInv, NothingCounted
<1>7. CASE StoreNew
  <2>1. pc = "store" BY <1>7 DEF StoreNew
  <2>2. CASE StoreCredential(cred)
    <3>1. PICK i \in Slot \ DOMAIN nvs : /\ DOMAIN nvs' = DOMAIN nvs \cup {i}
                                         /\ nvs'[i] = cred
                                         /\ \A j \in DOMAIN nvs : nvs'[j] = nvs[j]
      BY <2>2, StoreEffect DEF PartsInv, CtapInv, LastingInv
    <3>2. cred.sign_count = 0 BY <2>1 DEF PartsInv, CtapInv, StepInv, NewInv
    <3>3. \A j \in DOMAIN nvs' : nvs'[j].sign_count = 0
      BY <1>1, <3>1, <3>2 DEF KeyprInv, NothingCounted
    <3>. QED BY <1>0, <1>1, <1>2, <1>4, <3>3 DEF KeyprInv, NothingCounted
  <2>3. CASE ~StoreCredential(cred)
    BY <1>5, <1>7, <2>3 DEF StoreNew, StoreCredentialFails, storageVars
  <2>. QED BY <2>2, <2>3
<1>8. CASE ~(Reset \/ StoreNew)
  BY <1>3, <1>5, <1>8
  DEF RunCommand, Simple, MakeCredential, GenerateCredential, Attest, storageVars
<1>. QED BY <1>6, <1>7, <1>8

LEMMA RunCommandKeeps == ASSUME KeyprInv, PartsInv, RunCommand PROVE KeyprInv'
PROOF
<1>1. AgreeInv' /\ ConsentInv'
  BY CommandMoves DEF KeyprInv, AgreeInv, ConsentInv, Waiting
<1>2. SignsOnlyAfterAnswer'
  BY CommandMoves DEF KeyprInv, SignsOnlyAfterAnswer
<1>. QED BY <1>1, <1>2, CommandKeepsNothing DEF KeyprInv

LEMMA KeyprNextInv == ASSUME KeyprInv, PartsInv, [KeyprNext]_keyprVars PROVE KeyprInv'
PROOF
<1>1. CASE UNCHANGED keyprVars
  <2>1. UNCHANGED <<pc, nvs, counted, installed, powered, gate, buf, wrote>>
    BY <1>1 DEF keyprVars, ctapVars, commandVars, historyVars, storageVars, bleVars, linkVars, gateVars, writeVars
  <2>. QED BY <2>1, NothingCountedQuiet
       DEF KeyprInv, AgreeInv, ConsentInv, SignsOnlyAfterAnswer
<1>. QED BY <1>1, PowerCycleKeeps, AskKeeps, TakeAnswerKeeps, RunCommandKeeps, PhoneKeeps
     DEF KeyprNext

-----------------------------------------------------------------------------
(* The invariant of the whole holds of every reachable state. *)
THEOREM KeyprInvariant == KeyprSpec => []KeyprInv
PROOF
<1>1. KeyprInit => KeyprInv BY KeyprInitInv
<1>2. KeyprInv /\ PartsInv /\ [KeyprNext]_keyprVars => KeyprInv' BY KeyprNextInv
<1>. QED BY <1>1, <1>2, PartsInvariant, PTL DEF KeyprSpec

(* Credentials, counters and keys are reached only with a consent in hand  *)
(* that a peer wrote since the boot, for every interleaving of the loop    *)
(* task with the NimBLE task and every loss of power.                      *)
THEOREM ConsentBeforeSigning == KeyprSpec => []SignsOnlyAfterAnswer
PROOF
<1>1. KeyprInv => SignsOnlyAfterAnswer BY DEF KeyprInv
<1>. QED BY <1>1, KeyprInvariant, PTL

(* Without the write callback, as the firmware is built, no counter of a   *)
(* credential ever moves, in flash or in an assertion.                     *)
THEOREM NothingAssertedAsBuilt == KeyprSpec => []AsBuiltNeverAsserts
PROOF
<1>1. KeyprInv => AsBuiltNeverAsserts BY DEF KeyprInv, NothingCounted, AsBuiltNeverAsserts
<1>. QED BY <1>1, KeyprInvariant, PTL

(* Type correctness of the whole: both parts are of their types, agree on  *)
(* power, and a question is under way only inside getAssertion.            *)
THEOREM KeyprTypeCorrect == KeyprSpec => []KeyprTypeOK
PROOF
<1>1. KeyprInv /\ PartsInv => KeyprTypeOK
  <2>1. ASSUME KeyprInv, PartsInv PROVE KeyprTypeOK
    <3>1. CtapTypeOK /\ BleTypeOK BY <2>1 DEF PartsInv, CtapInv, BleInv
    <3>2. powered = (pc # "off")
      <4>1. powered \in BOOLEAN BY <3>1 DEF BleTypeOK, FlagsOK
      <4>. QED BY <2>1, <4>1 DEF KeyprInv, AgreeInv
    <3>3. gate \notin {"idle", "granted", "denied"} => pc = "ask"
      <4>1. gate \in Waiting \cup {"idle", "granted", "denied"}
        BY <3>1 DEF BleTypeOK, FlagsOK, GateSteps, Waiting
      <4>. QED BY <2>1, <4>1 DEF KeyprInv, AgreeInv
    <3>. QED BY <3>1, <3>2, <3>3 DEF KeyprTypeOK
  <2>. QED BY <2>1
<1>. QED BY <1>1, KeyprInvariant, PartsInvariant, PTL
=============================================================================
