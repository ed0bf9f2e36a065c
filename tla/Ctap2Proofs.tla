---------------------------- MODULE Ctap2Proofs ----------------------------
(***************************************************************************)
(* The credential store never stores an identifier twice, never loses a    *)
(* credential but to a reset, and implements the abstract vault.           *)
(*                                                                         *)
(* The commands use the store as it asks to be used, keep what they        *)
(* acknowledged, assert only credentials of the relying party that asked,  *)
(* and never report a counter lower than one before: for any number of     *)
(* slots, identifiers and relying parties, any length of allow lists, and  *)
(* with flash writes, cryptography and power that may fail at any step.    *)
(***************************************************************************)
EXTENDS Ctap2, FiniteSetTheorems, FunctionTheorems, WellFoundedInduction, TLAPS

-----------------------------------------------------------------------------
(* The credential store. *)

(* The inductive invariant: uniqueness is inductive only together with the *)
(* validity of every blob, which makes Free the absent keys and makes the  *)
(* first match of a search the only one.                                   *)
AllValid == \A i \in DOMAIN nvs : nvs[i].valid
StoreInv == StoreTypeOK /\ UniqueIds /\ AllValid

(* A set of slots that is not empty has a first element. *)
LEMMA MinInSet ==
  ASSUME NEW S \in SUBSET Slot, S # {}
  PROVE  Min(S) \in S
PROOF
<1>1. S \subseteq Nat BY CapacityAssumption DEF Slot
<1>2. PICK i \in S : \A j \in S : <<j, i>> \notin OpToRel(<, Nat)
  BY <1>1, NatLessThanWellFounded, WFMin
<1>3. \A j \in S : ~(j < i)
  BY <1>1, <1>2, Zenon DEF OpToRel
<1>4. \A j \in S : i <= j
  BY <1>1, <1>3
<1>. QED BY <1>4 DEF Min

(* While every blob is valid, a free slot is one without a blob. *)
LEMMA FreeIsAbsent ==
  ASSUME AllValid, Free # {}
  PROVE  Min(Free) \in Slot \ DOMAIN nvs
PROOF
<1>1. Free \in SUBSET Slot BY DEF Free
<1>2. Min(Free) \in Free BY <1>1, MinInSet
<1>. QED BY <1>2 DEF Free, AllValid

(* The blob an update touches is the one with the identifier. *)
LEMMA NamedIsFirst ==
  ASSUME StoreTypeOK, NEW id, Named(id) # {}
  PROVE  Min(Named(id)) \in DOMAIN nvs /\ nvs[Min(Named(id))].id = id
PROOF
<1>1. Named(id) \in SUBSET Slot BY DEF Named, StoreTypeOK
<1>2. Min(Named(id)) \in Named(id) BY <1>1, MinInSet
<1>. QED BY <1>2 DEF Named

LEMMA StoreInitInv == StoreInit => StoreInv
BY DEF StoreInit, StoreInv, StoreTypeOK, UniqueIds, AllValid

(* Effect of the two operations that write one blob, in the form the       *)
(* theorems below use it.                                                  *)
LEMMA StoreEffect ==
  ASSUME StoreInv, NEW c, StoreCredential(c)
  PROVE  \E i \in Slot \ DOMAIN nvs :
           /\ DOMAIN nvs' = DOMAIN nvs \cup {i}
           /\ nvs'[i] = c
           /\ \A j \in DOMAIN nvs : nvs'[j] = nvs[j]
PROOF
<1>1. Min(Free) \in Slot \ DOMAIN nvs
  BY FreeIsAbsent DEF StoreInv, StoreCredential
<1>2. nvs' = PutBytes(Min(Free), c)
  BY DEF StoreCredential
<1>. DEFINE i == Min(Free)
<1>3. nvs' = PutBytes(i, c) BY <1>2
<1>. HIDE DEF i
<1>4. nvs' = [j \in DOMAIN nvs \cup {i} |-> IF j = i THEN c ELSE nvs[j]]
  BY <1>3 DEF PutBytes
<1>5. i \in Slot \ DOMAIN nvs BY <1>1 DEF i
<1>6. /\ DOMAIN nvs' = DOMAIN nvs \cup {i}
      /\ nvs'[i] = c
      /\ \A j \in DOMAIN nvs : nvs'[j] = nvs[j]
  BY <1>4, <1>5
<1>. QED BY <1>5, <1>6

LEMMA UpdateEffect ==
  ASSUME StoreInv, NEW id \in CredIds, NEW n \in Counter, NEW written,
         UpdateSignCount(id, n, written)
  PROVE  \/ nvs' = nvs
         \/ \E i \in DOMAIN nvs : /\ nvs[i].id = id
                                  /\ nvs' = [nvs EXCEPT ![i].sign_count = n]
PROOF
<1>1. CASE initialized /\ Named(id) # {} /\ written
  <2>1. Min(Named(id)) \in DOMAIN nvs /\ nvs[Min(Named(id))].id = id
    BY <1>1, NamedIsFirst DEF StoreInv
  <2>. QED BY <1>1, <2>1 DEF UpdateSignCount
<1>2. CASE ~(initialized /\ Named(id) # {} /\ written)
  BY <1>2 DEF UpdateSignCount
<1>. QED BY <1>1, <1>2

LEMMA BumpedBlob ==
  ASSUME StoreInv, NEW i \in DOMAIN nvs, NEW n \in Counter,
         nvs' = [nvs EXCEPT ![i].sign_count = n]
  PROVE  /\ DOMAIN nvs' = DOMAIN nvs
         /\ \A j \in DOMAIN nvs : /\ nvs'[j] \in Credential
                                  /\ nvs'[j].id = nvs[j].id
                                  /\ nvs'[j].rp = nvs[j].rp
                                  /\ nvs'[j].valid = nvs[j].valid
                                  /\ nvs'[j].sign_count = IF j = i THEN n ELSE nvs[j].sign_count
BY DEF StoreInv, StoreTypeOK, Credential

LEMMA StoreNextInv == StoreInv /\ [StoreNext]_storageVars => StoreInv'
PROOF
<1>. SUFFICES ASSUME StoreInv, [StoreNext]_storageVars PROVE StoreInv'
  OBVIOUS
<1>. USE DEF StoreInv, StoreTypeOK, UniqueIds, AllValid
<1>1. CASE StoreFresh
  <2>1. PICK id \in CredIds \ StoredIds, rp \in Rps :
          StoreCredential([valid |-> TRUE, id |-> id, rp |-> rp, sign_count |-> 0])
    BY <1>1 DEF StoreFresh
  <2>. DEFINE c == [valid |-> TRUE, id |-> id, rp |-> rp, sign_count |-> 0]
  <2>2. c \in Credential
    BY CountAssumption DEF Credential, Counter
  <2>3. \A i \in DOMAIN nvs : nvs[i].id # c.id
    BY DEF StoredIds
  <2>4. PICK i \in Slot \ DOMAIN nvs :
           /\ DOMAIN nvs' = DOMAIN nvs \cup {i}
           /\ nvs'[i] = c
           /\ \A j \in DOMAIN nvs : nvs'[j] = nvs[j]
    BY <2>1, StoreEffect
  <2>5. initialized' = initialized BY <2>1 DEF StoreCredential
  <2>. HIDE DEF c
  <2>6. c.valid BY DEF c
  <2>. QED BY <2>2, <2>3, <2>4, <2>5, <2>6
<1>2. CASE UpdateAny
  <2>1. PICK id \in CredIds, n \in Counter, written \in BOOLEAN : UpdateSignCount(id, n, written)
    BY <1>2 DEF UpdateAny
  <2>2. initialized' = initialized BY <2>1 DEF UpdateSignCount
  <2>3. CASE nvs' = nvs BY <2>2, <2>3
  <2>4. CASE \E i \in DOMAIN nvs : nvs' = [nvs EXCEPT ![i].sign_count = n]
    <3>1. PICK i \in DOMAIN nvs : nvs' = [nvs EXCEPT ![i].sign_count = n]
      BY <2>4
    <3>2. DOMAIN nvs' = DOMAIN nvs
      BY <3>1, BumpedBlob
    <3>3. \A j \in DOMAIN nvs : /\ nvs'[j] \in Credential
                                /\ nvs'[j].id = nvs[j].id
                                /\ nvs'[j].valid = nvs[j].valid
      BY <3>1, BumpedBlob
    <3>. QED BY <2>2, <3>2, <3>3
  <2>. QED BY <2>1, <2>3, <2>4, UpdateEffect
<1>3. CASE ResetAny BY <1>3 DEF ResetAny, StorageReset
<1>4. CASE Open BY <1>4 DEF Open, StorageInit
<1>5. CASE PowerLoss BY <1>5 DEF PowerLoss
<1>6. CASE UNCHANGED storageVars BY <1>6 DEF storageVars
<1>. QED BY <1>1, <1>2, <1>3, <1>4, <1>5, <1>6 DEF StoreNext

(* Every reachable state of the store is well typed. *)
THEOREM StoreTypeCorrect == StoreSpec => []StoreTypeOK
PROOF
<1>1. StoreInit => StoreInv BY StoreInitInv
<1>2. StoreInv /\ [StoreNext]_storageVars => StoreInv' BY StoreNextInv
<1>3. StoreInv => StoreTypeOK BY DEF StoreInv
<1>. QED BY <1>1, <1>2, <1>3, PTL DEF StoreSpec

(* No two slots ever hold the same credential identifier. *)
THEOREM IdsStayUnique == StoreSpec => []UniqueIds
PROOF
<1>1. StoreInit => StoreInv BY StoreInitInv
<1>2. StoreInv /\ [StoreNext]_storageVars => StoreInv' BY StoreNextInv
<1>3. StoreInv => UniqueIds BY DEF StoreInv
<1>. QED BY <1>1, <1>2, <1>3, PTL DEF StoreSpec

(* A step keeps every credential where it is, or the store is erased. *)
LEMMA StoreStepKeeps ==
  ASSUME StoreInv, [StoreNext]_storageVars
  PROVE  Keeps
PROOF
<1>. USE DEF Keeps
<1>1. CASE StoreFresh BY <1>1, StoreEffect DEF StoreFresh
<1>2. CASE UpdateAny
  <2>1. PICK id \in CredIds, n \in Counter, written \in BOOLEAN : UpdateSignCount(id, n, written)
    BY <1>2 DEF UpdateAny
  <2>2. CASE \E i \in DOMAIN nvs : nvs' = [nvs EXCEPT ![i].sign_count = n]
    <3>1. PICK i \in DOMAIN nvs : nvs' = [nvs EXCEPT ![i].sign_count = n] BY <2>2
    <3>. QED BY <3>1, BumpedBlob
  <2>. QED BY <2>1, <2>2, UpdateEffect
<1>3. CASE ResetAny BY <1>3 DEF ResetAny, StorageReset
<1>4. CASE Open BY <1>4 DEF Open, StorageInit
<1>5. CASE PowerLoss BY <1>5 DEF PowerLoss
<1>6. CASE UNCHANGED storageVars BY <1>6 DEF storageVars
<1>. QED BY <1>1, <1>2, <1>3, <1>4, <1>5, <1>6 DEF StoreNext

(* Only a reset removes a credential, and it removes all of them. *)
THEOREM OnlyResetForgets == StoreSpec => CredentialsKept
PROOF
<1>1. StoreInit => StoreInv BY StoreInitInv
<1>2. StoreInv /\ [StoreNext]_storageVars => StoreInv' BY StoreNextInv
<1>3. StoreInv /\ [StoreNext]_storageVars => [Keeps]_storageVars
  BY StoreStepKeeps
<1>. QED BY <1>1, <1>2, <1>3, PTL DEF StoreSpec, CredentialsKept

-----------------------------------------------------------------------------
(* Refinement of the vault. *)

(* A free slot means room in the vault: distinct entries come from         *)
(* distinct slots, and one slot has none.                                  *)
LEMMA RoomInVault ==
  ASSUME StoreInv, NEW i \in Slot \ DOMAIN nvs
  PROVE  Cardinality(Contents) < MAX_CREDENTIALS
PROOF
<1>. DEFINE D == DOMAIN nvs
            f == [j \in D |-> EntryOf(nvs[j])]
<1>1. IsFiniteSet(Slot) /\ Cardinality(Slot) = MAX_CREDENTIALS
  BY FS_Interval, CapacityAssumption DEF Slot
<1>2. D \in SUBSET Slot /\ D # Slot
  BY DEF StoreInv, StoreTypeOK
<1>3. IsFiniteSet(D) /\ Cardinality(D) < MAX_CREDENTIALS
  <2>1. /\ IsFiniteSet(D)
        /\ Cardinality(D) <= Cardinality(Slot)
        /\ Cardinality(D) # Cardinality(Slot)
    BY <1>1, <1>2, FS_Subset
  <2>2. Cardinality(D) \in Nat BY <2>1, FS_CardinalityType
  <2>. QED BY <1>1, <2>1, <2>2, CapacityAssumption
<1>4. f \in Surjection(D, Contents)
  <2>1. f \in [D -> Contents] BY DEF Contents
  <2>2. \A e \in Contents : \E j \in D : f[j] = e BY DEF Contents
  <2>. QED BY <2>1, <2>2, Fun_IsSurj
<1>5. IsFiniteSet(Contents) /\ Cardinality(Contents) <= Cardinality(D)
  BY <1>3, <1>4, FS_Surjection
<1>6. Cardinality(Contents) \in Nat /\ Cardinality(D) \in Nat
  BY <1>3, <1>5, FS_CardinalityType
<1>. QED BY <1>3, <1>5, <1>6, CapacityAssumption

LEMMA StoreStepRefines ==
  ASSUME StoreInv, [StoreNext]_storageVars
  PROVE  [V!Next]_Contents
PROOF
<1>. DEFINE C == Contents
<1>1. CASE StoreFresh
  <2>1. PICK id \in CredIds \ StoredIds, rp \in Rps :
          StoreCredential([valid |-> TRUE, id |-> id, rp |-> rp, sign_count |-> 0])
    BY <1>1 DEF StoreFresh
  <2>. DEFINE c == [valid |-> TRUE, id |-> id, rp |-> rp, sign_count |-> 0]
              e == [id |-> id, rp |-> rp, sign_count |-> 0]
  <2>2. PICK i \in Slot \ DOMAIN nvs :
           /\ DOMAIN nvs' = DOMAIN nvs \cup {i}
           /\ nvs'[i] = c
           /\ \A j \in DOMAIN nvs : nvs'[j] = nvs[j]
    BY <2>1, StoreEffect
  <2>3. Contents' = Contents \cup {e}
    <3>1. Contents' = {EntryOf(nvs'[j]) : j \in DOMAIN nvs \cup {i}}
      BY <2>2 DEF Contents, EntryOf
    <3>2. EntryOf(nvs'[i]) = e BY <2>2 DEF EntryOf
    <3>. DEFINE old == {EntryOf(nvs[j]) : j \in DOMAIN nvs}
    <3>3. Contents' = old \cup {EntryOf(nvs'[i])}
      BY <2>2, <3>1
    <3>. QED BY <3>2, <3>3 DEF Contents
  <2>4. e \in V!Entry BY CountAssumption DEF V!Entry, Counter
  <2>5. e.id \notin V!Ids
    BY DEF V!Ids, StoredIds, Contents, EntryOf
  <2>6. Cardinality(Contents) < MAX_CREDENTIALS BY RoomInVault
  <2>7. V!Cardinality(Contents) = Cardinality(Contents)
    BY DEF V!Cardinality, Cardinality
  <2>8. V!Register(e) BY <2>3, <2>5, <2>6, <2>7 DEF V!Register
  <2>. QED BY <2>4, <2>8 DEF V!Next
<1>2. CASE UpdateAny
  <2>1. PICK id \in CredIds, n \in Counter, written \in BOOLEAN : UpdateSignCount(id, n, written)
    BY <1>2 DEF UpdateAny
  <2>2. CASE nvs' = nvs BY <2>2 DEF Contents
  <2>3. CASE \E i \in DOMAIN nvs : /\ nvs[i].id = id
                                  /\ nvs' = [nvs EXCEPT ![i].sign_count = n]
    <3>1. PICK i \in DOMAIN nvs : nvs[i].id = id /\ nvs' = [nvs EXCEPT ![i].sign_count = n]
      BY <2>3
    <3>. DEFINE upd(e) == IF e.id = id THEN [e EXCEPT !.sign_count = n] ELSE e
    <3>2. DOMAIN nvs' = DOMAIN nvs
      BY <3>1, BumpedBlob
    <3>3. \A j \in DOMAIN nvs : EntryOf(nvs'[j]) = upd(EntryOf(nvs[j]))
      <4>1. ASSUME NEW j \in DOMAIN nvs PROVE EntryOf(nvs'[j]) = upd(EntryOf(nvs[j]))
        <5>1. /\ nvs'[j].id = nvs[j].id
              /\ nvs'[j].rp = nvs[j].rp
              /\ nvs'[j].sign_count = IF j = i THEN n ELSE nvs[j].sign_count
          BY <3>1, BumpedBlob
        <5>2. nvs[j].id = id <=> j = i
          BY <3>1 DEF StoreInv, UniqueIds
        <5>. QED BY <5>1, <5>2 DEF EntryOf
      <4>. QED BY <4>1
    <3>4. Contents' = {upd(e) : e \in Contents}
      BY <3>2, <3>3 DEF Contents
    <3>5. id \in V!Ids
      <4>1. EntryOf(nvs[i]) \in Contents /\ EntryOf(nvs[i]).id = id
        BY <3>1 DEF Contents, EntryOf
      <4>. QED BY <4>1 DEF V!Ids
    <3>6. V!SetCount(id, n) BY <3>4, <3>5 DEF V!SetCount
    <3>. QED BY <3>6 DEF V!Next
  <2>. QED BY <2>1, <2>2, <2>3, UpdateEffect
<1>3. CASE ResetAny
  <2>1. CASE nvs' = nvs BY <2>1 DEF Contents
  <2>2. CASE nvs' = [i \in {} |-> 0]
    <3>1. Contents' = {} BY <2>2 DEF Contents
    <3>. QED BY <3>1 DEF V!Next, V!Wipe
  <2>. QED BY <1>3, <2>1, <2>2 DEF ResetAny, StorageReset
<1>4. CASE Open BY <1>4 DEF Open, StorageInit, Contents
<1>5. CASE PowerLoss BY <1>5 DEF PowerLoss, Contents
<1>6. CASE UNCHANGED storageVars BY <1>6 DEF storageVars, Contents
<1>. QED BY <1>1, <1>2, <1>3, <1>4, <1>5, <1>6 DEF StoreNext

(* The store implements the vault. *)
THEOREM ImplementsVault == StoreSpec => VaultSpec
PROOF
<1>1. StoreInit => StoreInv BY StoreInitInv
<1>2. StoreInv /\ [StoreNext]_storageVars => StoreInv' BY StoreNextInv
<1>3. StoreInit => V!Init BY DEF StoreInit, V!Init, Contents
<1>4. StoreInv /\ [StoreNext]_storageVars => [V!Next]_Contents
  BY StoreStepRefines
<1>. QED BY <1>1, <1>2, <1>3, <1>4, PTL DEF StoreSpec, VaultSpec, V!Spec

-----------------------------------------------------------------------------
(* The strengthening for the commands, in parts named for what they        *)
(* relate.                                                                 *)

(* Without power the store is closed; a reply is there only between        *)
(* commands; the locals of a command are filled in before they are used.   *)
FlowInv ==
  /\ pc = "off" => ~initialized
  /\ pc # "idle" => reply = NoReply
  /\ pc \notin {"off", "idle"} => req.rp \in Rps
  /\ pc \in {"store", "attest", "count", "sign"} => cred \in Credential

(* Stored identifiers have been drawn; the others have asserted nothing.   *)
IdsInv ==
  /\ StoredIds \subseteq drawn
  /\ \A id \in CredIds \ drawn : counted[id] = 0

(* A credential about to be stored is new. *)
NewInv ==
  pc = "store" => /\ cred.valid /\ cred.sign_count = 0
                  /\ cred.id \in drawn \ StoredIds
                  /\ counted[cred.id] = 0

(* A credential about to be acknowledged is stored. *)
AckInv == pc = "attest" => cred.id \in StoredIds

(* Flash is at most one behind what was reported: a refused write is the   *)
(* only way to fall behind, and the next assertion repeats the number.     *)
CountInv == \A i \in DOMAIN nvs :
  /\ counted[nvs[i].id] <= nvs[i].sign_count + 1
  /\ ~failed => counted[nvs[i].id] <= nvs[i].sign_count

(* The credential an assertion works on is in flash, and its counter is    *)
(* between the last one reported and one more than flash; if flash never   *)
(* failed, it is in flash and new.                                         *)
FoundInv ==
  /\ pc = "count" => \E i \in DOMAIN nvs : nvs[i] = cred /\ nvs[i].rp = req.rp
  /\ pc = "sign" => \E i \in DOMAIN nvs :
                      /\ nvs[i].id = cred.id /\ nvs[i].rp = req.rp
                      /\ counted[cred.id] <= cred.sign_count
                      /\ cred.sign_count <= nvs[i].sign_count + 1
                      /\ ~failed => /\ counted[cred.id] < cred.sign_count
                                    /\ cred.sign_count <= nvs[i].sign_count

(* A store that never failed is open, and refuses only when it is full. *)
OpenInv == pc # "off" /\ ~failed => initialized

StepInv == FlowInv /\ NewInv /\ AckInv /\ FoundInv /\ OpenInv /\ FullMeansFull
LastingInv == StoreInv /\ IdsInv /\ CountInv /\ AckedIsStored

CtapInv == CtapTypeOK /\ LastingInv /\ StepInv

-----------------------------------------------------------------------------
(* The constants the commands fill in are of their types. *)
LEMMA Constants == NoRequest \in Request /\ NoReply \in Reply /\ Blank \in Credential \cup {Blank}
PROOF
<1>1. << >> \in AllowLists
  <2>1. << >> \in [1 .. 0 -> CredIds \cup {OtherLength}] OBVIOUS
  <2>2. 0 \in 0 .. MaxAllow BY AllowAssumption
  <2>. QED BY <2>1, <2>2 DEF AllowLists
<1>2. NoRequest \in Request
  BY <1>1 DEF NoRequest, Request, Forms
<1>3. 0 \in Counter BY CountAssumption DEF Counter
<1>4. NoReply \in Reply
  BY <1>3 DEF NoReply, Reply, Status
<1>. QED BY <1>2, <1>4

(* A command that returns leaves nothing but its reply. *)
LEMMA Returned ==
  ASSUME NEW status \in Status, NEW ids \in SUBSET CredIds, NEW n \in Counter,
         Return(status, ids, n)
  PROVE  /\ pc' = "idle" /\ req' \in Request /\ cred' \in Credential \cup {Blank} /\ reply' \in Reply
         /\ reply'.status = status /\ reply'.ids = ids
PROOF
<1>1. reply' \in Reply BY DEF Return, Reply
<1>. QED BY <1>1, Constants DEF Return

LEMMA Failed ==
  ASSUME NEW status \in Status, Fails(status)
  PROVE  /\ pc' = "idle" /\ req' \in Request /\ cred' \in Credential \cup {Blank} /\ reply' \in Reply
         /\ reply'.status = status
PROOF
<1>1. {} \in SUBSET CredIds /\ 0 \in Counter
  BY CountAssumption DEF Counter
<1>. QED BY <1>1, Returned DEF Fails

(* The parts that speak of flash and history hold while those stand still. *)
LEMMA Quiet ==
  ASSUME CtapInv, UNCHANGED <<storageVars, drawn, historyVars>>
  PROVE  LastingInv' /\ StoredIds' = StoredIds
PROOF
<1>1. UNCHANGED <<nvs, initialized, drawn, acked, counted, failed>>
  BY DEF storageVars, historyVars
<1>2. StoredIds' = StoredIds BY <1>1 DEF StoredIds
<1>3. StoreInv'
  BY <1>1 DEF CtapInv, LastingInv, StoreInv, StoreTypeOK, UniqueIds, AllValid
<1>4. IdsInv' /\ CountInv' /\ AckedIsStored'
  BY <1>1, <1>2 DEF CtapInv, LastingInv, IdsInv, CountInv, AckedIsStored
<1>. QED BY <1>2, <1>3, <1>4 DEF LastingInv

LEMMA ParseErrors ==
  ASSUME NEW q \in Request, q.form # "good"
  PROVE  ParseError(q) \in Status \ {"OK", "KEY_STORE_FULL"}
BY DEF Request, Forms, ParseError, Status

(* What is left to show of a step that ends a command. *)
LEMMA EndsCommand ==
  ASSUME CtapInv, LastingInv', pc' = "idle",
         req' \in Request, cred' \in Credential \cup {Blank}, reply' \in Reply,
         drawn' \subseteq CredIds, acked' \subseteq CredIds, counted' \in [CredIds -> Counter],
         failed' \in BOOLEAN, ~failed' => initialized', FullMeansFull'
  PROVE  CtapInv'
PROOF
<1>1. CtapTypeOK' BY DEF CtapTypeOK, LastingInv, StoreInv
<1>2. FlowInv' /\ NewInv' /\ AckInv' /\ FoundInv' /\ OpenInv'
  BY DEF FlowInv, NewInv, AckInv, FoundInv, OpenInv
<1>. QED BY <1>1, <1>2 DEF CtapInv, StepInv

(* A step from a command to its end, or within one, that leaves flash and  *)
(* history alone keeps the store open.                                     *)
LEMMA StaysOpen ==
  ASSUME CtapInv, pc # "off", UNCHANGED <<initialized, failed>>
  PROVE  OpenInv' /\ failed' \in BOOLEAN /\ (~failed' => initialized')
BY DEF CtapInv, CtapTypeOK, StepInv, OpenInv

(* A command that ends without touching flash or history. *)
LEMMA EndsQuietly ==
  ASSUME CtapInv, pc # "off", NEW status \in Status \ {"KEY_STORE_FULL"},
         Return(status, {}, 0), UNCHANGED <<storageVars, drawn, historyVars>>
  PROVE  CtapInv'
PROOF
<1>0. {} \in SUBSET CredIds /\ 0 \in Counter BY CountAssumption DEF Counter
<1>1. /\ pc' = "idle" /\ req' \in Request /\ cred' \in Credential \cup {Blank} /\ reply' \in Reply
      /\ reply'.status # "KEY_STORE_FULL"
  BY <1>0, Returned
<1>2. FullMeansFull' BY <1>1 DEF FullMeansFull
<1>3. drawn' \subseteq CredIds /\ acked' \subseteq CredIds /\ counted' \in [CredIds -> Counter]
  BY DEF CtapInv, CtapTypeOK, historyVars
<1>4. failed' \in BOOLEAN /\ (~failed' => initialized')
  BY StaysOpen DEF storageVars, historyVars
<1>. QED BY <1>1, <1>2, <1>3, <1>4, Quiet, EndsCommand

LEMMA FailsQuietly ==
  ASSUME CtapInv, pc # "off", NEW status \in Status \ {"OK", "KEY_STORE_FULL"}, Fails(status),
         UNCHANGED <<storageVars, drawn, historyVars>>
  PROVE  CtapInv'
BY EndsQuietly DEF Fails

LEMMA SimpleKeeps ==
  ASSUME CtapInv, NEW status \in {"OK", "INVALID_LENGTH", "INVALID_COMMAND"}, Simple(status)
  PROVE  CtapInv'
PROOF
<1>1. pc # "off" /\ Return(status, {}, 0) /\ UNCHANGED <<storageVars, drawn, historyVars>>
  BY DEF Simple
<1>2. status \in Status \ {"KEY_STORE_FULL"} BY DEF Status
<1>. QED BY <1>1, <1>2, EndsQuietly

LEMMA ResetKeeps == ASSUME CtapInv, Reset PROVE CtapInv'
PROOF
<1>1. PICK cleared \in WriteOutcomes :
        /\ StorageReset(cleared)
        /\ Return("OK", {}, 0)
        /\ acked' = IF initialized /\ cleared THEN {} ELSE acked
        /\ failed' = (failed \/ ~cleared)
        /\ pc = "idle" /\ UNCHANGED <<drawn, counted>>
  BY DEF Reset
<1>2. "OK" \in Status /\ {} \in SUBSET CredIds /\ 0 \in Counter
  BY CountAssumption DEF Status, Counter
<1>3. /\ pc' = "idle" /\ req' \in Request /\ cred' \in Credential \cup {Blank} /\ reply' \in Reply
      /\ reply'.status = "OK"
  BY <1>1, <1>2, Returned
<1>4. initialized' = initialized /\ cleared \in BOOLEAN /\ failed \in BOOLEAN
  BY <1>1, OutcomesAssumption DEF StorageReset, CtapInv, CtapTypeOK
<1>5. LastingInv'
  <2>1. CASE initialized /\ cleared
    <3>1. nvs' = [i \in {} |-> 0] /\ acked' = {}
      BY <1>1, <2>1 DEF StorageReset
    <3>2. DOMAIN nvs' = {} /\ StoredIds' = {} BY <3>1 DEF StoredIds
    <3>3. StoreInv'
      BY <1>4, <3>1, <3>2 DEF CtapInv, LastingInv, StoreInv, StoreTypeOK, UniqueIds, AllValid
    <3>4. IdsInv' /\ CountInv' /\ AckedIsStored'
      BY <1>1, <3>1, <3>2 DEF CtapInv, LastingInv, IdsInv, CountInv, AckedIsStored
    <3>. QED BY <3>3, <3>4 DEF LastingInv
  <2>2. CASE ~(initialized /\ cleared)
    <3>1. nvs' = nvs /\ acked' = acked /\ (~failed' => ~failed)
      BY <1>1, <1>4, <2>2 DEF StorageReset
    <3>2. StoredIds' = StoredIds BY <3>1 DEF StoredIds
    <3>3. StoreInv'
      BY <1>4, <3>1 DEF CtapInv, LastingInv, StoreInv, StoreTypeOK, UniqueIds, AllValid
    <3>4. IdsInv' /\ CountInv' /\ AckedIsStored'
      BY <1>1, <3>1, <3>2 DEF CtapInv, LastingInv, IdsInv, CountInv, AckedIsStored
    <3>. QED BY <3>3, <3>4 DEF LastingInv
  <2>. QED BY <2>1, <2>2
<1>6. drawn' \subseteq CredIds /\ acked' \subseteq CredIds /\ counted' \in [CredIds -> Counter]
  BY <1>1 DEF CtapInv, CtapTypeOK
<1>7. failed' \in BOOLEAN /\ (~failed' => initialized')
  BY <1>1, <1>4 DEF CtapInv, StepInv, OpenInv
<1>8. FullMeansFull' BY <1>3 DEF FullMeansFull
<1>. QED BY <1>3, <1>5, <1>6, <1>7, <1>8, EndsCommand

-----------------------------------------------------------------------------
(* makeCredential *)

(* A step within a command that leaves flash and what failed alone. *)
LEMMA GoesOn ==
  ASSUME CtapInv, pc # "off", pc' # "idle", reply' = NoReply, UNCHANGED <<initialized, failed>>
  PROVE  OpenInv' /\ FullMeansFull' /\ failed' \in BOOLEAN
PROOF
<1>1. FullMeansFull' BY DEF FullMeansFull, NoReply
<1>. QED BY <1>1, StaysOpen

LEMMA MakeCredentialKeeps == ASSUME CtapInv, MakeCredential PROVE CtapInv'
PROOF
<1>1. PICK q \in Sendable :
        /\ pc = "idle"
        /\ IF q.form = "good" THEN Start(q, "keygen") ELSE Fails(ParseError(q))
        /\ UNCHANGED <<storageVars, drawn, historyVars>>
  BY DEF MakeCredential
<1>2. q \in Request /\ q.rp \in Rps BY DEF Sendable
<1>3. CASE q.form = "good"
  <2>1. pc' = "keygen" /\ req' = q /\ reply' = NoReply /\ cred' = cred
    BY <1>1, <1>3 DEF Start
  <2>2. UNCHANGED <<initialized, drawn, acked, counted, failed>>
    BY <1>1 DEF storageVars, historyVars
  <2>3. OpenInv' /\ FullMeansFull' BY <1>1, <2>1, <2>2, GoesOn
  <2>4. CtapTypeOK'
    BY <1>1, <1>2, <2>1, <2>2, Quiet, Constants DEF CtapInv, CtapTypeOK, LastingInv, StoreInv
  <2>5. FlowInv' /\ NewInv' /\ AckInv' /\ FoundInv'
    BY <1>2, <2>1 DEF FlowInv, NewInv, AckInv, FoundInv
  <2>. QED BY <1>1, <2>3, <2>4, <2>5, Quiet DEF CtapInv, StepInv
<1>4. CASE q.form # "good"
  BY <1>1, <1>2, <1>4, ParseErrors, FailsQuietly
<1>. QED BY <1>3, <1>4

LEMMA GenerateCredentialKeeps == ASSUME CtapInv, GenerateCredential PROVE CtapInv'
PROOF
<1>0. pc = "keygen" /\ req.rp \in Rps /\ reply = NoReply
  BY DEF GenerateCredential, CtapInv, StepInv, FlowInv
<1>1. CASE \E id \in FreshId :
             /\ drawn' = drawn \cup {id}
             /\ cred' = [valid |-> TRUE, id |-> id, rp |-> req.rp, sign_count |-> 0]
             /\ pc' = "store"
             /\ UNCHANGED <<req, reply>>
  <2>1. PICK id \in CredIds \ drawn :
             /\ drawn' = drawn \cup {id}
             /\ cred' = [valid |-> TRUE, id |-> id, rp |-> req.rp, sign_count |-> 0]
             /\ pc' = "store"
             /\ UNCHANGED <<req, reply>>
    BY <1>1 DEF FreshId
  <2>2. UNCHANGED <<nvs, initialized, acked, counted, failed>>
    BY DEF GenerateCredential, storageVars, historyVars
  <2>3. StoredIds' = StoredIds BY <2>2 DEF StoredIds
  <2>4. cred' \in Credential
    BY <1>0, <2>1, CountAssumption DEF Credential, Counter
  <2>5. LastingInv'
    <3>1. StoreInv'
      BY <2>2 DEF CtapInv, LastingInv, StoreInv, StoreTypeOK, UniqueIds, AllValid
    <3>2. IdsInv' /\ CountInv' /\ AckedIsStored'
      BY <2>1, <2>2, <2>3 DEF CtapInv, LastingInv, IdsInv, CountInv, AckedIsStored
    <3>. QED BY <3>1, <3>2 DEF LastingInv
  <2>6. CtapTypeOK'
    BY <2>1, <2>2, <2>4, <2>5 DEF CtapInv, CtapTypeOK, LastingInv, StoreInv
  <2>7. NewInv'
    BY <2>1, <2>2, <2>3 DEF CtapInv, LastingInv, IdsInv, NewInv
  <2>8. FlowInv' /\ AckInv' /\ FoundInv'
    BY <1>0, <2>1, <2>4 DEF FlowInv, AckInv, FoundInv
  <2>9. OpenInv' /\ FullMeansFull' BY <1>0, <2>1, <2>2, GoesOn
  <2>. QED BY <2>5, <2>6, <2>7, <2>8, <2>9 DEF CtapInv, StepInv
<1>2. CASE Fails("OTHER") /\ UNCHANGED drawn
  <2>1. UNCHANGED <<storageVars, drawn, historyVars>> BY <1>2 DEF GenerateCredential
  <2>2. "OTHER" \in Status \ {"OK", "KEY_STORE_FULL"} BY DEF Status
  <2>. QED BY <1>0, <1>2, <2>1, <2>2, FailsQuietly
<1>. QED BY <1>1, <1>2 DEF GenerateCredential

(* The credential at hand is one the store takes. *)
LEMMA NewIsFresh ==
  ASSUME CtapInv, pc = "store"
  PROVE  /\ cred.id \in CredIds \ StoredIds /\ cred.rp \in Rps
         /\ cred = [valid |-> TRUE, id |-> cred.id, rp |-> cred.rp, sign_count |-> 0]
PROOF
<1>1. cred \in Credential BY DEF CtapInv, StepInv, FlowInv
<1>. QED BY <1>1 DEF CtapInv, StepInv, NewInv, Credential

(* A registration is refused although nothing failed: every slot is taken. *)
LEMMA FullWhenRefused ==
  ASSUME CtapInv, initialized, NEW written \in BOOLEAN, written, StoreCredentialFails(written)
  PROVE  DOMAIN nvs = Slot
BY DEF StoreCredentialFails, Free, CtapInv, LastingInv, StoreInv, StoreTypeOK

LEMMA StoreNewKeeps == ASSUME CtapInv, StoreNew PROVE CtapInv'
PROOF
<1>0. pc = "store" /\ UNCHANGED <<drawn, acked, counted>> /\ reply = NoReply /\ req.rp \in Rps
      /\ cred \in Credential /\ req \in Request /\ failed \in BOOLEAN
  BY DEF StoreNew, CtapInv, CtapTypeOK, StepInv, FlowInv
<1>1. PICK written \in WriteOutcomes :
       /\ \/ written /\ StoreCredential(cred) /\ Goto("attest")
          \/ StoreCredentialFails(written) /\ Fails("KEY_STORE_FULL")
       /\ failed' = (failed \/ ~written)
  BY DEF StoreNew
<1>2. written \in BOOLEAN /\ failed' \in BOOLEAN BY <1>0, <1>1, OutcomesAssumption
<1>3. CASE written /\ StoreCredential(cred) /\ Goto("attest")
  <2>1. UNCHANGED <<req, cred, reply, initialized, failed>> /\ pc' = "attest"
    BY <1>0, <1>1, <1>3 DEF Goto, StoreCredential
  <2>2. PICK i \in Slot \ DOMAIN nvs : /\ DOMAIN nvs' = DOMAIN nvs \cup {i}
                                       /\ nvs'[i] = cred
                                       /\ \A j \in DOMAIN nvs : nvs'[j] = nvs[j]
    BY <1>3, StoreEffect DEF CtapInv, LastingInv
  <2>3. StoreInv'
    <3>1. StoreFresh BY <1>0, <1>3, NewIsFresh DEF StoreFresh
    <3>. QED BY <3>1, StoreNextInv DEF StoreNext, CtapInv, LastingInv
  <2>4. StoredIds' = StoredIds \cup {cred.id} BY <2>2 DEF StoredIds
  <2>5. IdsInv' /\ AckedIsStored'
    BY <1>0, <2>4 DEF CtapInv, LastingInv, StepInv, IdsInv, AckedIsStored, NewInv
  <2>6. CountInv'
    <3>1. counted[cred.id] = 0 /\ cred.sign_count = 0
      BY <1>0 DEF CtapInv, StepInv, NewInv
    <3>2. ASSUME NEW j \in DOMAIN nvs'
          PROVE  /\ counted'[nvs'[j].id] <= nvs'[j].sign_count + 1
                 /\ ~failed' => counted'[nvs'[j].id] <= nvs'[j].sign_count
      <4>1. CASE j = i BY <1>0, <2>2, <3>1, <4>1
      <4>2. CASE j \in DOMAIN nvs BY <1>0, <2>1, <2>2, <4>2 DEF CtapInv, LastingInv, CountInv
      <4>. QED BY <2>2, <4>1, <4>2
    <3>. QED BY <3>2 DEF CountInv
  <2>7. CtapTypeOK'
    BY <1>0, <1>2, <2>1, <2>3 DEF CtapInv, CtapTypeOK, StoreInv
  <2>8. FlowInv' /\ NewInv' /\ AckInv' /\ FoundInv'
    BY <1>0, <2>1, <2>4 DEF FlowInv, NewInv, AckInv, FoundInv
  <2>9. OpenInv' /\ FullMeansFull' BY <1>0, <2>1, GoesOn
  <2>. QED BY <2>3, <2>5, <2>6, <2>7, <2>8, <2>9 DEF CtapInv, LastingInv, StepInv
<1>4. CASE StoreCredentialFails(written) /\ Fails("KEY_STORE_FULL")
  <2>1. "KEY_STORE_FULL" \in Status BY DEF Status
  <2>2. /\ pc' = "idle" /\ req' \in Request /\ cred' \in Credential \cup {Blank} /\ reply' \in Reply
    BY <1>4, <2>1, Failed
  <2>3. UNCHANGED <<nvs, initialized>> BY <1>4 DEF StoreCredentialFails, storageVars
  <2>4. ~failed' => ~failed /\ written /\ initialized /\ initialized'
    BY <1>0, <1>1, <1>2, <2>3 DEF CtapInv, StepInv, OpenInv
  <2>5. FullMeansFull'
    BY <1>2, <1>4, <2>3, <2>4, FullWhenRefused DEF FullMeansFull
  <2>6. LastingInv'
    <3>1. StoredIds' = StoredIds BY <2>3 DEF StoredIds
    <3>2. StoreInv'
      BY <2>3 DEF CtapInv, LastingInv, StoreInv, StoreTypeOK, UniqueIds, AllValid
    <3>3. IdsInv' /\ CountInv' /\ AckedIsStored'
      BY <1>0, <2>3, <2>4, <3>1 DEF CtapInv, LastingInv, IdsInv, CountInv, AckedIsStored
    <3>. QED BY <3>2, <3>3 DEF LastingInv
  <2>7. drawn' \subseteq CredIds /\ acked' \subseteq CredIds /\ counted' \in [CredIds -> Counter]
    BY <1>0 DEF CtapInv, CtapTypeOK
  <2>. QED BY <1>2, <2>2, <2>4, <2>5, <2>6, <2>7, EndsCommand
<1>. QED BY <1>1, <1>3, <1>4

LEMMA AttestKeeps == ASSUME CtapInv, Attest PROVE CtapInv'
PROOF
<1>0. /\ pc = "attest" /\ cred \in Credential
      /\ UNCHANGED <<nvs, initialized, drawn, counted, failed>>
  BY DEF Attest, CtapInv, StepInv, FlowInv, storageVars
<1>1. CASE Return("OK", {cred.id}, 0) /\ acked' = acked \cup {cred.id}
  <2>1. "OK" \in Status /\ {cred.id} \in SUBSET CredIds /\ 0 \in Counter
    BY <1>0, CountAssumption DEF Status, Counter, Credential
  <2>2. /\ pc' = "idle" /\ req' \in Request /\ cred' \in Credential \cup {Blank} /\ reply' \in Reply
        /\ reply'.status = "OK"
    BY <1>1, <2>1, Returned
  <2>3. FullMeansFull' BY <2>2 DEF FullMeansFull
  <2>4. LastingInv'
    <3>1. StoredIds' = StoredIds BY <1>0 DEF StoredIds
    <3>2. StoreInv'
      BY <1>0 DEF CtapInv, LastingInv, StoreInv, StoreTypeOK, UniqueIds, AllValid
    <3>3. IdsInv' /\ CountInv'
      BY <1>0, <3>1 DEF CtapInv, LastingInv, IdsInv, CountInv
    <3>4. AckedIsStored'
      BY <1>0, <1>1, <3>1 DEF CtapInv, LastingInv, StepInv, AckInv, AckedIsStored
    <3>. QED BY <3>2, <3>3, <3>4 DEF LastingInv
  <2>5. drawn' \subseteq CredIds /\ acked' \subseteq CredIds /\ counted' \in [CredIds -> Counter]
    BY <1>0, <1>1, <2>1 DEF CtapInv, CtapTypeOK
  <2>6. failed' \in BOOLEAN /\ (~failed' => initialized') BY <1>0, StaysOpen
  <2>. QED BY <2>2, <2>3, <2>4, <2>5, <2>6, EndsCommand
<1>2. CASE Fails("OTHER") /\ UNCHANGED acked
  <2>1. "OTHER" \in Status \ {"OK", "KEY_STORE_FULL"} BY DEF Status
  <2>2. UNCHANGED <<storageVars, drawn, historyVars>> BY <1>0, <1>2 DEF storageVars, historyVars
  <2>. QED BY <1>0, <1>2, <2>1, <2>2, FailsQuietly
<1>. QED BY <1>1, <1>2 DEF Attest

-----------------------------------------------------------------------------
(* getAssertion *)
LEMMA GetAssertionKeeps == ASSUME CtapInv, GetAssertion PROVE CtapInv'
PROOF
<1>1. PICK q \in Sendable : /\ pc = "idle" /\ Start(q, "ask")
                            /\ UNCHANGED <<storageVars, drawn, historyVars>>
  BY DEF GetAssertion
<1>2. /\ pc' = "ask" /\ req' = q /\ q \in Request /\ q.rp \in Rps
      /\ reply' = NoReply /\ cred' = cred
  BY <1>1 DEF Start, Sendable
<1>3. UNCHANGED <<initialized, drawn, acked, counted, failed>>
  BY <1>1 DEF storageVars, historyVars
<1>4. OpenInv' /\ FullMeansFull' BY <1>1, <1>2, <1>3, GoesOn
<1>5. CtapTypeOK'
  BY <1>1, <1>2, <1>3, Quiet, Constants DEF CtapInv, CtapTypeOK, LastingInv, StoreInv
<1>6. FlowInv' /\ NewInv' /\ AckInv' /\ FoundInv'
  BY <1>2 DEF FlowInv, NewInv, AckInv, FoundInv
<1>. QED BY <1>1, <1>4, <1>5, <1>6, Quiet DEF CtapInv, StepInv

LEMMA AnsweredKeeps ==
  ASSUME CtapInv, NEW granted \in BOOLEAN, Answered(granted) PROVE CtapInv'
PROOF
<1>0. /\ pc = "ask" /\ req \in Request /\ req.rp \in Rps /\ reply = NoReply
      /\ UNCHANGED <<storageVars, drawn, historyVars>>
  BY DEF Answered, CtapInv, CtapTypeOK, StepInv, FlowInv
<1>1. CASE Goto("find")
  <2>1. pc' = "find" /\ UNCHANGED <<req, cred, reply>> BY <1>1 DEF Goto
  <2>2. UNCHANGED <<initialized, drawn, acked, counted, failed>>
    BY <1>0 DEF storageVars, historyVars
  <2>3. OpenInv' /\ FullMeansFull' BY <1>0, <2>1, <2>2, GoesOn
  <2>4. CtapTypeOK'
    BY <1>0, <2>1, <2>2, Quiet DEF CtapInv, CtapTypeOK, LastingInv, StoreInv
  <2>5. FlowInv' /\ NewInv' /\ AckInv' /\ FoundInv'
    BY <1>0, <2>1 DEF FlowInv, NewInv, AckInv, FoundInv
  <2>. QED BY <1>0, <2>3, <2>4, <2>5, Quiet DEF CtapInv, StepInv
<1>2. CASE Fails("OPERATION_DENIED")
  <2>1. "OPERATION_DENIED" \in Status \ {"OK", "KEY_STORE_FULL"} BY DEF Status
  <2>. QED BY <1>0, <1>2, <2>1, FailsQuietly
<1>3. CASE req.form # "good" /\ Fails(ParseError(req))
  BY <1>0, <1>3, ParseErrors, FailsQuietly
<1>. QED BY <1>1, <1>2, <1>3 DEF Answered

(* What the search returns is a credential of the relying party. *)
LEMMA SelectedIsOwn ==
  ASSUME CtapInv, Selected(req) # {}
  PROVE  Min(Selected(req)) \in DOMAIN nvs /\ nvs[Min(Selected(req))].rp = req.rp
PROOF
<1>1. Selected(req) \subseteq Holding(req.rp)
  BY DEF Selected, FindCredential, FindCredentialsForRp, Matching
<1>2. Holding(req.rp) \subseteq Slot
  BY DEF Holding, CtapInv, LastingInv, StoreInv, StoreTypeOK
<1>3. Min(Selected(req)) \in Selected(req) BY <1>1, <1>2, MinInSet
<1>. QED BY <1>1, <1>3 DEF Holding

LEMMA FindKeeps == ASSUME CtapInv, Find PROVE CtapInv'
PROOF
<1>0. /\ pc = "find" /\ req \in Request /\ req.rp \in Rps /\ reply = NoReply
      /\ UNCHANGED <<storageVars, drawn, historyVars>>
  BY DEF Find, CtapInv, CtapTypeOK, StepInv, FlowInv
<1>1. CASE Selected(req) = {}
  <2>1. "NO_CREDENTIALS" \in Status \ {"OK", "KEY_STORE_FULL"} BY DEF Status
  <2>. QED BY <1>0, <1>1, <2>1, FailsQuietly DEF Find
<1>2. CASE Selected(req) # {}
  <2>. DEFINE i == Min(Selected(req))
  <2>1. cred' = nvs[i] /\ pc' = "count" /\ UNCHANGED <<req, reply>>
    BY <1>2 DEF Find
  <2>2. i \in DOMAIN nvs /\ nvs[i].rp = req.rp BY <1>2, SelectedIsOwn
  <2>. HIDE DEF i
  <2>3. cred' \in Credential
    BY <2>1, <2>2 DEF CtapInv, LastingInv, StoreInv, StoreTypeOK
  <2>4. UNCHANGED <<nvs, initialized, drawn, acked, counted, failed>>
    BY <1>0 DEF storageVars, historyVars
  <2>5. CtapTypeOK'
    BY <1>0, <2>1, <2>3, <2>4, Quiet DEF CtapInv, CtapTypeOK, LastingInv, StoreInv
  <2>6. FoundInv'
    BY <2>1, <2>2, <2>4 DEF FoundInv
  <2>7. FlowInv' /\ NewInv' /\ AckInv'
    BY <1>0, <2>1, <2>3 DEF FlowInv, NewInv, AckInv
  <2>8. OpenInv' /\ FullMeansFull' BY <1>0, <2>1, <2>4, GoesOn
  <2>. QED BY <1>0, <2>5, <2>6, <2>7, <2>8, Quiet DEF CtapInv, StepInv
<1>. QED BY <1>1, <1>2

(* The counter written is one of the store's. *)
LEMMA CountIsUpdate ==
  ASSUME CtapInv, Count
  PROVE  /\ cred \in Credential /\ cred.id \in CredIds /\ cred.sign_count + 1 \in Counter
         /\ cred' \in Credential /\ cred'.id = cred.id /\ cred'.sign_count = cred.sign_count + 1
         /\ \E written \in BOOLEAN : /\ UpdateSignCount(cred.id, cred.sign_count + 1, written)
                                     /\ failed' = (failed \/ ~written)
PROOF
<1>1. cred \in Credential BY DEF Count, CtapInv, StepInv, FlowInv
<1>2. cred.sign_count + 1 \in Counter
  BY <1>1, CountAssumption DEF Count, Credential, Counter
<1>3. cred' = [cred EXCEPT !.sign_count = @ + 1] BY DEF Count, Counted
<1>4. cred' \in Credential /\ cred'.id = cred.id /\ cred'.sign_count = cred.sign_count + 1
  BY <1>1, <1>2, <1>3 DEF Credential
<1>5. PICK written \in WriteOutcomes : /\ UpdateSignCount(cred.id, cred'.sign_count, written)
                                       /\ failed' = (failed \/ ~written)
  BY DEF Count
<1>6. written \in BOOLEAN /\ UpdateSignCount(cred.id, cred.sign_count + 1, written)
  BY <1>4, <1>5, OutcomesAssumption
<1>7. cred.id \in CredIds BY <1>1 DEF Credential
<1>. QED BY <1>1, <1>2, <1>4, <1>5, <1>6, <1>7

(* What the write of a counter does to the credential an assertion is of. *)
LEMMA CountEffect ==
  ASSUME CtapInv, NEW k \in DOMAIN nvs, nvs[k] = cred, NEW n \in Counter,
         NEW written \in BOOLEAN, UpdateSignCount(cred.id, n, written)
  PROVE  /\ DOMAIN nvs' = DOMAIN nvs /\ initialized' = initialized
         /\ \A j \in DOMAIN nvs :
              /\ nvs'[j].id = nvs[j].id /\ nvs'[j].rp = nvs[j].rp
              /\ nvs'[j].sign_count = nvs[j].sign_count \/ (j = k /\ nvs'[j].sign_count = n)
         /\ written /\ initialized => nvs'[k].sign_count = n
PROOF
<1>1. cred.id \in CredIds
  BY DEF CtapInv, LastingInv, StoreInv, StoreTypeOK, Credential
<1>2. k \in Named(cred.id) BY DEF Named, CtapInv, LastingInv, StoreInv, AllValid
<1>. DEFINE m == Min(Named(cred.id))
<1>3. m \in DOMAIN nvs /\ nvs[m].id = cred.id
  BY <1>2, NamedIsFirst DEF CtapInv, LastingInv, StoreInv
<1>4. m = k BY <1>3 DEF CtapInv, LastingInv, StoreInv, UniqueIds
<1>5. /\ nvs' = IF initialized /\ written THEN [nvs EXCEPT ![m].sign_count = n] ELSE nvs
      /\ initialized' = initialized
  BY <1>2 DEF UpdateSignCount
<1>. HIDE DEF m
<1>6. CASE initialized /\ written
  <2>1. nvs' = [nvs EXCEPT ![k].sign_count = n] BY <1>4, <1>5, <1>6
  <2>2. /\ DOMAIN nvs' = DOMAIN nvs
        /\ \A j \in DOMAIN nvs : /\ nvs'[j].id = nvs[j].id /\ nvs'[j].rp = nvs[j].rp
                                 /\ nvs'[j].sign_count = IF j = k THEN n ELSE nvs[j].sign_count
    BY <2>1, BumpedBlob DEF CtapInv, LastingInv
  <2>. QED BY <1>5, <2>2
<1>7. CASE ~(initialized /\ written) BY <1>5, <1>7
<1>. QED BY <1>6, <1>7

LEMMA CountKeeps == ASSUME CtapInv, Count PROVE CtapInv'
PROOF
<1>. DEFINE n == cred.sign_count + 1
<1>0. /\ pc = "count" /\ pc' = "sign" /\ UNCHANGED <<req, reply, drawn, acked, counted>>
      /\ reply = NoReply /\ req.rp \in Rps /\ req \in Request /\ failed \in BOOLEAN
  BY DEF Count, CtapInv, CtapTypeOK, StepInv, FlowInv
<1>1. PICK written \in BOOLEAN : /\ UpdateSignCount(cred.id, n, written)
                                 /\ failed' = (failed \/ ~written)
  BY CountIsUpdate
<1>2. cred.id \in CredIds /\ n \in Counter /\ n \in Nat BY CountIsUpdate DEF Counter
<1>3. cred' \in Credential /\ cred'.id = cred.id /\ cred'.sign_count = n
  BY CountIsUpdate
<1>4. PICK k \in DOMAIN nvs : nvs[k] = cred /\ nvs[k].rp = req.rp
  BY <1>0 DEF CtapInv, StepInv, FoundInv
<1>5. n = nvs[k].sign_count + 1 BY <1>4
<1>. HIDE DEF n
<1>6. /\ DOMAIN nvs' = DOMAIN nvs /\ initialized' = initialized
      /\ \A j \in DOMAIN nvs :
           /\ nvs'[j].id = nvs[j].id /\ nvs'[j].rp = nvs[j].rp
           /\ nvs'[j].sign_count = nvs[j].sign_count \/ (j = k /\ nvs'[j].sign_count = n)
      /\ written /\ initialized => nvs'[k].sign_count = n
  BY <1>1, <1>2, <1>4, CountEffect
<1>7. StoreInv'
  <2>1. UpdateAny BY <1>1, <1>2 DEF UpdateAny
  <2>. QED BY <2>1, StoreNextInv DEF StoreNext, CtapInv, LastingInv
<1>8. StoredIds' = StoredIds BY <1>6 DEF StoredIds
<1>9. IdsInv' /\ AckedIsStored'
  BY <1>0, <1>8 DEF CtapInv, LastingInv, IdsInv, AckedIsStored
<1>10. \A j \in DOMAIN nvs : nvs[j].sign_count \in Nat /\ nvs[j].id \in CredIds /\ counted[nvs[j].id] \in Nat
  BY DEF CtapInv, CtapTypeOK, StoreTypeOK, Credential, Counter
<1>11. ~failed' => ~failed /\ written /\ initialized /\ initialized'
  BY <1>0, <1>1, <1>6 DEF CtapInv, StepInv, OpenInv
<1>12. CountInv'
  BY <1>0, <1>2, <1>5, <1>6, <1>10, <1>11 DEF CtapInv, LastingInv, CountInv
<1>13. FoundInv'
  <2>1. counted[cred.id] <= n /\ (~failed => counted[cred.id] < n)
    BY <1>2, <1>4, <1>5, <1>10 DEF CtapInv, LastingInv, CountInv
  <2>2. n <= nvs'[k].sign_count + 1
    BY <1>2, <1>5, <1>6, <1>10
  <2>3. ~failed' => n <= nvs'[k].sign_count
    BY <1>2, <1>6, <1>11
  <2>. QED BY <1>0, <1>3, <1>4, <1>6, <1>11, <2>1, <2>2, <2>3 DEF FoundInv
<1>14. failed' \in BOOLEAN BY <1>0, <1>1
<1>15. CtapTypeOK'
  BY <1>0, <1>3, <1>7, <1>14 DEF CtapInv, CtapTypeOK, StoreInv
<1>16. FlowInv' /\ NewInv' /\ AckInv'
  BY <1>0, <1>3 DEF FlowInv, NewInv, AckInv
<1>17. OpenInv' /\ FullMeansFull'
  BY <1>0, <1>11 DEF OpenInv, FullMeansFull, NoReply
<1>. QED BY <1>7, <1>9, <1>12, <1>13, <1>15, <1>16, <1>17 DEF CtapInv, LastingInv, StepInv

(* What a signature relies on. *)
LEMMA SignFacts ==
  ASSUME CtapInv, Sign
  PROVE  /\ pc = "sign" /\ cred \in Credential /\ UNCHANGED <<nvs, initialized, drawn, acked, failed>>
         /\ counted[cred.id] <= cred.sign_count /\ cred.sign_count \in Nat
         /\ ~failed => counted[cred.id] < cred.sign_count
         /\ \E k \in DOMAIN nvs : /\ nvs[k].id = cred.id /\ nvs[k].rp = req.rp
                                  /\ cred.sign_count <= nvs[k].sign_count + 1
                                  /\ ~failed => cred.sign_count <= nvs[k].sign_count
PROOF
<1>1. pc = "sign" /\ UNCHANGED <<nvs, initialized, drawn, acked, failed>>
  BY DEF Sign, storageVars
<1>2. cred \in Credential /\ cred.sign_count \in Nat
  BY <1>1 DEF CtapInv, StepInv, FlowInv, Credential, Counter
<1>. QED BY <1>1, <1>2 DEF CtapInv, StepInv, FoundInv

LEMMA SignKeeps == ASSUME CtapInv, Sign PROVE CtapInv'
PROOF
<1>0. pc = "sign" /\ cred \in Credential /\ UNCHANGED <<nvs, initialized, drawn, acked, failed>>
  BY SignFacts
<1>1. CASE /\ Return("OK", {cred.id}, cred.sign_count)
           /\ counted' = [counted EXCEPT ![cred.id] = cred.sign_count]
  <2>1. "OK" \in Status /\ {cred.id} \in SUBSET CredIds /\ cred.sign_count \in Counter
    BY <1>0 DEF Status, Credential
  <2>2. /\ pc' = "idle" /\ req' \in Request /\ cred' \in Credential \cup {Blank} /\ reply' \in Reply
        /\ reply'.status = "OK"
    BY <1>1, <2>1, Returned
  <2>3. PICK k \in DOMAIN nvs : /\ nvs[k].id = cred.id /\ nvs[k].rp = req.rp
                                /\ cred.sign_count <= nvs[k].sign_count + 1
                                /\ ~failed => cred.sign_count <= nvs[k].sign_count
    BY SignFacts
  <2>4. FullMeansFull' BY <2>2 DEF FullMeansFull
  <2>5. counted' \in [CredIds -> Counter] BY <1>0, <1>1, <2>1 DEF CtapInv, CtapTypeOK
  <2>6. \A id \in CredIds : counted'[id] = IF id = cred.id THEN cred.sign_count ELSE counted[id]
    BY <1>1 DEF CtapInv, CtapTypeOK
  <2>7. StoredIds' = StoredIds BY <1>0 DEF StoredIds
  <2>8. cred.id \in StoredIds BY <2>3 DEF StoredIds
  <2>9. LastingInv'
    <3>1. StoreInv'
      BY <1>0 DEF CtapInv, LastingInv, StoreInv, StoreTypeOK, UniqueIds, AllValid
    <3>2. IdsInv' /\ AckedIsStored'
      BY <1>0, <2>6, <2>7, <2>8 DEF CtapInv, LastingInv, IdsInv, AckedIsStored
    <3>3. \A j \in DOMAIN nvs : nvs[j].id \in CredIds /\ (nvs[j].id = cred.id => j = k)
      BY <2>3 DEF CtapInv, LastingInv, StoreInv, StoreTypeOK, UniqueIds, Credential
    <3>4. CountInv'
      BY <1>0, <2>3, <2>6, <3>3 DEF CtapInv, LastingInv, CountInv
    <3>. QED BY <3>1, <3>2, <3>4 DEF LastingInv
  <2>10. drawn' \subseteq CredIds /\ acked' \subseteq CredIds
    BY <1>0 DEF CtapInv, CtapTypeOK
  <2>11. failed' \in BOOLEAN /\ (~failed' => initialized') BY <1>0, StaysOpen
  <2>. QED BY <2>2, <2>4, <2>5, <2>9, <2>10, <2>11, EndsCommand
<1>2. CASE Fails("OTHER") /\ UNCHANGED counted
  <2>1. "OTHER" \in Status \ {"OK", "KEY_STORE_FULL"} BY DEF Status
  <2>2. UNCHANGED <<storageVars, drawn, historyVars>> BY <1>0, <1>2 DEF storageVars, historyVars
  <2>. QED BY <1>0, <1>2, <2>1, <2>2, FailsQuietly
<1>. QED BY <1>1, <1>2 DEF Sign

-----------------------------------------------------------------------------
(* Power, and the whole next-state relation. *)
LEMMA PowerKeeps == ASSUME CtapInv, Boot \/ PowerOff PROVE CtapInv'
PROOF
<1>0. failed \in BOOLEAN BY DEF CtapInv, CtapTypeOK
<1>1. /\ UNCHANGED <<nvs, drawn, acked, counted>> /\ initialized' \in BOOLEAN
      /\ failed' \in BOOLEAN /\ (~failed' => ~failed)
  <2>1. CASE Boot
    <3>1. PICK ok \in BOOLEAN : StorageInit(ok) /\ failed' = (failed \/ ~ok)
      BY <2>1, OutcomesAssumption DEF Boot
    <3>2. failed' \in BOOLEAN /\ (~failed' => ~failed) BY <1>0, <3>1
    <3>. QED BY <2>1, <3>1, <3>2 DEF Boot, StorageInit
  <2>2. CASE PowerOff
    BY <1>0, <2>2 DEF PowerOff, PowerLoss, historyVars
  <2>. QED BY <2>1, <2>2
<1>2. StoredIds' = StoredIds BY <1>1 DEF StoredIds
<1>3. LastingInv'
  <2>1. StoreInv'
    BY <1>1 DEF CtapInv, LastingInv, StoreInv, StoreTypeOK, UniqueIds, AllValid
  <2>2. IdsInv' /\ CountInv' /\ AckedIsStored'
    BY <1>1, <1>2 DEF CtapInv, LastingInv, IdsInv, CountInv, AckedIsStored
  <2>. QED BY <2>1, <2>2 DEF LastingInv
<1>4. CASE Boot
  <2>1. pc = "off" /\ pc' = "idle" /\ UNCHANGED <<req, cred, reply>> BY <1>4 DEF Boot
  <2>2. reply' = NoReply BY <2>1 DEF CtapInv, StepInv, FlowInv
  <2>3. FullMeansFull' BY <2>2 DEF FullMeansFull, NoReply
  <2>4. /\ req' \in Request /\ cred' \in Credential \cup {Blank} /\ reply' \in Reply
        /\ drawn' \subseteq CredIds /\ acked' \subseteq CredIds /\ counted' \in [CredIds -> Counter]
    BY <1>1, <2>1 DEF CtapInv, CtapTypeOK
  <2>5. ~failed' => initialized'
    <3>1. PICK ok \in BOOLEAN : StorageInit(ok) /\ failed' = (failed \/ ~ok)
      BY <1>4, OutcomesAssumption DEF Boot
    <3>. QED BY <1>0, <3>1 DEF StorageInit
  <2>. QED BY <1>1, <1>3, <2>1, <2>3, <2>4, <2>5, EndsCommand
<1>5. CASE PowerOff
  <2>1. /\ pc' = "off" /\ req' = NoRequest /\ cred' = Blank /\ reply' = NoReply
        /\ initialized' = FALSE
    BY <1>5 DEF PowerOff, PowerLoss
  <2>2. CtapTypeOK'
    BY <1>1, <1>3, <2>1, Constants DEF CtapInv, CtapTypeOK, LastingInv, StoreInv
  <2>3. StepInv'
    BY <2>1 DEF StepInv, FlowInv, NewInv, AckInv, FoundInv, OpenInv, FullMeansFull, NoReply
  <2>. QED BY <1>3, <2>2, <2>3 DEF CtapInv
<1>. QED BY <1>4, <1>5

LEMMA StutterKeeps == ASSUME CtapInv, UNCHANGED ctapVars PROVE CtapInv'
PROOF
<1>1. /\ UNCHANGED <<storageVars, drawn, historyVars>>
      /\ UNCHANGED <<nvs, initialized, pc, req, cred, reply, drawn, acked, counted, failed>>
  BY DEF ctapVars, commandVars, storageVars, historyVars
<1>2. CtapTypeOK' BY <1>1, Quiet DEF CtapInv, CtapTypeOK, LastingInv, StoreInv
<1>3. StepInv'
  BY <1>1, Quiet
  DEF CtapInv, StepInv, FlowInv, NewInv, AckInv, FoundInv, OpenInv, FullMeansFull
<1>. QED BY <1>1, <1>2, <1>3, Quiet DEF CtapInv

LEMMA CtapInitInv == ASSUME CtapInit PROVE CtapInv
PROOF
<1>. USE DEF CtapInit
<1>1. StoreInv BY StoreInitInv
<1>2. DOMAIN nvs = {} /\ StoredIds = {} /\ initialized = FALSE BY DEF StoreInit, StoredIds
<1>3. counted \in [CredIds -> Counter] BY CountAssumption DEF Counter
<1>4. CtapTypeOK BY <1>1, <1>3, Constants DEF CtapTypeOK, StoreInv
<1>5. LastingInv BY <1>1, <1>2 DEF LastingInv, IdsInv, CountInv, AckedIsStored
<1>6. StepInv
  BY <1>2 DEF StepInv, FlowInv, NewInv, AckInv, FoundInv, OpenInv, FullMeansFull, NoReply
<1>. QED BY <1>4, <1>5, <1>6 DEF CtapInv

LEMMA CtapNextInv == ASSUME CtapInv, [CtapNext]_ctapVars PROVE CtapInv'
PROOF
<1>1. CASE Command
  BY <1>1, SimpleKeeps, ResetKeeps, MakeCredentialKeeps, GenerateCredentialKeeps, StoreNewKeeps,
     AttestKeeps, GetAssertionKeeps, FindKeeps, CountKeeps, SignKeeps DEF Command
<1>2. CASE \E granted \in BOOLEAN : Answered(granted)
  BY <1>2, AnsweredKeeps
<1>3. CASE Boot \/ PowerOff BY <1>3, PowerKeeps
<1>4. CASE UNCHANGED ctapVars BY <1>4, StutterKeeps
<1>. QED BY <1>1, <1>2, <1>3, <1>4 DEF CtapNext

(* The invariant holds of every reachable state. *)
THEOREM CtapInvariant == CtapSpec => []CtapInv
PROOF
<1>1. CtapInit => CtapInv BY CtapInitInv
<1>2. CtapInv /\ [CtapNext]_ctapVars => CtapInv' BY CtapNextInv
<1>. QED BY <1>1, <1>2, PTL DEF CtapSpec

(* Type correctness of the commands, for every value of the constants.     *)
THEOREM CtapTypeCorrect == CtapSpec => []CtapTypeOK
PROOF
<1>1. CtapInv => CtapTypeOK BY DEF CtapInv
<1>. QED BY <1>1, CtapInvariant, PTL

(* What makeCredential acknowledged is in flash until a reset erases it.   *)
THEOREM RegistrationsLast == CtapSpec => []AckedIsStored
PROOF
<1>1. CtapInv => AckedIsStored BY DEF CtapInv, LastingInv
<1>. QED BY <1>1, CtapInvariant, PTL

(* A registration is refused for lack of room only when every slot is      *)
(* taken, as long as flash has never failed.                               *)
THEOREM RefusedOnlyWhenFull == CtapSpec => []FullMeansFull
PROOF
<1>1. CtapInv => FullMeansFull BY DEF CtapInv, StepInv
<1>. QED BY <1>1, CtapInvariant, PTL

(* What a successful assertion returns. *)
LEMMA StepAsserts ==
  ASSUME CtapInv, [CtapNext]_ctapVars, NEW id \in CredIds, Asserts(id)
  PROVE  /\ Sign /\ id = cred.id
         /\ counted' = [counted EXCEPT ![cred.id] = cred.sign_count]
PROOF
<1>1. Sign
  <2>1. pc = "sign" /\ pc' = "idle" BY DEF Asserts
  <2>2. ~(UNCHANGED ctapVars) BY <2>1 DEF ctapVars, commandVars
  <2>. QED BY <2>1, <2>2
       DEF CtapNext, Command, Simple, Reset, MakeCredential, GenerateCredential, StoreNew, Attest,
           GetAssertion, Answered, Find, Count, Boot, PowerOff
<1>2. ~Fails("OTHER") BY DEF Asserts, Fails, Return
<1>3. Return("OK", {cred.id}, cred.sign_count) BY <1>1, <1>2 DEF Sign
<1>4. id = cred.id BY <1>3 DEF Asserts, Return
<1>. QED BY <1>1, <1>2, <1>4 DEF Sign

(* getAssertion succeeds only for a stored credential of the relying party *)
(* in the request.                                                         *)
THEOREM AssertionsAreOwn == CtapSpec => AssertsOwnCredential
PROOF
<1>1. CtapInv /\ [CtapNext]_ctapVars => [SpeaksForOwn]_ctapVars
  BY StepAsserts, SignFacts DEF SpeaksForOwn
<1>. QED BY <1>1, CtapInvariant, PTL DEF CtapSpec, AssertsOwnCredential

(* As long as flash has taken every write, no two assertions of a          *)
(* credential carry the same counter, whenever power is lost.              *)
THEOREM CountersGrow == CtapSpec => CounterGrows
PROOF
<1>1. ASSUME CtapInv, [CtapNext]_ctapVars PROVE Grows
  <2>1. SUFFICES ASSUME NEW id \in CredIds, Asserts(id), ~failed
                 PROVE  counted'[id] > counted[id]
    BY DEF Grows
  <2>2. /\ Sign /\ id = cred.id /\ counted' = [counted EXCEPT ![cred.id] = cred.sign_count]
    BY <1>1, <2>1, StepAsserts
  <2>3. counted'[id] = cred.sign_count BY <1>1, <2>2 DEF CtapInv, CtapTypeOK
  <2>4. counted[id] \in Nat BY <1>1 DEF CtapInv, CtapTypeOK, Counter
  <2>. QED BY <1>1, <2>1, <2>2, <2>3, <2>4, SignFacts
<1>2. CtapInv /\ [CtapNext]_ctapVars => [Grows]_ctapVars BY <1>1
<1>. QED BY <1>2, CtapInvariant, PTL DEF CtapSpec, CounterGrows

(* Only a signature moves what was reported, and it moves it up. *)
LEMMA StepNotBack == ASSUME CtapInv, [CtapNext]_ctapVars PROVE NotBack
PROOF
<1>1. \A id \in CredIds : counted[id] \in Nat BY DEF CtapInv, CtapTypeOK, Counter
<1>2. CASE UNCHANGED counted BY <1>1, <1>2 DEF NotBack
<1>3. CASE Sign /\ counted' = [counted EXCEPT ![cred.id] = cred.sign_count]
  <2>1. counted[cred.id] <= cred.sign_count /\ cred.sign_count \in Nat BY <1>3, SignFacts
  <2>2. \A id \in CredIds : counted'[id] = IF id = cred.id THEN cred.sign_count ELSE counted[id]
    BY <1>3 DEF CtapInv, CtapTypeOK
  <2>. QED BY <1>1, <2>1, <2>2 DEF NotBack
<1>4. CASE Sign BY <1>2, <1>3, <1>4 DEF Sign
<1>5. CASE Command
  <2>1. CASE ~Sign
    BY <1>2, <1>5, <2>1
    DEF Command, Simple, Reset, MakeCredential, GenerateCredential, StoreNew, Attest,
        GetAssertion, Find, Count, historyVars
  <2>. QED BY <1>4, <2>1
<1>. QED BY <1>2, <1>5 DEF CtapNext, Answered, Boot, PowerOff, ctapVars, commandVars, historyVars

(* The counter a relying party sees never goes back, through power losses  *)
(* at any step of getAssertion and flash that refuses the counter.         *)
THEOREM CountersNeverGoBack == CtapSpec => CounterNeverGoesBack
PROOF
<1>1. CtapInv /\ [CtapNext]_ctapVars => [NotBack]_ctapVars BY StepNotBack
<1>. QED BY <1>1, CtapInvariant, PTL DEF CtapSpec, CounterNeverGoesBack

-----------------------------------------------------------------------------
(* Every step of a command is a step the store allows its callers. *)
LEMMA StepUsesStore == ASSUME CtapInv, [CtapNext]_ctapVars PROVE [StoreNext]_storageVars
PROOF
<1>1. CASE UNCHANGED storageVars BY <1>1
<1>2. CASE StoreNew
  <2>1. CASE StoreCredential(cred)
    BY <1>2, <2>1, NewIsFresh DEF StoreNew, StoreNext, StoreFresh
  <2>2. CASE \E written \in WriteOutcomes : StoreCredentialFails(written)
    BY <1>1, <2>2 DEF StoreCredentialFails
  <2>. QED BY <1>2, <2>1, <2>2 DEF StoreNew
<1>3. CASE Count BY <1>3, CountIsUpdate DEF StoreNext, UpdateAny
<1>4. CASE Reset BY <1>4, OutcomesAssumption DEF Reset, StoreNext, ResetAny
<1>5. CASE Boot
  <2>1. ~initialized BY <1>5 DEF Boot, CtapInv, StepInv, FlowInv
  <2>. QED BY <1>5, <2>1, OutcomesAssumption DEF Boot, StoreNext, Open
<1>6. CASE PowerOff BY <1>6 DEF PowerOff, StoreNext
<1>7. CASE Command
  <2>1. CASE ~(StoreNew \/ Count \/ Reset)
    BY <1>1, <1>7, <2>1
    DEF Command, Simple, MakeCredential, GenerateCredential, Attest, GetAssertion, Find, Sign
  <2>. QED BY <1>2, <1>3, <1>4, <2>1
<1>. QED BY <1>1, <1>5, <1>6, <1>7 DEF CtapNext, Answered, ctapVars

(* The commands draw fresh identifiers and write only counters that exist: *)
(* every behaviour of theirs is one of the store driven as it asks.        *)
THEOREM CommandsUseStore == CtapSpec => UsesStore
PROOF
<1>1. CtapInit => StoreInit BY DEF CtapInit
<1>2. CtapInv /\ [CtapNext]_ctapVars => [StoreNext]_storageVars BY StepUsesStore
<1>. QED BY <1>1, <1>2, CtapInvariant, PTL DEF CtapSpec, UsesStore, StoreSpec

(* So the flash the commands leave behind is a vault, at every step.       *)
THEOREM CommandsKeepVault == CtapSpec => VaultSpec
PROOF
<1>. QED BY CommandsUseStore, ImplementsVault, PTL DEF UsesStore
=============================================================================
