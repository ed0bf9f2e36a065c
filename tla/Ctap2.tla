------------------------------- MODULE Ctap2 -------------------------------
(***************************************************************************)
(* The CTAP2 commands: src/firmware/main/ctap2.cpp, called by the loop     *)
(* task with a complete command buffer.                                    *)
(*                                                                         *)
(* A command runs to its end before the next one starts.  It is split into *)
(* steps where power may be lost, flash may refuse a write or a            *)
(* cryptographic operation may fail between two effects; `pc' names the    *)
(* step to come.  Parsing is abstracted to its outcome: the fields the     *)
(* command goes on to use, or the error it returns.  The question to the   *)
(* phone is one step with either outcome here; Keypr.tla runs it in full.  *)
(***************************************************************************)
EXTENDS Storage, Sequences, SequencesExt

CONSTANTS OtherLength,    \* stands for every identifier that is not CREDENTIAL_ID_LEN long
          Nothing,        \* in the fields of locals no command runs with
          MaxAllow,       \* bound of the model: entries of an allow list
          WriteOutcomes,  \* outcomes of a flash write: BOOLEAN, or {TRUE} for flash that never fails
          OpenOutcomes    \* outcomes of opening the namespace at boot

ASSUME OtherLengthAssumption == OtherLength \notin CredIds
ASSUME AllowAssumption == MaxAllow \in Nat
ASSUME OutcomesAssumption == WriteOutcomes \subseteq BOOLEAN /\ OpenOutcomes \subseteq BOOLEAN

VARIABLES pc,       \* the step the running command is at, "idle" between commands, "off" without power
          req,      \* the command being run
          cred,     \* the fido2_credential_t on the stack of the command
          reply,    \* what ctap2_process last returned
          drawn,    \* identifiers crypto_random has produced
          acked,    \* history: identifiers given out by a successful makeCredential
          counted,  \* history: identifier -> highest counter a getAssertion returned
          failed    \* history: flash has refused a write, an erasure or to open

historyVars == <<acked, counted, failed>>
commandVars == <<pc, req, cred, reply, drawn, historyVars>>
ctapVars == <<storageVars, commandVars>>

-----------------------------------------------------------------------------
Forms == {"good", "unexpected_type", "missing_parameter"}
AllowLists == UNION {[1 .. n -> CredIds \cup {OtherLength}] : n \in 0 .. MaxAllow}
Request == [cmd : {"make", "get", "info", "reset", "unknown", "empty"},
            rp : Rps \cup {Nothing}, allow : AllowLists, form : Forms]
(* Fields a command does not have are fixed. *)
Sendable == {q \in Request : /\ q.rp \in Rps
                             /\ q.cmd # "get" => q.allow = << >>
                             /\ q.cmd \notin {"make", "get"} => q.form = "good"
                             /\ q.form # "good" => q.allow = << >>}

Status == {"OK", "UNEXPECTED_TYPE", "MISSING_PARAMETER", "OPERATION_DENIED", "NO_CREDENTIALS",
           "KEY_STORE_FULL", "OTHER", "INVALID_LENGTH", "INVALID_COMMAND"}

(* `ids' holds the identifier a success speaks for.                        *)
Reply == [status : Status, ids : SUBSET CredIds, sign_count : Counter]

NoRequest == [cmd |-> "info", rp |-> Nothing, allow |-> << >>, form |-> "good"]
NoReply == [status |-> "OK", ids |-> {}, sign_count |-> 0]
Blank == [valid |-> FALSE, id |-> Nothing, rp |-> Nothing, sign_count |-> 0]

(* The command returns, and its locals are gone. *)
Return(status, ids, n) ==
  /\ reply' = [status |-> status, ids |-> ids, sign_count |-> n]
  /\ pc' = "idle" /\ req' = NoRequest /\ cred' = Blank

Fails(status) == Return(status, {}, 0)
Start(q, step) == pc' = step /\ req' = q /\ reply' = NoReply /\ UNCHANGED cred
Goto(step) == pc' = step /\ UNCHANGED <<req, cred, reply>>

ParseError(q) == CASE q.form = "unexpected_type" -> "UNEXPECTED_TYPE"
                   [] q.form = "missing_parameter" -> "MISSING_PARAMETER"

-----------------------------------------------------------------------------
(* ctap2_process: the dispatch, and the commands that end at once. *)
Simple(status) ==
  \E q \in Sendable :
    /\ pc = "idle"
    /\ CASE status = "OK" -> q.cmd = "info"
         [] status = "INVALID_LENGTH" -> q.cmd = "empty"
         [] status = "INVALID_COMMAND" -> q.cmd = "unknown"
    /\ Return(status, {}, 0)
    /\ UNCHANGED <<storageVars, drawn, historyVars>>

Reset ==
  \E q \in Sendable, cleared \in WriteOutcomes :
    /\ pc = "idle" /\ q.cmd = "reset"
    /\ StorageReset(cleared)
    /\ Return("OK", {}, 0)
    /\ acked' = IF initialized /\ cleared THEN {} ELSE acked
    /\ failed' = (failed \/ ~cleared)
    /\ UNCHANGED <<drawn, counted>>

-----------------------------------------------------------------------------
(* makeCredential *)
MakeCredential ==
  \E q \in Sendable :
    /\ pc = "idle" /\ q.cmd = "make"
    /\ IF q.form = "good" THEN Start(q, "keygen") ELSE Fails(ParseError(q))
    /\ UNCHANGED <<storageVars, drawn, historyVars>>

(* Identifiers crypto_random may produce: 32 random bytes, never the same  *)
(* twice.  The mutants draw again what was drawn before, and leave the     *)
(* identifier as it was.                                                   *)
AnyId == CredIds
UnsetId == {Nothing}
FreshId == CredIds \ drawn

(* A fresh identifier and key pair; crypto_random or the generator fails.  *)
GenerateCredential ==
  /\ pc = "keygen"
  /\ \/ \E id \in FreshId :
          /\ drawn' = drawn \cup {id}
          /\ cred' = [valid |-> TRUE, id |-> id, rp |-> req.rp, sign_count |-> 0]
          /\ pc' = "store"
          /\ UNCHANGED <<req, reply>>
     \/ Fails("OTHER") /\ UNCHANGED drawn
  /\ UNCHANGED <<storageVars, historyVars>>

(* The mutant goes on whether or not the credential was stored. *)
StoreNewUnchecked ==
  /\ pc = "store"
  /\ \E written \in WriteOutcomes : StoreCredential(cred) \/ StoreCredentialFails(written)
  /\ Goto("attest")
  /\ UNCHANGED <<drawn, historyVars>>

StoreNew ==
  /\ pc = "store"
  /\ \E written \in WriteOutcomes :
       /\ \/ written /\ StoreCredential(cred) /\ Goto("attest")
          \/ StoreCredentialFails(written) /\ Fails("KEY_STORE_FULL")
       /\ failed' = (failed \/ ~written)
  /\ UNCHANGED <<drawn, acked, counted>>

(* The attestation is signed after the credential is in flash. *)
Attest ==
  /\ pc = "attest"
  /\ \/ Return("OK", {cred.id}, 0) /\ acked' = acked \cup {cred.id}
     \/ Fails("OTHER") /\ UNCHANGED acked
  /\ UNCHANGED <<storageVars, drawn, counted, failed>>

-----------------------------------------------------------------------------
(* getAssertion *)
GetAssertion ==
  \E q \in Sendable :
    /\ pc = "idle" /\ q.cmd = "get"
    /\ Start(q, "ask")
    /\ UNCHANGED <<storageVars, drawn, historyVars>>

(* The phone is asked before the request is parsed.  The mutant drops the  *)
(* result of the wait.                                                     *)
AnsweredUnchecked(granted) ==
  /\ pc = "ask"
  /\ IF req.form # "good" THEN Fails(ParseError(req)) ELSE Goto("find")
  /\ UNCHANGED <<storageVars, drawn, historyVars>>

Answered(granted) ==
  /\ pc = "ask"
  /\ IF ~granted THEN Fails("OPERATION_DENIED")
     ELSE IF req.form # "good" THEN Fails(ParseError(req))
     ELSE Goto("find")
  /\ UNCHANGED <<storageVars, drawn, historyVars>>

(* The parser keeps the identifier of the last allow-list entry only; an   *)
(* identifier of another length selects like an empty list.  The mutant    *)
(* does not compare the relying party of the identifier it finds.          *)
SelectedByIdOnly(q) ==
  IF q.allow # << >> /\ Last(q.allow) # OtherLength
  THEN Named(Last(q.allow))
  ELSE FindCredentialsForRp(q.rp)

Selected(q) ==
  IF q.allow # << >> /\ Last(q.allow) # OtherLength
  THEN FindCredential(q.rp, Last(q.allow))
  ELSE FindCredentialsForRp(q.rp)

Find ==
  /\ pc = "find"
  /\ IF Selected(req) = {}
     THEN Fails("NO_CREDENTIALS")
     ELSE /\ cred' = nvs[Min(Selected(req))]
          /\ pc' = "count"
          /\ UNCHANGED <<req, reply>>
  /\ UNCHANGED <<storageVars, drawn, historyVars>>

(* cred.sign_count++ *)
Counted(c) == [c EXCEPT !.sign_count = @ + 1]

(* The counter goes up in RAM, then in flash, whether or not flash takes it. *)
Count ==
  /\ pc = "count"
  /\ cred.sign_count < MaxCount
  /\ cred' = Counted(cred)
  /\ \E written \in WriteOutcomes :
       /\ UpdateSignCount(cred.id, cred'.sign_count, written)
       /\ failed' = (failed \/ ~written)
  /\ pc' = "sign"
  /\ UNCHANGED <<req, reply, drawn, acked, counted>>

Sign ==
  /\ pc = "sign"
  /\ \/ /\ Return("OK", {cred.id}, cred.sign_count)
        /\ counted' = [counted EXCEPT ![cred.id] = cred.sign_count]
     \/ Fails("OTHER") /\ UNCHANGED counted
  /\ UNCHANGED <<storageVars, drawn, acked, failed>>

-----------------------------------------------------------------------------
(* setup: a store that does not open is only reported on the serial port.  *)
Boot ==
  /\ pc = "off"
  /\ \E ok \in OpenOutcomes : StorageInit(ok) /\ failed' = (failed \/ ~ok)
  /\ pc' = "idle"
  /\ UNCHANGED <<req, cred, reply, drawn, acked, counted>>

PowerOff ==
  /\ pc # "off"
  /\ PowerLoss
  /\ pc' = "off" /\ req' = NoRequest /\ cred' = Blank /\ reply' = NoReply
  /\ UNCHANGED <<drawn, historyVars>>

CtapInit ==
  /\ StoreInit
  /\ pc = "off" /\ req = NoRequest /\ cred = Blank /\ reply = NoReply
  /\ drawn = {} /\ acked = {} /\ counted = [id \in CredIds |-> 0]
  /\ failed = FALSE

Command ==
  \/ \E status \in {"OK", "INVALID_LENGTH", "INVALID_COMMAND"} : Simple(status)
  \/ Reset
  \/ MakeCredential \/ GenerateCredential \/ StoreNew \/ Attest
  \/ GetAssertion \/ Find \/ Count \/ Sign

CtapNext == Command \/ (\E granted \in BOOLEAN : Answered(granted)) \/ Boot \/ PowerOff

CtapSpec == CtapInit /\ [][CtapNext]_ctapVars

-----------------------------------------------------------------------------
CtapTypeOK ==
  /\ StoreTypeOK
  /\ pc \in {"off", "idle", "keygen", "store", "attest", "ask", "find", "count", "sign"}
  /\ req \in Request
  /\ cred \in Credential \cup {Blank}
  /\ reply \in Reply
  /\ drawn \subseteq CredIds
  /\ acked \subseteq CredIds
  /\ counted \in [CredIds -> Counter]
  /\ failed \in BOOLEAN

(* A credential whose makeCredential succeeded stays in flash, through     *)
(* power losses, failing writes and full stores, until a reset erases it.  *)
AckedIsStored == acked \subseteq StoredIds

(* A getAssertion that succeeds and speaks for a credential. *)
Asserts(id) == pc = "sign" /\ pc' = "idle" /\ reply'.status = "OK" /\ id \in reply'.ids

(* A successful getAssertion speaks for a stored credential of the relying *)
(* party that asked, whichever identifiers its allow list held.            *)
SpeaksForOwn == \A id \in CredIds :
  Asserts(id) => \E i \in DOMAIN nvs : nvs[i].id = id /\ nvs[i].rp = req.rp
AssertsOwnCredential == [][SpeaksForOwn]_ctapVars

(* The counter a relying party sees never goes back, also when power is    *)
(* lost between the write of the counter and the signature, and when flash *)
(* refuses the write.                                                      *)
NotBack == \A id \in CredIds : counted'[id] >= counted[id]
CounterNeverGoesBack == [][NotBack]_ctapVars

(* As long as flash has taken every write each assertion carries a counter *)
(* larger than any before it for the credential, across power losses.      *)
Grows == \A id \in CredIds : Asserts(id) /\ ~failed => counted'[id] > counted[id]
CounterGrows == [][Grows]_ctapVars

(* As long as flash has taken every write and the store has opened at      *)
(* every boot, a registration is refused for lack of room only if every    *)
(* slot holds a credential.                                                *)
FullMeansFull == reply.status = "KEY_STORE_FULL" /\ ~failed => DOMAIN nvs = Slot

(* The commands respect what the store asks of its callers (identifiers    *)
(* drawn fresh, counters that exist), so the store's guarantees hold.      *)
UsesStore == StoreSpec

-----------------------------------------------------------------------------
(* ctap2.cpp:523 and storage.h:20: the first credential of the relying     *)
(* party is taken when there is no allow list.                             *)
AllowListHonoured == pc = "sign" /\ req.allow # << >> => cred.id \in Range(req.allow)
=============================================================================
