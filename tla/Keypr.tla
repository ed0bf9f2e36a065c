------------------------------- MODULE Keypr -------------------------------
(***************************************************************************)
(* The firmware put together: setup and loop of src/firmware/main/main.cpp *)
(* run the CTAP2 commands (Ctap2) in the loop task, and a getAssertion     *)
(* asks the phone (BlePhone) and waits for its answer before it looks at   *)
(* anything else, while the NimBLE task goes on.                           *)
(*                                                                         *)
(* The two components share three moments: power comes, power goes, and    *)
(* ctap2_get_assertion calls ble_send and ble_wait_for_response.           *)
(***************************************************************************)
EXTENDS Ctap2, BlePhone

keyprVars == <<ctapVars, bleVars>>

(* setup opens the store and then starts the phone link. *)
Setup == Boot /\ BleContextInit

PowerFails == PowerOff /\ BlePowerOff

AskPhone == GetAssertion /\ Ask

(* The mutant refuses before the wait is over. *)
TakeAnswerEarly ==
  /\ gate = "poll"
  /\ Answered(FALSE)
  /\ UNCHANGED bleVars

TakeAnswer ==
  /\ gate \in {"granted", "denied"}
  /\ Answered(gate = "granted")
  /\ UNCHANGED bleVars

(* The commands and the steps of commands the phone has no part in. *)
RunCommand ==
  /\ \/ \E status \in {"OK", "INVALID_LENGTH", "INVALID_COMMAND"} : Simple(status)
     \/ Reset
     \/ MakeCredential \/ GenerateCredential \/ StoreNew \/ Attest
     \/ Find \/ Count \/ Sign
  /\ UNCHANGED bleVars

(* The phone link while a command runs, or none. *)
Phone == (HostTask \/ Radio \/ Gate) /\ UNCHANGED ctapVars

KeyprInit == CtapInit /\ BleInit
KeyprNext == Setup \/ PowerFails \/ AskPhone \/ TakeAnswer \/ RunCommand \/ Phone

KeyprSpec == KeyprInit /\ [][KeyprNext]_keyprVars

(* The loop task runs: its wait advances and a command goes on.  Nothing   *)
(* is asked of the phone, the radio or the host.                           *)
LoopTask ==
  \/ Gate /\ UNCHANGED ctapVars
  \/ TakeAnswer
  \/ (Find \/ Count \/ Sign) /\ UNCHANGED bleVars
KeyprFairSpec == KeyprSpec /\ WF_keyprVars(LoopTask)

-----------------------------------------------------------------------------
(* The two halves agree on power, on whose turn it is and on what is held. *)
KeyprTypeOK ==
  /\ CtapTypeOK /\ BleTypeOK
  /\ powered = (pc # "off")
  /\ gate \notin {"idle", "granted", "denied"} => pc = "ask"

(* A getAssertion gets past the question, to credentials, counters and     *)
(* keys, only with a non-empty message in hand that is no refusal and that *)
(* a peer wrote after the last boot, through whatever connects,            *)
(* disconnects, writes or loses power meanwhile.                           *)
SignsOnlyAfterAnswer ==
  pc \in {"find", "count", "sign"} =>
    /\ wrote
    /\ buf \notin {NoMessage, Deny} /\ Length(buf) > 0

(* A getAssertion comes to its end, silent phone or not (or stands at the  *)
(* bound the model puts on counters).                                      *)
CommandEnds ==
  pc = "ask" ~> (pc \in {"idle", "off"} \/ (pc = "count" /\ cred.sign_count = MaxCount))

(* The firmware as built never asserts anything: no counter ever leaves    *)
(* the key, and none moves in flash.                                       *)
AsBuiltNeverAsserts ==
  ~installed =>
    /\ \A id \in CredIds : counted[id] = 0
    /\ \A i \in DOMAIN nvs : nvs[i].sign_count = 0
=============================================================================
