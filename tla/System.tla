------------------------------- MODULE System -------------------------------
(***************************************************************************)
(* The firmware as the host sees it: setup and loop of                     *)
(* src/firmware/main/main.cpp, the USB transport (CtapHid) and the         *)
(* commands (Ctap2).                                                       *)
(*                                                                         *)
(* setup brings USB up before it opens the store, so the mailbox may fill  *)
(* before the loop runs.  A complete message goes to ctap2_process, which  *)
(* returns before the loop looks at the mailbox again, and what it returns *)
(* is the answer to the message.  What a message asks for is any command:  *)
(* the transport does not look at it.  The phone answers either way;       *)
(* Keypr.tla has it in full.                                               *)
(***************************************************************************)
EXTENDS Ctap2, CtapHid

VARIABLES plugged, \* the key has power and fido2_hid_early_init has run
          called,  \* handle_packet is inside ctap2_process
          ran      \* history: the messages whose command has been called

systemVars == <<ctapVars, hidVars, plugged, called, ran>>

-----------------------------------------------------------------------------
(* setup *)
PlugIn ==
  /\ ~plugged /\ plugged' = TRUE
  /\ UNCHANGED <<ctapVars, hidVars, called, ran>>

Setup == plugged /\ Boot /\ UNCHANGED <<hidVars, plugged, called, ran>>

(* Power fails at any moment, during setup also.                           *)
CommandsStop == PowerOff \/ (pc = "off" /\ UNCHANGED ctapVars)

PowerFails ==
  /\ plugged /\ plugged' = FALSE
  /\ Unplugged /\ called' = FALSE
  /\ CommandsStop
  /\ UNCHANGED ran

-----------------------------------------------------------------------------
(* The host and the USB task. *)
Usb ==
  /\ plugged
  /\ (\E c \in Channels : Host(c)) \/ OnOutput
  /\ UNCHANGED <<ctapVars, plugged, called, ran>>

(* The loop task, once setup has returned, for which the mutant does not   *)
(* wait.                                                                   *)
LoopAlways == TRUE
LoopRuns == pc # "off"
Packets == LoopRuns /\ HandlePacket /\ UNCHANGED <<ctapVars, plugged, called, ran>>

StartCommand ==
  \/ \E status \in {"OK", "INVALID_LENGTH", "INVALID_COMMAND"} : Simple(status)
  \/ Reset \/ MakeCredential \/ GetAssertion

Call ==
  /\ loop = "process" /\ ~called
  /\ StartCommand
  /\ called' = TRUE /\ ran' = ran \cup {rx.payload[1].msg}
  /\ UNCHANGED <<hidVars, plugged>>

ContinueCommand ==
  /\ \/ GenerateCredential \/ StoreNew \/ Attest
     \/ \E granted \in BOOLEAN : Answered(granted)
     \/ Find \/ Count \/ Sign
  /\ UNCHANGED <<hidVars, plugged, called, ran>>

(* A success is sent as CBOR, anything else as an error.  The mutants send *)
(* whatever the command has left in its buffer, or send nothing on errors. *)
CborAnyway(status) == "CBOR"
SilentOnError(status) == IF status = "OK" THEN "CBOR" ELSE "none"
ResponseTo(status) == IF status = "OK" THEN "CBOR" ELSE "ERROR"

Answer ==
  /\ called /\ pc = "idle"
  /\ Respond(ResponseTo(reply.status))
  /\ called' = FALSE
  /\ UNCHANGED <<ctapVars, plugged, ran>>

-----------------------------------------------------------------------------
SystemInit == CtapInit /\ HidInit /\ plugged = FALSE /\ called = FALSE /\ ran = {}

LoopTask == Packets \/ Call \/ ContinueCommand \/ Answer
SystemNext == PlugIn \/ Setup \/ PowerFails \/ Usb \/ LoopTask

SystemSpec == SystemInit /\ [][SystemNext]_systemVars

(* Both tasks are scheduled.  Nothing is asked of the host, of the phone   *)
(* or of the power.                                                        *)
SystemFairSpec ==
  /\ SystemSpec
  /\ WF_systemVars(Setup) /\ WF_systemVars(LoopTask)
  /\ WF_systemVars(OnOutput /\ UNCHANGED <<ctapVars, plugged, called, ran>>)

-----------------------------------------------------------------------------
(* A command is under way only inside ctap2_process, which runs only for a *)
(* complete message, and only with power; so there is one at a time.       *)
SystemTypeOK ==
  /\ CtapTypeOK /\ HidTypeOK
  /\ plugged \in BOOLEAN /\ called \in BOOLEAN /\ ran \subseteq 0 .. MaxMessages
  /\ pc # "off" => plugged
  /\ called => loop = "process"
  /\ loop # "idle" => pc # "off"
  /\ pc \notin {"off", "idle"} => called

(* No message of a patient host has its command run twice: an application  *)
(* that sends one makeCredential never gets two credentials, whatever was  *)
(* given up before, and whatever was in the mailbox when power failed.     *)
RunsOnce == [][patient /\ called' /\ ~called => rx.payload[1].msg \notin ran]_systemVars

(* A patient application that has sent its whole request, and is told      *)
(* something, is told how its own command ended: a success if and only if  *)
(* it was one.                                                             *)
ToldItsOutcome ==
  [][\A c \in Channels :
       patient /\ host[c].state = "waiting" /\ host'[c].state = "idle" /\ plugged' =>
         /\ host[c].msg \in ran
         /\ answer'.type = "CBOR" <=> reply.status = "OK"]_systemVars

(* A packet the mailbox accepted is handled, also one that came before the *)
(* loop ran, unless power fails first.                                     *)
AcceptedIsHandled == packet_pending ~> ~packet_pending

(* A request sent to its end is answered, also after transactions that     *)
(* were given up half way, whatever the command, unless power fails first. *)
RequestIsAnswered == \A c \in Channels : host[c].state = "waiting" ~> host[c].state # "waiting"
=============================================================================
