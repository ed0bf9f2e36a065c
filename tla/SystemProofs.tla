---------------------------- MODULE SystemProofs ----------------------------
(***************************************************************************)
(* The whole key behaves, for the transport and for the commands, as each  *)
(* alone may; so what was proved of either holds of it.  On top of it: a   *)
(* patient host has each message run once, and is told of its own outcome. *)
(***************************************************************************)
EXTENDS System, Ctap2Proofs, CtapHidProofs

-----------------------------------------------------------------------------
(* A step of the whole is a step of each part, or leaves the part alone.   *)
LEMMA AnswerResponds == ASSUME Answer PROVE \E type \in {"CBOR", "ERROR"} : Respond(type)
<1>1. ResponseTo(reply.status) \in {"CBOR", "ERROR"}
  BY DEF ResponseTo
<1> QED BY <1>1 DEF Answer

LEMMA StepOfHid == ASSUME [SystemNext]_systemVars PROVE [HidNext]_hidVars
<1>1. CASE PlugIn \/ Setup \/ Call \/ ContinueCommand
  BY <1>1 DEF PlugIn, Setup, Call, ContinueCommand
<1>2. CASE PowerFails
  BY <1>2 DEF PowerFails, HidNext
<1>3. CASE Usb
  BY <1>3 DEF Usb, HidNext
<1>4. CASE Packets
  BY <1>4 DEF Packets, HidNext
<1>5. CASE Answer
  BY <1>5, AnswerResponds DEF HidNext
<1>6. CASE UNCHANGED systemVars
  BY <1>6 DEF systemVars
<1> QED BY <1>1, <1>2, <1>3, <1>4, <1>5, <1>6 DEF SystemNext, LoopTask

LEMMA StepOfCtap == ASSUME [SystemNext]_systemVars PROVE [CtapNext]_ctapVars
<1>1. CASE PlugIn \/ Usb \/ Packets \/ Answer
  BY <1>1 DEF PlugIn, Usb, Packets, Answer
<1>2. CASE Setup
  BY <1>2 DEF Setup, CtapNext
<1>3. CASE PowerFails
  BY <1>3 DEF PowerFails, CommandsStop, CtapNext
<1>4. CASE Call
  BY <1>4 DEF Call, StartCommand, CtapNext, Command
<1>5. CASE ContinueCommand
  BY <1>5 DEF ContinueCommand, CtapNext, Command
<1>6. CASE UNCHANGED systemVars
  BY <1>6 DEF systemVars
<1> QED BY <1>1, <1>2, <1>3, <1>4, <1>5, <1>6 DEF SystemNext, LoopTask

(* The key implements the transport, whose commands answer as they like,   *)
(* ...                                                                     *)
THEOREM SystemIsHid == SystemSpec => HidSpec
<1>1. SystemInit => HidInit
  BY DEF SystemInit
<1>2. [SystemNext]_systemVars => [HidNext]_hidVars
  BY StepOfHid
<1> QED BY <1>1, <1>2, PTL DEF SystemSpec, HidSpec

(* ... and the commands, which are called at any time.                     *)
THEOREM SystemIsCtap == SystemSpec => CtapSpec
<1>1. SystemInit => CtapInit
  BY DEF SystemInit
<1>2. [SystemNext]_systemVars => [CtapNext]_ctapVars
  BY StepOfCtap
<1> QED BY <1>1, <1>2, PTL DEF SystemSpec, CtapSpec

(* So the flash of the whole key is a vault, whatever packets arrive and   *)
(* whenever power goes.                                                    *)
THEOREM SystemKeepsVault == SystemSpec => VaultSpec
<1> QED BY SystemIsCtap, CommandsKeepVault, PTL

PartsInv == CtapInv /\ HidInv /\ PatientInv

LEMMA PartsInvariant == SystemSpec => []PartsInv
<1>1. CtapInv /\ HidInv /\ PatientInv => PartsInv
  BY DEF PartsInv
<1> QED BY <1>1, SystemIsHid, SystemIsCtap, CtapInvariant, HidInvariant, PatientInvariant, PTL

-----------------------------------------------------------------------------
(* Power and calls.                                                        *)
CallInv ==
  /\ plugged \in BOOLEAN /\ called \in BOOLEAN
  /\ pc # "off" => plugged
  /\ called => loop = "process"
  /\ loop # "idle" => pc # "off"
  /\ pc \notin {"off", "idle"} => called

LEMMA HandlingCalls ==
  ASSUME HandlePacket
  PROVE  loop # "process"
BY DEF HandlePacket, TakePacket, LoopFree, ReadPacket, HandleSimple, HandleInit, HandleContinuation,
   HandleBadSequence, HandleStray, Handling

LEMMA HostKeepsLoop ==
  ASSUME (\E c \in Channels : Host(c)) \/ OnOutput
  PROVE  UNCHANGED <<loop, rx, answer>>
BY DEF Host, HostStarts, HostSends, HostSendsSimple, HostGivesUp, OnOutput

LEMMA CallInvKept == ASSUME PartsInv, CallInv, [SystemNext]_systemVars PROVE CallInv'
<1>1. CASE PlugIn
  BY <1>1 DEF PlugIn, CallInv, ctapVars, commandVars, hidVars
<1>2. CASE Setup
  BY <1>2 DEF Setup, Boot, CallInv, hidVars
<1>3. CASE PowerFails
  <2>1. pc' = "off"
    BY <1>3 DEF PowerFails, CommandsStop, PowerOff, ctapVars, commandVars
  <2>2. plugged' = FALSE /\ called' = FALSE /\ loop' = "idle"
    BY <1>3 DEF PowerFails, Unplugged
  <2> QED BY <2>1, <2>2 DEF CallInv
<1>4. CASE Usb
  <2>1. UNCHANGED <<pc, loop, plugged, called>>
    BY <1>4, HostKeepsLoop DEF Usb, ctapVars, commandVars
  <2> QED BY <2>1 DEF CallInv
<1>5. CASE Packets
  <2>1. UNCHANGED <<pc, plugged, called>> /\ pc # "off" /\ loop # "process"
    BY <1>5, HandlingCalls DEF Packets, LoopRuns, ctapVars, commandVars
  <2> QED BY <2>1 DEF CallInv
<1>6. CASE Call
  <2>1. loop = "process" /\ called' = TRUE /\ UNCHANGED <<loop, plugged>> /\ pc # "off"
    BY <1>6 DEF Call, CallInv, hidVars
  <2>2. pc' # "off"
    BY <1>6 DEF Call, StartCommand, Simple, Reset, MakeCredential, GetAssertion, Return, Start, Fails
  <2> QED BY <2>1, <2>2 DEF CallInv
<1>7. CASE ContinueCommand
  <2>1. UNCHANGED <<loop, plugged, called>>
    BY <1>7 DEF ContinueCommand, hidVars
  <2>2. pc \notin {"off", "idle"} /\ pc' # "off"
    BY <1>7 DEF ContinueCommand, GenerateCredential, StoreNew, Attest, Answered, Find, Count, Sign,
       Return, Fails, Goto
  <2> QED BY <2>1, <2>2 DEF CallInv
<1>8. CASE Answer
  <2>1. loop' = "idle" /\ called' = FALSE /\ pc' = pc /\ pc = "idle" /\ plugged' = plugged
    BY <1>8 DEF Answer, Respond, Done, ctapVars, commandVars
  <2> QED BY <2>1 DEF CallInv
<1>9. CASE UNCHANGED systemVars
  BY <1>9 DEF systemVars, CallInv, ctapVars, commandVars, hidVars
<1> QED BY <1>1, <1>2, <1>3, <1>4, <1>5, <1>6, <1>7, <1>8, <1>9 DEF SystemNext, LoopTask

LEMMA InitCallInv == SystemInit => CallInv
BY DEF SystemInit, CtapInit, HidInit, CallInv

LEMMA CallInvariant == SystemSpec => []CallInv
BY PartsInvariant, InitCallInv, CallInvKept, PTL DEF SystemSpec

-----------------------------------------------------------------------------
(* What a packet brings to the reassembly.                                 *)
LEMMA BeginsMessage ==
  ASSUME HidInv, HandleInit
  PROVE  rx'.payload = <<packet.chunk>> /\ First' = packet.chunk.msg
<1>1. rx' = [FirstPacket EXCEPT !.in_progress = ~Complete(FirstPacket)]
  BY DEF HandleInit, Receive
<1>2. rx'.payload = FirstPacket.payload
  BY <1>1 DEF FirstPacket
<1>3. rx'.payload = <<packet.chunk>>
  BY <1>2 DEF FirstPacket
<1> QED BY <1>3 DEF First

LEMMA ContinuesMessage ==
  ASSUME HidInv, HandleContinuation
  PROVE  /\ rx.in_progress /\ rx'.payload = Append(rx.payload, packet.chunk)
         /\ Len(rx'.payload) = Len(rx.payload) + 1 /\ First' = First
<1> DEFINE r == [rx EXCEPT !.payload = Append(@, packet.chunk), !.expected_seq = @ + 1]
<1>1. rx.in_progress /\ rx' = [r EXCEPT !.in_progress = ~Complete(r)]
  BY DEF HandleContinuation, Expected, Receive
<1>2. rx \in Reassembly /\ packet.chunk \in Chunk
  BY Types, PacketParts DEF HidInv
<1>3. rx.payload \in Seq(Chunk) /\ Len(rx.payload) \in Nat /\ Len(rx.payload) >= 1
  BY <1>1, <1>2, BoundsAssumption DEF HidInv, ReassemblyInStep, Reassembly
<1>4. r.payload = Append(rx.payload, packet.chunk) /\ DOMAIN r = DOMAIN rx
  BY <1>2 DEF Reassembly
<1>5. rx'.payload = Append(rx.payload, packet.chunk)
  BY <1>1, <1>2, <1>4 DEF Reassembly
<1>6. rx'.payload[1] = rx.payload[1] /\ Len(rx'.payload) = Len(rx.payload) + 1
  BY <1>2, <1>3, <1>5
<1> QED BY <1>1, <1>5, <1>6 DEF First

(* A message comes to ctap2_process by its last packet, and stays.         *)
LEMMA ComesToProcess ==
  ASSUME [HidNext]_hidVars, loop' = "process"
  PROVE  (loop = "process" /\ rx' = rx) \/ HandleInit \/ HandleContinuation
<1>1. (\E c \in Channels : Host(c)) \/ OnOutput => UNCHANGED <<loop, rx>>
  BY HostKeepsLoop
<1>2. CASE HandlePacket
  BY <1>2 DEF HandlePacket, TakePacket, ReadPacket, HandleSimple, HandleBadSequence, HandleStray, Done
<1>3. CASE \E type \in {"CBOR", "ERROR"} : Respond(type)
  BY <1>3 DEF Respond, Done
<1>4. CASE Unplugged
  BY <1>4 DEF Unplugged
<1> QED BY <1>1, <1>2, <1>3, <1>4 DEF HidNext, hidVars

RunInv ==
  /\ loop = "process" => Len(rx.payload) >= 1
  /\ ran \subseteq 0 .. MaxMessages

(* Only a call changes what has run.                                       *)
LEMMA RunsByCall ==
  ASSUME [SystemNext]_systemVars
  PROVE  Call \/ ran' = ran
BY DEF SystemNext, PlugIn, Setup, PowerFails, Usb, LoopTask, Packets, ContinueCommand, Answer,
   systemVars

LEMMA RunInvKept == ASSUME PartsInv, RunInv, [SystemNext]_systemVars PROVE RunInv'
<1>1. HidInv /\ [HidNext]_hidVars
  BY StepOfHid DEF PartsInv
<1>2. loop' = "process" => Len(rx'.payload) >= 1
  <2> SUFFICES ASSUME loop' = "process" PROVE Len(rx'.payload) >= 1
    OBVIOUS
  <2>1. CASE loop = "process" /\ rx' = rx
    BY <2>1 DEF RunInv
  <2>2. CASE HandleInit
    BY <1>1, <2>2, BeginsMessage
  <2>3. CASE HandleContinuation
    <3>1. rx \in Reassembly
      BY <1>1, Types DEF HidInv
    <3>2. Len(rx.payload) \in Nat
      BY <3>1 DEF Reassembly
    <3> QED BY <1>1, <2>3, <3>2, ContinuesMessage
  <2> QED BY <1>1, <2>1, <2>2, <2>3, ComesToProcess
<1>3. ran' \subseteq 0 .. MaxMessages
  <2>1. CASE Call
    <3>1. loop = "process" /\ ran' = ran \cup {rx.payload[1].msg}
      BY <2>1 DEF Call
    <3>2. rx \in Reassembly
      BY <1>1, Types DEF HidInv
    <3>3. rx.payload[1] \in Chunk
      BY <3>1, <3>2 DEF RunInv, Reassembly
    <3> QED BY <3>1, <3>3 DEF RunInv, Chunk
  <2> QED BY <2>1, RunsByCall DEF RunInv
<1> QED BY <1>2, <1>3 DEF RunInv

LEMMA RunInvariant == SystemSpec => []RunInv
<1>1. SystemInit => RunInv
  BY DEF SystemInit, HidInit, RunInv
<1> QED BY <1>1, PartsInvariant, RunInvKept, PTL DEF SystemSpec

(* The state of the whole key has its type, and a command is under way     *)
(* only between a complete message and its answer, with power: at any      *)
(* interleaving of the host, the two tasks and the power.                  *)
THEOREM SystemTypeCorrect == SystemSpec => []SystemTypeOK
<1>1. PartsInv /\ CallInv /\ RunInv => SystemTypeOK
  BY DEF PartsInv, CtapInv, HidInv, CallInv, RunInv, SystemTypeOK
<1> QED BY <1>1, PartsInvariant, CallInvariant, RunInvariant, PTL

-----------------------------------------------------------------------------
(* A patient host: the command of a message that is being sent, carried or *)
(* received has not been called, and no two applications have the same     *)
(* message.                                                                *)
NotRun(s) == s \in 1 .. started /\ s \notin ran

HostFresh == \A c \in Channels : host[c].state # "idle" =>
  /\ host[c].msg \in 1 .. started
  /\ host[c].state = "sending" => host[c].msg \notin ran
  /\ \A d \in Channels : d # c /\ host[d].state # "idle" => host[d].msg # host[c].msg

CarriedFresh == Flying /\ Carried.control.type \in {"CBOR", "CONT"} => NotRun(Carried.chunk.msg)

ReceivedFresh == rx.in_progress => NotRun(First)

CalledOnce ==
  loop = "process" =>
    /\ First \in 1 .. started
    /\ called => First \in ran
    /\ ~called => First \notin ran

Fresh == HostFresh /\ CarriedFresh /\ ReceivedFresh /\ CalledOnce /\ ran \subseteq 1 .. started
FreshInv == patient => Fresh

(* All that is known before a step.                                        *)
Known == HidInv /\ HostOrder /\ InOrder /\ CallInv /\ Fresh /\ patient

LEMMA NatsKnown ==
  ASSUME HidInv
  PROVE  started \in Nat /\ host \in [Channels -> HostState]
BY Types, BoundsAssumption DEF HidInv

(* An application that ends its transaction leaves the others theirs.      *)
LEMMA EndsFresh ==
  ASSUME HidInv, HostFresh, NEW c, c \in Channels \/ host' = host,
         host' = host \/ host' = [host EXCEPT ![c] = HostIdle], UNCHANGED <<started, ran>>
  PROVE  HostFresh'
<1>1. ASSUME NEW d \in Channels, host'[d].state # "idle" PROVE host'[d] = host[d]
  BY <1>1, NatsKnown DEF HostIdle
<1> QED BY <1>1 DEF HostFresh

LEMMA SendFresh ==
  ASSUME HidInv, HostFresh, NEW c, NEW payload, NEW type, Send(c, type, payload),
         UNCHANGED <<started, ran>>
  PROVE  HostFresh'
<1>1. host' = host \/ (c \in Channels /\ host' = [host EXCEPT ![c] = HostIdle])
  BY DEF Send
<1> QED BY <1>1, EndsFresh

(* Nothing on its way, and nothing received that was not before.           *)
LEMMA RestsFresh ==
  ASSUME Known, HostFresh', ~Flying', loop' # "process", UNCHANGED <<started, ran>>,
         rx'.in_progress => rx.in_progress /\ First' = First
  PROVE  Fresh'
BY DEF Known, Fresh, CarriedFresh, ReceivedFresh, CalledOnce, NotRun

-----------------------------------------------------------------------------
LEMMA StartsFresh ==
  ASSUME Known, NEW c \in Channels, NEW n \in 1 .. MaxChunks, HostStarts(c, n),
         UNCHANGED <<ran, called>>
  PROVE  Fresh'
<1> DEFINE h == [state |-> "sending", msg |-> started + 1, len |-> n, next |-> 0]
<1>1. /\ host' = [host EXCEPT ![c] = h] /\ started' = started + 1
      /\ UNCHANGED <<usb, pending, packet_pending, loop, packet, rx>>
  BY DEF HostStarts
<1>2. started \in Nat /\ host \in [Channels -> HostState] /\ ran \subseteq 1 .. started
  BY NatsKnown DEF Known, Fresh
<1>3. \A s : s \in 1 .. started => s \in 1 .. started'
  BY <1>1, <1>2
<1>4. started' \in 1 .. started' /\ started' \notin 1 .. started
  BY <1>1, <1>2
<1>5. h.state = "sending" /\ h.msg = started'
  BY <1>1
<1> HIDE DEF h
<1>6. host'[c] = h /\ \A d \in Channels : d # c => host'[d] = host[d]
  BY <1>1, <1>2
<1>7. HostFresh'
  <2> SUFFICES ASSUME NEW d \in Channels, host'[d].state # "idle"
               PROVE  /\ host'[d].msg \in 1 .. started'
                      /\ host'[d].state = "sending" => host'[d].msg \notin ran
                      /\ \A e \in Channels : e # d /\ host'[e].state # "idle" =>
                                               host'[e].msg # host'[d].msg
    BY DEF HostFresh
  <2>1. \A e \in Channels : host[e].state # "idle" => host[e].msg \in 1 .. started
    BY DEF Known, Fresh, HostFresh
  <2>2. CASE d = c
    BY <2>1, <2>2, <1>2, <1>4, <1>5, <1>6
  <2>3. CASE d # c
    <3>1. /\ host'[d] = host[d] /\ host[d].msg \in 1 .. started
          /\ host[d].state = "sending" => host[d].msg \notin ran
          /\ \A e \in Channels : e # d /\ host[e].state # "idle" => host[e].msg # host[d].msg
      BY <2>3, <1>6 DEF Known, Fresh, HostFresh
    <3> QED BY <3>1, <1>3, <1>4, <1>5, <1>6
  <2> QED BY <2>2, <2>3
<1>8. ASSUME NEW s, NotRun(s) PROVE NotRun(s)'
  BY <1>3, <1>8 DEF NotRun
<1>9. CarriedFresh'
  <2>1. Flying' = Flying /\ Carried' = Carried
    BY <1>1 DEF Flying, Carried
  <2> QED BY <2>1, <1>8 DEF Known, Fresh, CarriedFresh
<1>10. ReceivedFresh' /\ CalledOnce'
  <2>1. First' = First
    BY <1>1 DEF First
  <2> QED BY <2>1, <1>1, <1>3, <1>8 DEF Known, Fresh, ReceivedFresh, CalledOnce
<1> QED BY <1>2, <1>3, <1>7, <1>9, <1>10 DEF Fresh

LEMMA SendsFresh ==
  ASSUME Known, NEW c \in Channels, HostSends(c), UNCHANGED <<ran, called>>
  PROVE  Fresh'
<1> DEFINE h == host[c]
           p == PacketOf(c, h.msg, h.len, h.next)
<1>1. /\ usb' = [step |-> "deliver", packet |-> p] /\ loop = "idle" /\ ~packet_pending
      /\ usb.step = "idle" /\ UNCHANGED <<started, pending, packet_pending, loop, packet, rx>>
  BY DEF HostSends, UsbFree, Known
<1>2. ~Flying
  BY <1>1 DEF Flying, Reading
<1>3. /\ h.state = "sending" /\ host'[c].msg = h.msg
      /\ \A d \in Channels : d # c => host'[d] = host[d]
  BY SendsInOrder DEF Known
<1>4. NotRun(h.msg)
  BY <1>3 DEF Known, Fresh, HostFresh, NotRun
<1>5. p.chunk.msg = h.msg
  BY DEF PacketOf
<1> HIDE DEF p
<1>6. Flying' /\ Carried' = p
  BY <1>1, <1>2, ReportInOrder DEF Known
<1>7. CarriedFresh'
  BY <1>1, <1>4, <1>5, <1>6 DEF CarriedFresh, NotRun
<1>8. HostFresh'
  <2>1. \A d \in Channels : host'[d].msg = host[d].msg
    BY <1>3
  <2>2. \A d \in Channels : host'[d].state # "idle" => host[d].state # "idle"
    BY <1>3
  <2>3. \A d \in Channels : host'[d].state = "sending" => host[d].state = "sending"
    BY <1>3
  <2> QED BY <1>1, <2>1, <2>2, <2>3 DEF Known, Fresh, HostFresh
<1>9. ReceivedFresh' /\ CalledOnce' /\ ran' \subseteq 1 .. started'
  BY <1>1 DEF Known, Fresh, ReceivedFresh, CalledOnce, NotRun, First
<1> QED BY <1>7, <1>8, <1>9 DEF Fresh

LEMMA SendsSimpleFresh ==
  ASSUME Known, NEW c \in Channels, NEW t \in HostCommands, HostSendsSimple(c, t),
         UNCHANGED <<ran, called>>
  PROVE  Fresh'
<1> DEFINE p == SimplePacket(c, t)
<1>1. /\ usb' = [step |-> "deliver", packet |-> p] /\ loop = "idle" /\ ~packet_pending
      /\ usb.step = "idle"
      /\ UNCHANGED <<host, pending, packet_pending, loop, packet, rx>>
      /\ started' = started + 1 /\ started \in Nat
  BY NatsKnown DEF HostSendsSimple, UsbFree, Known
<1>2. ~Flying
  BY <1>1 DEF Flying, Reading
<1>3. p.control.type \notin {"CBOR", "CONT"}
  BY SimpleWhole, CommandsAssumption DEF ChannelIds, SimpleCommands
<1> HIDE DEF p
<1>4. Carried' = p
  BY <1>1, <1>2, ReportInOrder DEF Known
<1>5. \A s : s \in 1 .. started => s \in 1 .. started'
  BY <1>1
<1> QED BY <1>1, <1>3, <1>4, <1>5 DEF Known, Fresh, HostFresh, CarriedFresh, ReceivedFresh,
        CalledOnce, NotRun, First

LEMMA GivesUpFresh ==
  ASSUME Known, NEW c \in Channels, HostGivesUp(c), UNCHANGED <<ran, called>>
  PROVE  Fresh'
<1>1. /\ host' = [host EXCEPT ![c] = HostIdle]
      /\ UNCHANGED <<started, usb, pending, packet_pending, loop, packet, rx>>
  BY DEF HostGivesUp
<1>2. HostFresh'
  BY <1>1, EndsFresh DEF Known, Fresh
<1>3. Flying' = Flying /\ Carried' = Carried /\ First' = First
  BY <1>1 DEF Flying, Carried, First
<1> QED BY <1>1, <1>2, <1>3 DEF Known, Fresh, CarriedFresh, ReceivedFresh, CalledOnce, NotRun

LEMMA HandedOnFresh ==
  ASSUME Known, OnOutput \/ TakePacket \/ ReadPacket, UNCHANGED <<ran, called>>
  PROVE  Fresh'
<1>1. HandsOn /\ UNCHANGED started
  BY OnOutputHandsOn, TakePacketHandsOn, ReadPacketHandsOn
  DEF Known, OnOutput, TakePacket, ReadPacket
<1>2. First' = First
  BY <1>1 DEF HandsOn, First
<1> QED BY <1>1, <1>2 DEF HandsOn, Known, Fresh, HostFresh, CarriedFresh, ReceivedFresh,
        CalledOnce, NotRun

LEMMA HandleFailsFresh ==
  ASSUME Known, HandleSimple \/ HandleBadSequence \/ HandleStray, UNCHANGED <<ran, called>>
  PROVE  Fresh'
<1>1. loop = "handle" /\ Done("idle")
  BY DEF HandleSimple, HandleBadSequence, HandleStray, Handling
<1>2. ~Flying' /\ loop' # "process" /\ UNCHANGED started
  BY <1>1, Handled, Landed DEF Known, Done
<1>3. HostFresh'
  <2>1. HidInv /\ HostFresh
    BY DEF Known, Fresh
  <2>2. CASE HandleSimple
    BY <2>1, <2>2, <1>2, SendFresh DEF HandleSimple
  <2>3. CASE HandleBadSequence
    BY <2>1, <2>3, <1>2, SendFresh DEF HandleBadSequence
  <2>4. CASE HandleStray
    BY <2>1, <2>4, <1>2 DEF HandleStray, HostFresh
  <2> QED BY <2>2, <2>3, <2>4
<1>4. rx'.in_progress => rx.in_progress /\ First' = First
  <2>1. CASE rx' = rx
    BY <2>1 DEF First
  <2>2. CASE HandleBadSequence
    <3>1. rx \in Reassembly /\ rx' = [rx EXCEPT !.in_progress = FALSE]
      BY <2>2, Types DEF HandleBadSequence, Known, HidInv
    <3> QED BY <3>1 DEF Reassembly
  <2> QED BY <2>1, <2>2 DEF HandleSimple, HandleStray
<1> QED BY <1>2, <1>3, <1>4, RestsFresh

LEMMA HandleReceivesFresh ==
  ASSUME Known, HandleInit \/ HandleContinuation, UNCHANGED <<ran, called>>
  PROVE  Fresh'
<1>1. NotRun(First')
  <2>1. CASE HandleInit
    <3>1. loop = "handle" /\ packet.control.type = "CBOR"
      BY <2>1 DEF HandleInit, Handling
    <3>2. NotRun(packet.chunk.msg)
      BY <3>1, Handled DEF Known, Fresh, CarriedFresh
    <3> QED BY <2>1, <3>2, BeginsMessage DEF Known
  <2>2. CASE HandleContinuation
    BY <2>2, ContinuesMessage DEF Known, Fresh, ReceivedFresh
  <2> QED BY <2>1, <2>2
<1>2. PICK step \in {"idle", "process"} : Done(step)
  BY DEF HandleInit, HandleContinuation, Receive
<1>3. loop = "handle" /\ UNCHANGED <<host, started>>
  BY <1>2 DEF HandleInit, HandleContinuation, Handling, Receive, Done
<1>4. ~Flying'
  BY <1>2, <1>3, Handled, Landed DEF Known
<1>5. ~called
  BY <1>3 DEF Known, CallInv
<1>6. HostFresh' /\ ran' \subseteq 1 .. started'
  BY <1>3 DEF Known, Fresh, HostFresh
<1>7. CarriedFresh' /\ ReceivedFresh' /\ CalledOnce'
  BY <1>1, <1>3, <1>4, <1>5 DEF CarriedFresh, ReceivedFresh, CalledOnce, NotRun
<1> QED BY <1>6, <1>7 DEF Fresh

(* A call runs the message of a waiting application, which no other has,   *)
(* while nothing is on its way.                                            *)
LEMMA CallFresh ==
  ASSUME Known, Call
  PROVE  Fresh'
<1>1. /\ loop = "process" /\ called' = TRUE /\ ran' = ran \cup {First}
      /\ UNCHANGED <<host, started, usb, pending, packet_pending, loop, packet, rx>>
  BY DEF Call, hidVars, First
<1>2. First \in 1 .. started /\ First' = First
  BY <1>1 DEF Known, Fresh, CalledOnce, First
<1>3. ~rx.in_progress /\ ~Flying
  BY <1>1 DEF Known, HidInv, ReassemblyInStep, InOrder, Turns, Flying, Reading
<1>4. ~Flying'
  BY <1>1, <1>3 DEF Flying
<1>5. rx.cid \in Channels /\ host[rx.cid].state = "waiting" /\ host[rx.cid].msg = First
  BY <1>1 DEF Known, InOrder, Received, AtProcess
<1>6. \A c \in Channels : host[c].state = "sending" => host[c].msg # First
  BY <1>5 DEF Known, Fresh, HostFresh
<1>7. HostFresh'
  BY <1>1, <1>6 DEF Known, Fresh, HostFresh
<1> QED BY <1>1, <1>2, <1>3, <1>4, <1>7
    DEF Known, Fresh, CarriedFresh, ReceivedFresh, CalledOnce

LEMMA AnswerFresh ==
  ASSUME Known, Answer
  PROVE  Fresh'
<1>1. PICK type \in {"CBOR", "ERROR"} : Respond(type)
  BY AnswerResponds
<1>2. /\ loop = "process" /\ Done("idle") /\ rx' = rx /\ Send(rx.cid, type, rx.payload)
      /\ ran' = ran
  BY <1>1 DEF Respond, Answer
<1>3. usb.step = "idle" /\ ~packet_pending /\ UNCHANGED started /\ loop' # "process"
  BY <1>2 DEF Known, InOrder, Turns, Done
<1>4. ~Flying'
  BY <1>2, <1>3, Landed DEF Known
<1>5. HostFresh'
  BY <1>2, <1>3, SendFresh DEF Known, Fresh
<1>6. First' = First
  BY <1>2 DEF First
<1> QED BY <1>2, <1>3, <1>4, <1>5, <1>6, RestsFresh

LEMMA PowerFailsFresh ==
  ASSUME Known, PowerFails
  PROVE  Fresh'
<1>1. /\ host' = [c \in Channels |-> HostIdle] /\ usb' = UsbIdle /\ packet_pending' = FALSE
      /\ loop' = "idle" /\ rx' = NothingReceived /\ UNCHANGED <<started, ran>>
  BY DEF PowerFails, Unplugged
<1>2. HostFresh'
  BY <1>1 DEF HostFresh, HostIdle
<1>3. ~Flying' /\ ~rx'.in_progress
  BY <1>1 DEF Flying, Reading, UsbIdle, NothingReceived
<1> QED BY <1>1, <1>2, <1>3, RestsFresh

LEMMA FreshInvKept ==
  ASSUME PartsInv, CallInv, FreshInv, [SystemNext]_systemVars
  PROVE  FreshInv'
<1>1. HidInv /\ HostOrder /\ (patient => InOrder) /\ [HidNext]_hidVars
  BY StepOfHid DEF PartsInv, PatientInv
<1>2. patient' = patient
  BY <1>1, PatienceLasts
<1> SUFFICES ASSUME patient PROVE Fresh'
  BY <1>2 DEF FreshInv
<1>3. Known
  BY <1>1 DEF FreshInv, Known
<1>4. CASE PlugIn \/ Setup \/ ContinueCommand \/ UNCHANGED systemVars
  <2>1. UNCHANGED <<hidVars, called, ran>>
    BY <1>4 DEF PlugIn, Setup, ContinueCommand, systemVars
  <2>2. Flying' = Flying /\ Carried' = Carried /\ First' = First
    BY <2>1 DEF hidVars, Flying, Carried, First
  <2>3. UNCHANGED <<host, started, loop, called, ran>> /\ rx'.in_progress = rx.in_progress
    BY <2>1 DEF hidVars
  <2> QED BY <1>3, <2>2, <2>3 DEF Known, Fresh, HostFresh, CarriedFresh, ReceivedFresh,
          CalledOnce, NotRun
<1>5. CASE PowerFails
  BY <1>3, <1>5, PowerFailsFresh
<1>6. CASE Usb
  <2>1. UNCHANGED <<ran, called>>
    BY <1>6 DEF Usb
  <2> QED BY <1>3, <1>6, <2>1, StartsFresh, SendsFresh, SendsSimpleFresh, GivesUpFresh, HandedOnFresh
      DEF Usb, Host
<1>7. CASE Packets
  <2>1. HandlePacket /\ UNCHANGED <<ran, called>>
    BY <1>7 DEF Packets
  <2> QED BY <1>3, <2>1, HandedOnFresh, HandleFailsFresh, HandleReceivesFresh DEF HandlePacket
<1>8. CASE Call
  BY <1>3, <1>8, CallFresh
<1>9. CASE Answer
  BY <1>3, <1>9, AnswerFresh
<1> QED BY <1>4, <1>5, <1>6, <1>7, <1>8, <1>9 DEF SystemNext, LoopTask

LEMMA FreshInvariant == SystemSpec => []FreshInv
<1>1. SystemInit => FreshInv
  <2> SUFFICES ASSUME SystemInit PROVE Fresh
    BY DEF FreshInv
  <2>1. HostFresh
    BY DEF SystemInit, HidInit, HostFresh, HostIdle
  <2>2. CarriedFresh /\ ReceivedFresh /\ CalledOnce /\ ran \subseteq 1 .. started
    BY DEF SystemInit, HidInit, CarriedFresh, ReceivedFresh, CalledOnce, Flying, Reading, UsbIdle,
       NothingReceived
  <2> QED BY <2>1, <2>2 DEF Fresh
<1> QED BY <1>1, PartsInvariant, CallInvariant, FreshInvKept, PTL DEF SystemSpec

-----------------------------------------------------------------------------
(* No message has its command run twice, for any number of applications,   *)
(* messages, transactions given up and failures of the power, as long as   *)
(* the host is patient.                                                    *)
THEOREM CommandsRunOnce == SystemSpec => RunsOnce
<1>1. ASSUME PartsInv, CallInv, FreshInv, [SystemNext]_systemVars
      PROVE  [patient /\ called' /\ ~called => rx.payload[1].msg \notin ran]_systemVars
  <2> SUFFICES ASSUME SystemNext, patient, called', ~called
               PROVE  First \notin ran
    BY <1>1 DEF First
  <2>1. loop = "process"
    BY DEF SystemNext, PlugIn, Setup, PowerFails, Usb, LoopTask, Packets, Call, ContinueCommand,
       Answer
  <2> QED BY <1>1, <2>1 DEF FreshInv, Fresh, CalledOnce
<1> QED BY <1>1, PartsInvariant, CallInvariant, FreshInvariant, PTL DEF SystemSpec, RunsOnce

(* No packet but the answer to its own command ends a wait.                *)
LEMMA WaitsForAnswer ==
  ASSUME Known, HandlePacket, NEW c \in Channels, host[c].state = "waiting"
  PROVE  host'[c] = host[c]
<1>t. /\ host \in [Channels -> HostState] /\ host[c].next > 0
      /\ rx \in Reassembly /\ packet \in Packet
  <2>1. host[c] \in HostState /\ host[c].next = host[c].len
    BY NatsKnown DEF Known, HostOrder
  <2> QED BY <2>1, NatsKnown, Types, BoundsAssumption DEF Known, HidInv, HostState
<1>1. CASE HandleSimple
  <2>1. /\ loop = "handle" /\ packet.control.type \in SimpleCommands
        /\ Send(packet.cid, AnswerType(packet.control.type), << >>)
    BY <1>1 DEF HandleSimple, Handling
  <2>2. packet.cid \in Channels => host[packet.cid].next = 0
    BY <2>1, Handled DEF Known, Apart
  <2>3. c # packet.cid
    BY <1>t, <2>2
  <2> QED BY <1>t, <2>1, <2>3 DEF Send
<1>2. CASE HandleBadSequence
  <2>1. /\ loop = "handle" /\ packet.control.type = "CONT" /\ rx.in_progress
        /\ packet.cid = rx.cid /\ packet.control.arg # rx.expected_seq
    BY <1>2 DEF HandleBadSequence, Handling, Expected
  <2>2. packet.chunk.index = Len(rx.payload) /\ packet.chunk.index = packet.control.arg + 1
    BY <2>1, Handled DEF Known, Following, WholePacket, SimpleCommands
  <2>3. rx.expected_seq + 1 = Len(rx.payload)
    BY <2>1 DEF Known, HidInv, ReassemblyInStep
  <2>4. packet.control.arg \in Nat /\ rx.expected_seq \in Nat
    BY <1>t, PacketParts, BoundsAssumption DEF Reassembly
  <2> QED BY <2>1, <2>2, <2>3, <2>4
<1>3. CASE TakePacket \/ ReadPacket \/ HandleInit \/ HandleContinuation \/ HandleStray
  BY <1>3 DEF TakePacket, ReadPacket, HandleInit, HandleContinuation, HandleStray, Receive
<1> QED BY <1>1, <1>2, <1>3 DEF HandlePacket

(* What a patient application is told is how its own command ended, for    *)
(* any number of applications, whatever each has begun and given up.       *)
THEOREM OutcomesAreTold == SystemSpec => ToldItsOutcome
<1> DEFINE A == \A c \in Channels :
       patient /\ host[c].state = "waiting" /\ host'[c].state = "idle" /\ plugged' =>
         /\ host[c].msg \in ran
         /\ answer'.type = "CBOR" <=> reply.status = "OK"
<1>1. ASSUME PartsInv, CallInv, FreshInv, [SystemNext]_systemVars
      PROVE  [A]_systemVars
  <2> SUFFICES ASSUME SystemNext, NEW c \in Channels, patient, host[c].state = "waiting",
                      host'[c].state = "idle", plugged'
               PROVE  /\ host[c].msg \in ran
                      /\ answer'.type = "CBOR" <=> reply.status = "OK"
    BY <1>1
  <2>1. Known
    BY <1>1 DEF PartsInv, PatientInv, FreshInv, Known
  <2>2. host'[c] # host[c] /\ host \in [Channels -> HostState]
    BY <2>1, NatsKnown DEF Known
  <2>3. ~(PlugIn \/ Setup \/ Call \/ ContinueCommand)
    BY <2>2 DEF PlugIn, Setup, Call, ContinueCommand, hidVars
  <2>4. ~PowerFails
    BY DEF PowerFails
  <2>5. ~Usb
    <3>1. ASSUME NEW d \in Channels, HostGivesUp(d) PROVE host'[c] = host[c]
      BY <2>1, <2>2, <3>1 DEF HostGivesUp, Known
    <3>2. ASSUME NEW d \in Channels, HostSends(d) PROVE host'[c] = host[c]
      BY <2>2, <3>2 DEF HostSends
    <3>3. ASSUME NEW d \in Channels, NEW n \in 1 .. MaxChunks, HostStarts(d, n)
          PROVE  host'[c] = host[c]
      BY <2>2, <3>3 DEF HostStarts
    <3>4. ASSUME NEW d \in Channels, NEW t \in HostCommands, HostSendsSimple(d, t)
          PROVE  host'[c] = host[c]
      BY <3>4 DEF HostSendsSimple
    <3>5. OnOutput => host' = host
      BY DEF OnOutput
    <3> QED BY <2>2, <3>1, <3>2, <3>3, <3>4, <3>5 DEF Usb, Host
  <2>6. ~Packets
    BY <2>1, <2>2, WaitsForAnswer DEF Packets
  <2>7. called /\ Respond(ResponseTo(reply.status))
    BY <2>3, <2>4, <2>5, <2>6 DEF SystemNext, LoopTask, Answer
  <2>8. loop = "process" /\ Send(rx.cid, ResponseTo(reply.status), rx.payload)
    BY <2>7 DEF Respond
  <2>9. c = rx.cid /\ answer' # NoAnswer
    <3>1. PICK sent \in SendOutcomes :
             /\ answer' = IF sent THEN [cid |-> rx.cid, type |-> ResponseTo(reply.status),
                                        payload |-> rx.payload] ELSE NoAnswer
             /\ host' = IF /\ sent /\ ResponseTo(reply.status) \in {"CBOR", "ERROR"}
                           /\ rx.cid \in Channels /\ host[rx.cid].state # "idle"
                        THEN [host EXCEPT ![rx.cid] = HostIdle] ELSE host
      BY <2>8 DEF Send
    <3>2. sent /\ host' = [host EXCEPT ![rx.cid] = HostIdle]
      BY <2>2, <3>1
    <3>3. c = rx.cid
      BY <2>2, <3>2
    <3>4. answer'.type = ResponseTo(reply.status)
      BY <3>1, <3>2
    <3>5. ResponseTo(reply.status) # "none" /\ NoAnswer.type = "none"
      BY DEF ResponseTo, NoAnswer
    <3> QED BY <3>3, <3>4, <3>5
  <2>10. answer'.type = ResponseTo(reply.status)
    BY <2>8, <2>9 DEF Send
  <2>11. answer'.type = "CBOR" <=> reply.status = "OK"
    BY <2>10 DEF ResponseTo
  <2>12. host[c].msg \in ran
    BY <2>1, <2>7, <2>8, <2>9 DEF Known, InOrder, AtProcess, Fresh, CalledOnce
  <2> QED BY <2>11, <2>12
<1> QED BY <1>1, PartsInvariant, CallInvariant, FreshInvariant, PTL DEF SystemSpec, ToldItsOutcome
=============================================================================
