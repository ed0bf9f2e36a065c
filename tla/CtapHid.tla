------------------------------ MODULE CtapHid ------------------------------
(***************************************************************************)
(* The USB HID transport: src/firmware/main/usb_hid.cpp.                   *)
(*                                                                         *)
(* The USB task runs _onOutput for each 64-byte report the host sends and  *)
(* leaves it in a mailbox for one packet.  The loop task empties the       *)
(* mailbox, reassembles the packets of a CTAP2 command and runs it.  The   *)
(* loop task lowers packet_pending before it reads pending_packet, so the  *)
(* USB task may write the buffer while it is read: the buffer is modelled  *)
(* in three parts (channel, control bytes, payload) that each task copies  *)
(* one after the other.                                                    *)
(*                                                                         *)
(* The payload of a packet is one chunk: 57 bytes of a message for an      *)
(* initialization packet, 59 for a continuation.  Lengths count chunks; a  *)
(* message of no bytes takes one packet too.  Nobody, and no torn packet,  *)
(* announces a message longer than the buffer, with which the code         *)
(* compares no length.                                                     *)
(* A host is patient if it waits until the firmware has dealt with a       *)
(* packet before it sends the next, and for answers; USB does not make it  *)
(* wait.                                                                   *)
(* What a command does and answers is left open: System.tla runs it.       *)
(***************************************************************************)
EXTENDS Naturals, Sequences

CONSTANTS Channels,     \* channel identifiers in use by applications of the host
          NoChannel,    \* 0 and any other identifier no application has
          MaxChunks,    \* bound: packets of a message; the code takes up to 21
          MaxMessages,  \* bound of the model: messages and one-packet commands of the host
          HostCommands, \* one-packet commands the host uses besides CBOR
          Patience,     \* hosts the key may meet: is the host patient?
          SendOutcomes  \* does sendPacket find the endpoint ready in time: BOOLEAN or {TRUE}

SimpleCommands == {"INIT", "PING", "WINK", "unknown"}

ASSUME ChannelsAssumption == NoChannel \notin Channels
ASSUME BoundsAssumption == MaxChunks \in Nat \ {0} /\ MaxMessages \in Nat
ASSUME CommandsAssumption == HostCommands \subseteq SimpleCommands
ASSUME ModesAssumption ==
  Patience \subseteq BOOLEAN /\ SendOutcomes \subseteq BOOLEAN

VARIABLES
  patient,         \* is the host? (external)
  host,            \* channel -> the transaction of its application (external)
  started,         \* messages started so far (external)
  usb,             \* the USB task: the report it is delivering and its step
  pending,         \* pending_packet
  packet_pending,
  loop,            \* the step of the loop task
  packet,          \* what handle_packet has read of pending_packet
  rx,              \* rx_state
  answer           \* the response sent to the packet taken last (history)

hidVars == <<patient, host, started, usb, pending, packet_pending, loop, packet, rx, answer>>

-----------------------------------------------------------------------------
Numbers == 1 .. MaxMessages
Chunk == [msg : 0 .. MaxMessages, index : 0 .. MaxChunks - 1]
NoChunk == [msg |-> 0, index |-> 0]
Control == [type : SimpleCommands \cup {"CBOR", "CONT"}, arg : 0 .. MaxChunks]
Packet == [cid : Channels \cup {NoChannel}, control : Control, chunk : Chunk]

(* Packet number k of message m with n chunks on channel c. *)
PacketOf(c, m, n, k) ==
  [cid |-> c,
   control |-> IF k = 0 THEN [type |-> "CBOR", arg |-> n] ELSE [type |-> "CONT", arg |-> k - 1],
   chunk |-> [msg |-> m, index |-> k]]
SimplePacket(c, t) == [cid |-> c, control |-> [type |-> t, arg |-> 0], chunk |-> NoChunk]
Zeroes == SimplePacket(NoChannel, "unknown")

Message(m, n) == [k \in 1 .. n |-> [msg |-> m, index |-> k - 1]]

UsbIdle == [step |-> "idle", packet |-> Zeroes]
HostIdle == [state |-> "idle", msg |-> 0, len |-> 1, next |-> 0]
NothingReceived ==
  [cid |-> NoChannel, total |-> 0, payload |-> << >>, expected_seq |-> 0, in_progress |-> FALSE]
NoAnswer == [cid |-> NoChannel, type |-> "none", payload |-> << >>]

-----------------------------------------------------------------------------
(* The host (external). *)
UsbFree ==
  /\ usb.step = "idle"
  /\ patient => ~packet_pending /\ loop = "idle"

HostStarts(c, n) ==
  /\ host[c].state = "idle" /\ started < MaxMessages
  /\ started' = started + 1
  /\ host' = [host EXCEPT ![c] = [state |-> "sending", msg |-> started + 1, len |-> n, next |-> 0]]
  /\ UNCHANGED <<patient, usb, pending, packet_pending, loop, packet, rx, answer>>

HostSends(c) ==
  /\ host[c].state = "sending" /\ UsbFree
  /\ usb' = [step |-> "deliver", packet |-> PacketOf(c, host[c].msg, host[c].len, host[c].next)]
  /\ host' = [host EXCEPT ![c].next = @ + 1,
                          ![c].state = IF host[c].next + 1 = host[c].len THEN "waiting" ELSE "sending"]
  /\ UNCHANGED <<patient, started, pending, packet_pending, loop, packet, rx, answer>>

HostSendsSimple(c, t) ==
  /\ host[c].state = "idle" /\ UsbFree /\ started < MaxMessages
  /\ started' = started + 1
  /\ usb' = [step |-> "deliver", packet |-> SimplePacket(c, t)]
  /\ UNCHANGED <<patient, host, pending, packet_pending, loop, packet, rx, answer>>

HostGivesUp(c) ==
  /\ host[c].state = "sending" \/ (~patient /\ host[c].state = "waiting")
  /\ host' = [host EXCEPT ![c] = HostIdle]
  /\ UNCHANGED <<patient, started, usb, pending, packet_pending, loop, packet, rx, answer>>

-----------------------------------------------------------------------------
(* _onOutput, in the USB task.  A report that finds the mailbox full is    *)
(* dropped.  The mutant raises the flag before the payload is copied.      *)
FlagFirst(step) == CASE step = "deliver" -> "cid" [] step = "cid" -> "control"
                     [] step = "control" -> "flag" [] step = "flag" -> "chunk" [] OTHER -> "idle"
After(step) == CASE step = "deliver" -> "cid" [] step = "cid" -> "control"
                 [] step = "control" -> "chunk" [] step = "chunk" -> "flag" [] OTHER -> "idle"

OnOutput ==
  /\ usb.step # "idle"
  /\ usb' = IF (usb.step = "deliver" /\ packet_pending) \/ After(usb.step) = "idle"
            THEN UsbIdle ELSE [usb EXCEPT !.step = After(@)]
  /\ pending' = CASE usb.step = "cid" -> [pending EXCEPT !.cid = usb.packet.cid]
                  [] usb.step = "control" -> [pending EXCEPT !.control = usb.packet.control]
                  [] usb.step = "chunk" -> [pending EXCEPT !.chunk = usb.packet.chunk]
                  [] OTHER -> pending
  /\ packet_pending' = (packet_pending \/ usb.step = "flag")
  /\ UNCHANGED <<patient, host, started, loop, packet, rx, answer>>

-----------------------------------------------------------------------------
(* usb_hid_task and handle_packet, in the loop task.  One mutant serves    *)
(* the mailbox between transactions only, another leaves its flag up.      *)
FreeBetween == loop = "idle" /\ ~rx.in_progress
LoopFree == loop = "idle"
LeftUp == TRUE
Lowered == FALSE

TakePacket ==
  /\ LoopFree /\ packet_pending
  /\ packet_pending' = Lowered
  /\ loop' = "cid"
  /\ UNCHANGED <<patient, host, started, usb, pending, packet, rx>>
  /\ answer' = NoAnswer

(* What a read of a part may give.  A part is several bytes: while the USB *)
(* task writes it, a read may find the old bytes, the new ones, or some of *)
(* each.  Mixed bytes are a channel nobody has or the payload of no        *)
(* message; but mixed control bytes, of which one set may be payload, can  *)
(* make a CBOR command of any length, announced by no host.                *)
Seen(part, mixed) ==
  {pending[part]} \cup (IF usb.step = part THEN {usb.packet[part]} \cup mixed ELSE {})
MixedControls ==
  IF "CBOR" \in {pending.control.type, usb.packet.control.type}
  THEN [type : {"CBOR"}, arg : 1 .. MaxChunks] ELSE {}

ReadPacket ==
  /\ \/ /\ loop = "cid" /\ loop' = "control"
        /\ \E cid \in Seen("cid", {NoChannel}) : packet' = [packet EXCEPT !.cid = cid]
     \/ /\ loop = "control" /\ loop' = "chunk"
        /\ \E control \in Seen("control", MixedControls) : packet' = [packet EXCEPT !.control = control]
     \/ /\ loop = "chunk" /\ loop' = "handle"
        /\ \E chunk \in Seen("chunk", {NoChunk}) : packet' = [packet EXCEPT !.chunk = chunk]
  /\ UNCHANGED <<patient, host, started, usb, pending, packet_pending, rx, answer>>

Handling(types) == loop = "handle" /\ packet.control.type \in types
(* The packet is done with: the loop goes on to the step given. *)
Done(step) ==
  /\ loop' = step /\ packet' = Zeroes
  /\ UNCHANGED <<patient, started, usb, pending, packet_pending>>

(* A response packet leaves, or is given up after 200 ms.  The application *)
(* takes an answer or an error on its channel as the end of a transaction. *)
Send(c, type, payload) ==
  \E sent \in SendOutcomes :
    /\ answer' = IF sent THEN [cid |-> c, type |-> type, payload |-> payload] ELSE NoAnswer
    /\ host' = IF sent /\ type \in {"CBOR", "ERROR"} /\ c \in Channels /\ host[c].state # "idle"
               THEN [host EXCEPT ![c] = HostIdle] ELSE host

(* INIT and WINK are answered in kind, PING as if it were CBOR with as     *)
(* many bytes as the packet announces, any other command with an error.    *)
(* Hosts are taken to announce no more than the packet holds: the code     *)
(* would read on behind it.                                                *)
AnswerType(command) == CASE command = "PING" -> "CBOR" [] command = "unknown" -> "ERROR"
                         [] OTHER -> command
HandleSimple ==
  /\ Handling(SimpleCommands)
  /\ Done("idle")
  /\ Send(packet.cid, AnswerType(packet.control.type), << >>)
  /\ UNCHANGED rx

(* Has the message come to its announced length?  The mutant stops one     *)
(* packet early.                                                           *)
NearlyComplete(r) == Len(r.payload) + 1 >= r.total
Complete(r) == Len(r.payload) >= r.total

(* rx_state is replaced; a complete message goes to ctap2_process.         *)
Receive(r) ==
  /\ rx' = [r EXCEPT !.in_progress = ~Complete(r)]
  /\ Done(IF Complete(r) THEN "process" ELSE "idle")
  /\ UNCHANGED <<host, answer>>

(* What an initialization packet sets in rx_state.  The mutant counts one  *)
(* packet too many.                                                        *)
OneMore == [cid |-> packet.cid, total |-> packet.control.arg + 1, payload |-> <<packet.chunk>>,
            expected_seq |-> 0, in_progress |-> TRUE]
FirstPacket == [cid |-> packet.cid, total |-> packet.control.arg, payload |-> <<packet.chunk>>,
                expected_seq |-> 0, in_progress |-> TRUE]

(* An initialization packet starts over, whoever was sending. *)
HandleInit == Handling({"CBOR"}) /\ Receive(FirstPacket)

(* Is the packet of the transaction in progress?  The mutant does not      *)
(* compare the channel.                                                    *)
AnyChannel == rx.in_progress
Expected == rx.in_progress /\ packet.cid = rx.cid

HandleContinuation ==
  /\ Handling({"CONT"}) /\ Expected
  /\ packet.control.arg = rx.expected_seq
  /\ Receive([rx EXCEPT !.payload = Append(@, packet.chunk), !.expected_seq = @ + 1])

HandleBadSequence ==
  /\ Handling({"CONT"}) /\ Expected
  /\ packet.control.arg # rx.expected_seq
  /\ rx' = [rx EXCEPT !.in_progress = FALSE]
  /\ Send(packet.cid, "ERROR", << >>)
  /\ Done("idle")

(* A continuation nobody waits for is ignored, without an answer. *)
HandleStray ==
  /\ Handling({"CONT"}) /\ ~Expected
  /\ Done("idle")
  /\ UNCHANGED <<host, rx, answer>>

(* What ctap2_process returned is sent to the channel of rx_state. *)
Respond(type) ==
  /\ loop = "process" /\ Done("idle")
  /\ Send(rx.cid, type, rx.payload)
  /\ UNCHANGED rx

-----------------------------------------------------------------------------
(* Power is lost, or the key unplugged: the RAM is gone, and the host      *)
(* tells its applications that the key is.                                 *)
Unplugged ==
  /\ host' = [c \in Channels |-> HostIdle]
  /\ usb' = UsbIdle /\ pending' = Zeroes /\ packet_pending' = FALSE
  /\ loop' = "idle" /\ packet' = Zeroes
  /\ rx' = NothingReceived /\ answer' = NoAnswer
  /\ UNCHANGED <<patient, started>>

HidInit ==
  /\ patient \in Patience
  /\ host = [c \in Channels |-> HostIdle] /\ started = 0
  /\ usb = UsbIdle /\ pending = Zeroes /\ packet_pending = FALSE
  /\ loop = "idle" /\ packet = Zeroes
  /\ rx = NothingReceived /\ answer = NoAnswer

Host(c) ==
  \/ \E n \in 1 .. MaxChunks : HostStarts(c, n)
  \/ HostSends(c) \/ HostGivesUp(c)
  \/ \E t \in HostCommands : HostSendsSimple(c, t)

HandlePacket ==
  \/ TakePacket \/ ReadPacket \/ HandleSimple \/ HandleInit \/ HandleContinuation
  \/ HandleBadSequence \/ HandleStray

HidNext ==
  \/ \E c \in Channels : Host(c)
  \/ OnOutput \/ HandlePacket \/ (\E type \in {"CBOR", "ERROR"} : Respond(type))
  \/ Unplugged

HidSpec == HidInit /\ [][HidNext]_hidVars

-----------------------------------------------------------------------------
HidTypeOK ==
  /\ patient \in BOOLEAN
  /\ host \in [Channels -> [state : {"idle", "sending", "waiting"}, msg : 0 .. MaxMessages,
                           len : 1 .. MaxChunks, next : 0 .. MaxChunks]]
  /\ started \in 0 .. MaxMessages
  /\ usb \in [step : {"idle", "deliver", "cid", "control", "chunk", "flag"}, packet : Packet]
  /\ pending \in Packet /\ packet_pending \in BOOLEAN
  /\ loop \in {"idle", "cid", "control", "chunk", "handle", "process"} /\ packet \in Packet
  /\ rx \in [cid : Channels \cup {NoChannel}, total : 0 .. MaxChunks, payload : Seq(Chunk),
             expected_seq : 0 .. MaxChunks, in_progress : BOOLEAN]
  /\ answer \in [cid : Channels \cup {NoChannel}, payload : Seq(Chunk),
                 type : SimpleCommands \cup {"CBOR", "ERROR", "none"}]

(* A packet the mailbox accepted stays whole until the loop task takes it: *)
(* its parts come from one report, whatever the host sends meanwhile.      *)
PendingIsWhole ==
  packet_pending =>
    \/ pending.control.type \in SimpleCommands /\ pending.chunk = NoChunk
    \/ pending.control.type = "CBOR" /\ pending.chunk.index = 0
    \/ pending.control.type = "CONT" /\ pending.chunk.index = pending.control.arg + 1

(* The reassembly never runs past the announced length, and a command is   *)
(* run exactly when it has reached it, also on torn or reordered packets.  *)
ReassemblyInStep ==
  /\ rx.in_progress => rx.expected_seq + 1 = Len(rx.payload) /\ Len(rx.payload) < rx.total
  /\ loop = "process" => Len(rx.payload) = rx.total /\ ~rx.in_progress

(* ctap2_process gets the packets of one message, all of them, in order.   *)
Whole == \E m \in Numbers : rx.payload = Message(m, rx.total)
WholeMessages == loop = "process" /\ patient => Whole

(* What a command answers ends the transaction it came from, which had     *)
(* been sent whole, and no other application's, as long as they are        *)
(* patient.                                                                *)
Ends(c) == host[c].state # "idle" /\ host'[c].state = "idle" /\ loop = "process"
AnswersItsRequest ==
  [][\A c \in Channels :
       (patient /\ Ends(c) /\ answer' # answer /\ answer'.type = "CBOR") =>
         answer'.payload = Message(host[c].msg, host[c].len)]_hidVars

-----------------------------------------------------------------------------
(* ctap2.h:6: ctap2_process is given a full CTAP2 CBOR command buffer.      *)
AlwaysWhole == loop = "process" => Whole
=============================================================================
