--------------------------- MODULE CtapHidProofs ---------------------------
(* Theorems about CtapHid, for any number of channels, any length of the   *)
(* messages and any host.                                                  *)
EXTENDS CtapHid, SequenceTheorems, TLAPS

ChannelIds == Channels \cup {NoChannel}
HostState == [state : {"idle", "sending", "waiting"}, msg : 0 .. MaxMessages,
              len : 1 .. MaxChunks, next : 0 .. MaxChunks]
Reassembly == [cid : ChannelIds, total : 0 .. MaxChunks, payload : Seq(Chunk),
               expected_seq : 0 .. MaxChunks, in_progress : BOOLEAN]
Answers == [cid : ChannelIds, payload : Seq(Chunk),
            type : SimpleCommands \cup {"CBOR", "ERROR", "none"}]

(* An application that is sending has packets of its message left.         *)
HostInv == \A c \in Channels :
  host[c].state = "sending" => host[c].next < host[c].len /\ host[c].msg \in Numbers

(* The parts of a packet belong together, as they do in a report.          *)
WholePacket(p) ==
  \/ p.control.type \in SimpleCommands /\ p.chunk = NoChunk
  \/ p.control.type = "CBOR" /\ p.control.arg >= 1 /\ p.chunk.index = 0 /\ p.chunk.msg \in Numbers
  \/ p.control.type = "CONT" /\ p.chunk.index = p.control.arg + 1 /\ p.chunk.msg \in Numbers

(* What a torn packet still has: a message announced is not empty.         *)
Announced(p) == p.control.type = "CBOR" => p.control.arg >= 1

Before(step) == usb.step \in {"idle", "deliver"} \/ usb.step \in step
MailInv ==
  /\ WholePacket(usb.packet) /\ Announced(pending) /\ Announced(packet)
  /\ ~Before({}) => ~packet_pending
  /\ ~Before({"cid"}) => pending.cid = usb.packet.cid
  /\ ~Before({"cid", "control"}) => pending.control = usb.packet.control
  /\ ~Before({"cid", "control", "chunk"}) => pending.chunk = usb.packet.chunk
  /\ packet_pending => WholePacket(pending)

HidInv == HidTypeOK /\ HostInv /\ MailInv /\ ReassemblyInStep

-----------------------------------------------------------------------------
(* Packets and records.                                                    *)
LEMMA PacketOfWhole ==
  ASSUME NEW c \in Channels, NEW s \in Numbers, NEW n \in 1 .. MaxChunks,
         NEW k \in 0 .. n - 1
  PROVE  /\ PacketOf(c, s, n, k) \in Packet /\ WholePacket(PacketOf(c, s, n, k))
         /\ PacketOf(c, s, n, k).cid = c
         /\ PacketOf(c, s, n, k).chunk = [msg |-> s, index |-> k]
         /\ PacketOf(c, s, n, k).control.type = IF k = 0 THEN "CBOR" ELSE "CONT"
         /\ k = 0 => PacketOf(c, s, n, k).control.arg = n
<1>0. /\ MaxChunks \in Nat \ {0} /\ MaxMessages \in Nat
      /\ s \in Nat /\ s >= 1 /\ s <= MaxMessages
      /\ n \in Nat /\ n >= 1 /\ n <= MaxChunks
      /\ k \in Nat /\ k < n
  BY BoundsAssumption DEF Numbers
<1>1. [msg |-> s, index |-> k] \in Chunk
  BY <1>0 DEF Chunk
<1>2. CASE k = 0
  <2>1. PacketOf(c, s, n, k).control = [type |-> "CBOR", arg |-> n]
    BY <1>2 DEF PacketOf
  <2>2. [type |-> "CBOR", arg |-> n] \in Control
    BY <1>0 DEF Control
  <2> QED BY <1>0, <1>1, <1>2, <2>1, <2>2 DEF PacketOf, Packet, WholePacket
<1>3. CASE k # 0
  <2>1. PacketOf(c, s, n, k).control = [type |-> "CONT", arg |-> k - 1]
    BY <1>3 DEF PacketOf
  <2>2. [type |-> "CONT", arg |-> k - 1] \in Control
    BY <1>0, <1>3 DEF Control
  <2> QED BY <1>0, <1>1, <1>3, <2>1, <2>2 DEF PacketOf, Packet, WholePacket
<1> QED BY <1>2, <1>3

LEMMA SimpleWhole ==
  ASSUME NEW c \in ChannelIds, NEW t \in SimpleCommands
  PROVE  /\ SimplePacket(c, t) \in Packet /\ WholePacket(SimplePacket(c, t))
         /\ SimplePacket(c, t).cid = c /\ SimplePacket(c, t).control.type = t
         /\ Announced(SimplePacket(c, t))
<1>1. [type |-> t, arg |-> 0] \in Control
  BY BoundsAssumption DEF Control
<1>2. NoChunk \in Chunk
  BY BoundsAssumption DEF Chunk, NoChunk
<1> QED BY <1>1, <1>2 DEF SimplePacket, Packet, WholePacket, Announced, ChannelIds, SimpleCommands

LEMMA ZeroesWhole ==
  Zeroes \in Packet /\ WholePacket(Zeroes) /\ Announced(Zeroes)
<1>1. NoChannel \in ChannelIds /\ "unknown" \in SimpleCommands
  BY DEF ChannelIds, SimpleCommands
<1> QED BY <1>1, SimpleWhole DEF Zeroes

LEMMA PacketParts ==
  ASSUME NEW p \in Packet
  PROVE  /\ p.cid \in ChannelIds /\ p.control \in Control /\ p.chunk \in Chunk
         /\ p.control.type \in SimpleCommands \cup {"CBOR", "CONT"}
         /\ p.control.arg \in 0 .. MaxChunks
BY DEF Packet, Control, ChannelIds

LEMMA IdleOK == HostIdle \in HostState
BY BoundsAssumption DEF HostIdle, HostState

LEMMA NoAnswerOK == NoAnswer \in Answers
BY DEF NoAnswer, Answers, ChannelIds

LEMMA NothingOK == NothingReceived \in Reassembly
BY BoundsAssumption DEF NothingReceived, Reassembly, ChannelIds

(* The type invariant in parts.                                            *)
LEMMA Types ==
  HidTypeOK <=>
    /\ patient \in BOOLEAN /\ host \in [Channels -> HostState] /\ started \in 0 .. MaxMessages
    /\ usb \in [step : {"idle", "deliver", "cid", "control", "chunk", "flag"}, packet : Packet]
    /\ pending \in Packet /\ packet_pending \in BOOLEAN
    /\ loop \in {"idle", "cid", "control", "chunk", "handle", "process"} /\ packet \in Packet
    /\ rx \in Reassembly /\ answer \in Answers
BY DEF HidTypeOK, HostState, Reassembly, Answers, ChannelIds

LEMMA InitHidInv == HidInit => HidInv
<1> SUFFICES ASSUME HidInit PROVE HidInv
  OBVIOUS
<1>1. HidTypeOK
  <2>1. host \in [Channels -> HostState] /\ started \in 0 .. MaxMessages
    BY IdleOK, BoundsAssumption DEF HidInit
  <2>2. usb \in [step : {"idle", "deliver", "cid", "control", "chunk", "flag"}, packet : Packet]
    BY ZeroesWhole DEF HidInit, UsbIdle
  <2>3. patient \in BOOLEAN
    BY ModesAssumption DEF HidInit
  <2> HIDE DEF Packet
  <2>4. rx \in Reassembly /\ answer \in Answers /\ pending \in Packet /\ packet \in Packet
    BY NoAnswerOK, NothingOK, ZeroesWhole DEF HidInit
  <2>5. packet_pending \in BOOLEAN /\ loop = "idle"
    BY DEF HidInit
  <2> QED BY <2>1, <2>2, <2>3, <2>4, <2>5, Types
<1>2. HostInv
  BY DEF HidInit, HostInv, HostIdle
<1>3. MailInv
  BY ZeroesWhole DEF HidInit, MailInv, UsbIdle, Before
<1>4. ReassemblyInStep
  BY DEF HidInit, ReassemblyInStep, NothingReceived
<1> QED BY <1>1, <1>2, <1>3, <1>4 DEF HidInv

-----------------------------------------------------------------------------
(* The host.                                                               *)
LEMMA HostStartsKeeps ==
  ASSUME HidInv, NEW c \in Channels, NEW n \in 1 .. MaxChunks, HostStarts(c, n)
  PROVE  HidInv'
<1> DEFINE h == [state |-> "sending", msg |-> started + 1, len |-> n, next |-> 0]
<1>t. HidTypeOK
  BY DEF HidInv
<1>0. host' = [host EXCEPT ![c] = h] /\ started' = started + 1 /\ started < MaxMessages
  BY DEF HostStarts
<1>1. UNCHANGED <<patient, usb, pending, packet_pending, loop, packet, rx, answer>>
  BY DEF HostStarts
<1>2. started + 1 \in Numbers /\ started + 1 \in 0 .. MaxMessages /\ n \in Nat /\ n >= 1
  BY <1>0, <1>t, Types, BoundsAssumption DEF Numbers
<1>3. h \in HostState
  BY <1>2, BoundsAssumption DEF HostState
<1> HIDE DEF h
<1>4. host' \in [Channels -> HostState] /\ started' \in 0 .. MaxMessages
  BY <1>0, <1>2, <1>3, <1>t, Types
<1>5. HidTypeOK'
  BY <1>1, <1>4, <1>t DEF HidTypeOK, HostState
<1>6. HostInv'
  <2>1. h.next < h.len /\ h.msg \in Numbers
    BY <1>2 DEF h
  <2> QED BY <1>0, <2>1, <1>t, Types DEF HidInv, HostInv
<1>7. MailInv' /\ ReassemblyInStep'
  BY <1>1 DEF HidInv, MailInv, Before, WholePacket, Announced, ReassemblyInStep
<1> QED BY <1>5, <1>6, <1>7 DEF HidInv

(* A report of the host's is whole when it is given to the USB task.       *)
LEMMA ReportKeeps ==
  ASSUME HidInv, NEW p \in Packet, WholePacket(p), usb.step = "idle",
         usb' = [step |-> "deliver", packet |-> p],
         host' \in [Channels -> HostState], HostInv', started' \in 0 .. MaxMessages,
         UNCHANGED <<patient, pending, packet_pending, loop, packet, rx, answer>>
  PROVE  HidInv'
<1>t. HidTypeOK
  BY DEF HidInv
<1>1. HidTypeOK'
  BY <1>t DEF HidTypeOK, HostState
<1>2. MailInv'
  BY DEF HidInv, MailInv, Before, WholePacket, Announced
<1>3. ReassemblyInStep'
  BY DEF HidInv, ReassemblyInStep
<1> QED BY <1>1, <1>2, <1>3 DEF HidInv

LEMMA HostSendsKeeps ==
  ASSUME HidInv, NEW c \in Channels, HostSends(c)
  PROVE  HidInv'
<1> DEFINE h == host[c]
           p == PacketOf(c, h.msg, h.len, h.next)
           s == IF h.next + 1 = h.len THEN "waiting" ELSE "sending"
<1>t. HidTypeOK
  BY DEF HidInv
<1>0. h \in HostState /\ h.state = "sending" /\ h.next < h.len /\ h.msg \in Numbers
  BY <1>t, Types DEF HostSends, HidInv, HostInv
<1>1. /\ h.len \in 1 .. MaxChunks /\ h.next \in 0 .. h.len - 1 /\ h.msg \in 0 .. MaxMessages
      /\ h.len \in Nat /\ h.next \in Nat /\ h.next + 1 \in 0 .. MaxChunks
  BY <1>0, BoundsAssumption DEF HostState
<1>2. p \in Packet /\ WholePacket(p)
  <2>1. \A m \in Numbers, n \in 1 .. MaxChunks : \A k \in 0 .. n - 1 :
           PacketOf(c, m, n, k) \in Packet /\ WholePacket(PacketOf(c, m, n, k))
    BY PacketOfWhole
  <2> QED BY <1>0, <1>1, <2>1
<1>3. /\ usb.step = "idle" /\ usb' = [step |-> "deliver", packet |-> p]
      /\ UNCHANGED <<patient, started, pending, packet_pending, loop, packet, rx, answer>>
  BY DEF HostSends, UsbFree
<1>4. host' = [host EXCEPT ![c] = [h EXCEPT !.next = h.next + 1, !.state = s]]
  BY <1>t, Types DEF HostSends, HostState
<1> DEFINE g == [h EXCEPT !.next = h.next + 1, !.state = s]
<1>5. /\ g \in HostState /\ g.next = h.next + 1 /\ g.state = s /\ g.len = h.len
      /\ g.msg = h.msg
  BY <1>0, <1>1 DEF HostState
<1>6. host' \in [Channels -> HostState]
  BY <1>4, <1>5, <1>t, Types
<1>7. HostInv'
  <2> SUFFICES ASSUME NEW d \in Channels, host'[d].state = "sending"
               PROVE  host'[d].next < host'[d].len /\ host'[d].msg \in Numbers
    BY DEF HostInv
  <2>1. CASE d = c
    <3>1. host'[d] = g
      BY <2>1, <1>4, <1>t, Types
    <3>2. h.next + 1 # h.len
      BY <3>1, <1>5
    <3> QED BY <3>1, <3>2, <1>0, <1>1, <1>5
  <2>2. CASE d # c
    <3>1. host'[d] = host[d]
      BY <2>2, <1>4, <1>t, Types
    <3> QED BY <3>1 DEF HidInv, HostInv
  <2> QED BY <2>1, <2>2
<1>8. started' \in 0 .. MaxMessages
  BY <1>3, <1>t, Types
<1> QED BY <1>2, <1>3, <1>6, <1>7, <1>8, ReportKeeps

LEMMA HostSendsSimpleKeeps ==
  ASSUME HidInv, NEW c \in Channels, NEW t \in HostCommands, HostSendsSimple(c, t)
  PROVE  HidInv'
<1>t. HidTypeOK
  BY DEF HidInv
<1>1. SimplePacket(c, t) \in Packet /\ WholePacket(SimplePacket(c, t))
  BY SimpleWhole, CommandsAssumption DEF ChannelIds
<1>2. /\ usb.step = "idle" /\ usb' = [step |-> "deliver", packet |-> SimplePacket(c, t)]
      /\ UNCHANGED <<patient, host, pending, packet_pending, loop, packet, rx, answer>>
      /\ started < MaxMessages /\ started' = started + 1
  BY DEF HostSendsSimple, UsbFree
<1>3. host' \in [Channels -> HostState] /\ HostInv'
  BY <1>2, <1>t, Types DEF HidInv, HostInv
<1>4. started' \in 0 .. MaxMessages
  BY <1>2, <1>t, Types, BoundsAssumption
<1> QED BY <1>1, <1>2, <1>3, <1>4, ReportKeeps

(* An application without a transaction has nothing to send.               *)
LEMMA IdleKeeps ==
  ASSUME HidTypeOK, HostInv, NEW c \in Channels,
         host' = host \/ host' = [host EXCEPT ![c] = HostIdle]
  PROVE  host' \in [Channels -> HostState] /\ HostInv'
<1>1. host' \in [Channels -> HostState]
  BY IdleOK, Types
<1>2. HostInv'
  BY Types DEF HostInv, HostIdle
<1> QED BY <1>1, <1>2

LEMMA HostGivesUpKeeps ==
  ASSUME HidInv, NEW c \in Channels, HostGivesUp(c)
  PROVE  HidInv'
<1>t. HidTypeOK
  BY DEF HidInv
<1>1. UNCHANGED <<patient, started, usb, pending, packet_pending, loop, packet, rx, answer>>
  BY DEF HostGivesUp
<1>2. host' \in [Channels -> HostState] /\ HostInv'
  BY IdleKeeps DEF HostGivesUp, HidInv
<1>3. HidTypeOK'
  BY <1>1, <1>2, <1>t DEF HidTypeOK, HostState
<1>4. MailInv' /\ ReassemblyInStep'
  BY <1>1 DEF HidInv, MailInv, Before, WholePacket, Announced, ReassemblyInStep
<1> QED BY <1>2, <1>3, <1>4 DEF HidInv

-----------------------------------------------------------------------------
(* The USB task.                                                           *)
LEMMA OnOutputKeeps ==
  ASSUME HidInv, OnOutput
  PROVE  HidInv'
<1>t. HidTypeOK
  BY DEF HidInv
<1>m. MailInv
  BY DEF HidInv
<1>0. UNCHANGED <<patient, host, started, loop, packet, rx, answer>>
  BY DEF OnOutput
<1>u. /\ usb \in [step : {"idle", "deliver", "cid", "control", "chunk", "flag"}, packet : Packet]
      /\ usb.packet \in Packet /\ pending \in Packet /\ packet_pending \in BOOLEAN
  BY <1>t, Types
<1>p. /\ usb.packet.cid \in ChannelIds /\ usb.packet.control \in Control
      /\ usb.packet.chunk \in Chunk
  BY <1>u, PacketParts
<1>a. Announced(usb.packet)
  BY <1>m DEF MailInv, WholePacket, Announced, SimpleCommands
<1>k. ASSUME usb' \in [step : {"idle", "deliver", "cid", "control", "chunk", "flag"}, packet : Packet],
             pending' \in Packet, packet_pending' \in BOOLEAN, MailInv'
      PROVE  HidInv'
  <2>1. HidTypeOK'
    BY <1>0, <1>k, <1>t DEF HidTypeOK, HostState
  <2>2. HostInv' /\ ReassemblyInStep'
    BY <1>0 DEF HidInv, HostInv, ReassemblyInStep
  <2> QED BY <1>k, <2>1, <2>2 DEF HidInv
<1>1. CASE usb.step = "deliver" /\ packet_pending
  <2>1. usb' = UsbIdle /\ pending' = pending /\ packet_pending' = packet_pending
    BY <1>1, <1>u DEF OnOutput
  <2>2. MailInv'
    BY <2>1, <1>0, <1>m, ZeroesWhole DEF MailInv, Before, UsbIdle, WholePacket, Announced
  <2> QED BY <2>1, <2>2, <1>u, <1>k, ZeroesWhole DEF UsbIdle
<1>2. CASE usb.step = "deliver" /\ ~packet_pending
  <2>1. /\ usb' = [usb EXCEPT !.step = "cid"] /\ pending' = pending
        /\ packet_pending' = packet_pending
    BY <1>2, <1>u DEF OnOutput, After
  <2>2. usb'.step = "cid" /\ usb'.packet = usb.packet
    BY <2>1, <1>u
  <2>3. MailInv'
    BY <2>1, <2>2, <1>0, <1>2, <1>m DEF MailInv, Before, WholePacket, Announced
  <2> QED BY <2>1, <2>3, <1>u, <1>k
<1>3. CASE usb.step = "cid"
  <2>1. /\ usb' = [usb EXCEPT !.step = "control"]
        /\ pending' = [pending EXCEPT !.cid = usb.packet.cid]
        /\ packet_pending' = packet_pending
    BY <1>3, <1>u DEF OnOutput, After
  <2>2. usb'.step = "control" /\ usb'.packet = usb.packet
    BY <2>1, <1>u
  <2>3. pending' \in Packet /\ pending'.cid = usb.packet.cid /\ pending'.control = pending.control
    BY <2>1, <1>u, <1>p DEF Packet, ChannelIds
  <2>4. MailInv'
    BY <2>1, <2>2, <2>3, <1>0, <1>3, <1>m DEF MailInv, Before, WholePacket, Announced
  <2> QED BY <2>1, <2>3, <2>4, <1>u, <1>k
<1>4. CASE usb.step = "control"
  <2>1. /\ usb' = [usb EXCEPT !.step = "chunk"]
        /\ pending' = [pending EXCEPT !.control = usb.packet.control]
        /\ packet_pending' = packet_pending
    BY <1>4, <1>u DEF OnOutput, After
  <2>2. usb'.step = "chunk" /\ usb'.packet = usb.packet
    BY <2>1, <1>u
  <2>3. pending' \in Packet /\ pending'.cid = pending.cid /\ pending'.control = usb.packet.control
    BY <2>1, <1>u, <1>p DEF Packet, ChannelIds
  <2>4. MailInv'
    BY <2>1, <2>2, <2>3, <1>0, <1>4, <1>a, <1>m DEF MailInv, Before, WholePacket, Announced
  <2> QED BY <2>1, <2>3, <2>4, <1>u, <1>k
<1>5. CASE usb.step = "chunk"
  <2>1. /\ usb' = [usb EXCEPT !.step = "flag"]
        /\ pending' = [pending EXCEPT !.chunk = usb.packet.chunk]
        /\ packet_pending' = packet_pending
    BY <1>5, <1>u DEF OnOutput, After
  <2>2. usb'.step = "flag" /\ usb'.packet = usb.packet
    BY <2>1, <1>u
  <2>3. /\ pending' \in Packet /\ pending'.cid = pending.cid
        /\ pending'.control = pending.control /\ pending'.chunk = usb.packet.chunk
    BY <2>1, <1>u, <1>p DEF Packet, ChannelIds
  <2>4. MailInv'
    BY <2>1, <2>2, <2>3, <1>0, <1>5, <1>m DEF MailInv, Before, WholePacket, Announced
  <2> QED BY <2>1, <2>3, <2>4, <1>u, <1>k
<1>6. CASE usb.step = "flag"
  <2>1. usb' = UsbIdle /\ pending' = pending /\ packet_pending' = TRUE
    BY <1>6, <1>u DEF OnOutput, After
  <2>2. pending.control = usb.packet.control /\ pending.chunk = usb.packet.chunk
    BY <1>6, <1>m DEF MailInv, Before
  <2>3. WholePacket(pending')
    BY <2>1, <2>2, <1>m DEF MailInv, WholePacket
  <2>4. MailInv'
    BY <2>1, <2>3, <1>0, <1>m, ZeroesWhole DEF MailInv, Before, UsbIdle, Announced
  <2> QED BY <2>1, <2>4, <1>u, <1>k, ZeroesWhole DEF UsbIdle
<1> QED BY <1>1, <1>2, <1>3, <1>4, <1>5, <1>6, <1>u DEF OnOutput

-----------------------------------------------------------------------------
(* The loop task.                                                          *)
LEMMA TakePacketKeeps ==
  ASSUME HidInv, TakePacket
  PROVE  HidInv'
<1>t. HidTypeOK
  BY DEF HidInv
<1>0. /\ loop' = "cid" /\ packet_pending' = FALSE /\ answer' = NoAnswer
      /\ UNCHANGED <<patient, host, started, usb, pending, packet, rx>>
  BY DEF TakePacket, Lowered
<1>1. HidTypeOK'
  BY <1>0, <1>t, NoAnswerOK DEF HidTypeOK, Answers, ChannelIds
<1>2. HostInv' /\ ReassemblyInStep'
  BY <1>0 DEF HidInv, HostInv, ReassemblyInStep
<1>3. MailInv'
  BY <1>0 DEF HidInv, MailInv, Before, WholePacket, Announced
<1> QED BY <1>1, <1>2, <1>3 DEF HidInv

LEMMA ReadPacketKeeps ==
  ASSUME HidInv, ReadPacket
  PROVE  HidInv'
<1>t. HidTypeOK
  BY DEF HidInv
<1>0. /\ loop' \in {"control", "chunk", "handle"}
      /\ UNCHANGED <<patient, host, started, usb, pending, packet_pending, rx, answer>>
  BY DEF ReadPacket
<1>p. /\ pending \in Packet /\ packet \in Packet
      /\ pending.cid \in ChannelIds /\ pending.control \in Control /\ pending.chunk \in Chunk
  BY <1>t, Types, PacketParts
<1>m. /\ usb.packet \in Packet /\ WholePacket(usb.packet)
      /\ Announced(pending) /\ Announced(packet)
  BY <1>t, Types DEF HidInv, MailInv
<1>s. /\ Seen("cid", {NoChannel}) \subseteq ChannelIds
      /\ Seen("chunk", {NoChunk}) \subseteq Chunk
  BY <1>p, <1>m, PacketParts, BoundsAssumption DEF Seen, ChannelIds, NoChunk, Chunk
<1>c. \A control \in Seen("control", MixedControls) :
         control \in Control /\ (control.type = "CBOR" => control.arg >= 1)
  <2>1. \A control \in MixedControls : control \in Control /\ control.arg >= 1
    BY DEF MixedControls, Control
  <2>2. /\ pending.control.type = "CBOR" => pending.control.arg >= 1
        /\ usb.packet.control.type = "CBOR" => usb.packet.control.arg >= 1
    BY <1>m DEF Announced, WholePacket, SimpleCommands
  <2>3. usb.packet.control \in Control
    BY <1>m, PacketParts
  <2> QED BY <2>1, <2>2, <2>3, <1>p DEF Seen
<1>1. packet' \in Packet /\ Announced(packet)'
  <2>1. CASE loop = "cid"
    <3>1. PICK cid \in ChannelIds : packet' = [packet EXCEPT !.cid = cid]
      BY <2>1, <1>s DEF ReadPacket
    <3> QED BY <3>1, <1>p, <1>m DEF Packet, ChannelIds, Announced
  <2>2. CASE loop = "control"
    <3>1. PICK control \in Seen("control", MixedControls) : packet' = [packet EXCEPT !.control = control]
      BY <2>2 DEF ReadPacket
    <3> QED BY <3>1, <1>p, <1>c DEF Packet, Announced
  <2>3. CASE loop = "chunk"
    <3>1. PICK chunk \in Chunk : packet' = [packet EXCEPT !.chunk = chunk]
      BY <2>3, <1>s DEF ReadPacket
    <3> QED BY <3>1, <1>p, <1>m DEF Packet, Announced
  <2> QED BY <2>1, <2>2, <2>3 DEF ReadPacket
<1>2. HidTypeOK'
  BY <1>0, <1>1, <1>t DEF HidTypeOK
<1>3. HostInv' /\ ReassemblyInStep'
  BY <1>0 DEF HidInv, HostInv, ReassemblyInStep
<1>4. MailInv'
  BY <1>0, <1>1 DEF HidInv, MailInv, Before, WholePacket, Announced
<1> QED BY <1>2, <1>3, <1>4 DEF HidInv

(* A packet is done with, and the reassembly and the host are as they may  *)
(* be.                                                                     *)
LEMMA DoneKeeps ==
  ASSUME HidInv, NEW step \in {"idle", "process"}, Done(step),
         host' \in [Channels -> HostState], HostInv', answer' \in Answers,
         rx' \in Reassembly, ReassemblyInStep'
  PROVE  HidInv'
<1>t. HidTypeOK
  BY DEF HidInv
<1>0. /\ loop' = step /\ packet' = Zeroes
      /\ UNCHANGED <<patient, started, usb, pending, packet_pending>>
  BY DEF Done
<1>1. HidTypeOK'
  BY <1>0, <1>t, ZeroesWhole DEF HidTypeOK, HostState, Reassembly, Answers, ChannelIds
<1>2. MailInv'
  BY <1>0, ZeroesWhole DEF HidInv, MailInv, Before, WholePacket, Announced
<1> QED BY <1>1, <1>2 DEF HidInv

LEMMA SendKeeps ==
  ASSUME HidInv, NEW c \in ChannelIds, NEW payload \in Seq(Chunk),
         NEW type \in SimpleCommands \cup {"CBOR", "ERROR"}, Send(c, type, payload)
  PROVE  host' \in [Channels -> HostState] /\ HostInv' /\ answer' \in Answers
<1>1. answer' = [cid |-> c, type |-> type, payload |-> payload] \/ answer' = NoAnswer
  BY DEF Send
<1>2. answer' \in Answers
  BY <1>1, NoAnswerOK DEF Answers
<1>3. CASE host' = host
  <2>1. HidTypeOK /\ HostInv
    BY DEF HidInv
  <2> QED BY <2>1, <1>2, <1>3, Types DEF HostInv
<1>4. CASE c \in Channels /\ host' = [host EXCEPT ![c] = HostIdle]
  BY <1>2, <1>4, IdleKeeps DEF HidInv
<1> QED BY <1>3, <1>4 DEF Send

LEMMA HandleSimpleKeeps ==
  ASSUME HidInv, HandleSimple
  PROVE  HidInv'
<1>t. HidTypeOK
  BY DEF HidInv
<1>1. packet.cid \in ChannelIds /\ packet.control.type \in SimpleCommands
  BY <1>t, Types, PacketParts DEF HandleSimple, Handling
<1>2. AnswerType(packet.control.type) \in SimpleCommands \cup {"CBOR", "ERROR"}
  BY <1>1 DEF AnswerType, SimpleCommands
<1>3. << >> \in Seq(Chunk)
  OBVIOUS
<1>4. host' \in [Channels -> HostState] /\ HostInv' /\ answer' \in Answers
  BY <1>1, <1>2, <1>3, SendKeeps DEF HandleSimple
<1>5. Done("idle") /\ rx' = rx
  BY DEF HandleSimple
<1>6. rx' \in Reassembly /\ ReassemblyInStep'
  BY <1>5, <1>t, Types DEF HidInv, ReassemblyInStep, Done
<1> QED BY <1>4, <1>5, <1>6, DoneKeeps

(* rx_state is replaced by one in step: it holds a packet more than it     *)
(* counts continuations, and no more packets than were announced.          *)
LEMMA ReceiveKeeps ==
  ASSUME HidInv, NEW r \in Reassembly, Receive(r), r.in_progress,
         r.expected_seq + 1 = Len(r.payload), Len(r.payload) <= r.total
  PROVE  HidInv'
<1> DEFINE step == IF Complete(r) THEN "process" ELSE "idle"
<1>t. HidTypeOK /\ HostInv
  BY DEF HidInv
<1>1. /\ rx' = [r EXCEPT !.in_progress = ~Complete(r)] /\ Done(step)
      /\ UNCHANGED <<host, answer>>
  BY DEF Receive
<1>2. /\ rx' \in Reassembly /\ rx'.in_progress = ~Complete(r) /\ rx'.payload = r.payload
      /\ rx'.total = r.total /\ rx'.expected_seq = r.expected_seq
  BY <1>1 DEF Reassembly
<1>3. r.total \in Nat /\ Len(r.payload) \in Nat
  BY BoundsAssumption DEF Reassembly
<1>4. ReassemblyInStep'
  <2>1. CASE Complete(r)
    <3>1. Len(r.payload) = r.total
      BY <1>3, <2>1 DEF Complete
    <3>2. ~rx'.in_progress
      BY <1>2, <2>1
    <3> QED BY <1>2, <3>1, <3>2 DEF ReassemblyInStep
  <2>2. CASE ~Complete(r)
    <3>1. Len(r.payload) < r.total
      BY <1>3, <2>2 DEF Complete
    <3>2. loop' = "idle"
      BY <1>1, <2>2 DEF Done
    <3> QED BY <1>2, <3>1, <3>2 DEF ReassemblyInStep
  <2> QED BY <2>1, <2>2
<1>5. host' \in [Channels -> HostState] /\ HostInv' /\ answer' \in Answers
  BY <1>1, <1>t, Types DEF HostInv
<1> QED BY <1>1, <1>2, <1>4, <1>5, DoneKeeps

LEMMA HandleInitKeeps ==
  ASSUME HidInv, HandleInit
  PROVE  HidInv'
<1>t. HidTypeOK
  BY DEF HidInv
<1>1. Receive(FirstPacket) /\ packet.control.type = "CBOR"
  BY DEF HandleInit, Handling
<1>2. /\ packet.cid \in ChannelIds /\ packet.chunk \in Chunk
      /\ packet.control.arg \in 0 .. MaxChunks
  BY <1>t, Types, PacketParts
<1>3. packet.control.arg >= 1
  BY <1>1 DEF HidInv, MailInv, Announced
<1>4. <<packet.chunk>> \in Seq(Chunk) /\ Len(<<packet.chunk>>) = 1
  BY <1>2
<1>5. /\ FirstPacket \in Reassembly /\ FirstPacket.in_progress
      /\ FirstPacket.expected_seq + 1 = Len(FirstPacket.payload)
      /\ Len(FirstPacket.payload) <= FirstPacket.total
  BY <1>2, <1>3, <1>4, BoundsAssumption DEF FirstPacket, Reassembly
<1> QED BY <1>1, <1>5, ReceiveKeeps

LEMMA HandleContinuationKeeps ==
  ASSUME HidInv, HandleContinuation
  PROVE  HidInv'
<1> DEFINE r == [rx EXCEPT !.payload = Append(@, packet.chunk), !.expected_seq = @ + 1]
<1>t. HidTypeOK
  BY DEF HidInv
<1>1. Receive(r) /\ rx.in_progress
  BY DEF HandleContinuation, Expected
<1>2. packet.chunk \in Chunk /\ rx \in Reassembly
  BY <1>t, Types, PacketParts
<1>3. /\ rx.payload \in Seq(Chunk) /\ Len(rx.payload) \in Nat
      /\ rx.total \in Nat /\ rx.total <= MaxChunks /\ rx.expected_seq \in Nat
  BY <1>2, BoundsAssumption DEF Reassembly
<1>4. rx.expected_seq + 1 = Len(rx.payload) /\ Len(rx.payload) < rx.total
  BY <1>1 DEF HidInv, ReassemblyInStep
<1>5. /\ Append(rx.payload, packet.chunk) \in Seq(Chunk)
      /\ Len(Append(rx.payload, packet.chunk)) = Len(rx.payload) + 1
  BY <1>2, <1>3
<1>6. rx.expected_seq + 1 \in 0 .. MaxChunks
  BY <1>3, <1>4, BoundsAssumption
<1>7. /\ r \in Reassembly /\ r.payload = Append(rx.payload, packet.chunk)
      /\ r.expected_seq = rx.expected_seq + 1 /\ r.total = rx.total /\ r.in_progress
  BY <1>1, <1>2, <1>5, <1>6 DEF Reassembly
<1>8. r.expected_seq + 1 = Len(r.payload) /\ Len(r.payload) <= r.total
  BY <1>3, <1>4, <1>5, <1>7
<1> HIDE DEF r
<1> QED BY <1>1, <1>7, <1>8, ReceiveKeeps

LEMMA HandleBadSequenceKeeps ==
  ASSUME HidInv, HandleBadSequence
  PROVE  HidInv'
<1>t. HidTypeOK
  BY DEF HidInv
<1>1. packet.cid \in ChannelIds /\ << >> \in Seq(Chunk)
  BY <1>t, Types, PacketParts
<1>2. host' \in [Channels -> HostState] /\ HostInv' /\ answer' \in Answers
  BY <1>1, SendKeeps DEF HandleBadSequence
<1>3. Done("idle") /\ rx' = [rx EXCEPT !.in_progress = FALSE]
  BY DEF HandleBadSequence
<1>4. rx \in Reassembly
  BY <1>t, Types
<1>5. rx' \in Reassembly /\ ReassemblyInStep'
  BY <1>3, <1>4 DEF Reassembly, ReassemblyInStep, Done
<1> QED BY <1>2, <1>3, <1>5, DoneKeeps

LEMMA HandleStrayKeeps ==
  ASSUME HidInv, HandleStray
  PROVE  HidInv'
<1>t. HidTypeOK /\ HostInv
  BY DEF HidInv
<1>1. Done("idle") /\ UNCHANGED <<host, rx, answer>>
  BY DEF HandleStray
<1>2. host' \in [Channels -> HostState] /\ HostInv' /\ answer' \in Answers /\ rx' \in Reassembly
  BY <1>1, <1>t, Types DEF HostInv
<1>3. ReassemblyInStep'
  BY <1>1 DEF HidInv, ReassemblyInStep, Done
<1> QED BY <1>1, <1>2, <1>3, DoneKeeps

LEMMA RespondKeeps ==
  ASSUME HidInv, NEW type \in {"CBOR", "ERROR"}, Respond(type)
  PROVE  HidInv'
<1>t. HidTypeOK
  BY DEF HidInv
<1>1. rx \in Reassembly /\ rx.cid \in ChannelIds /\ rx.payload \in Seq(Chunk)
  BY <1>t, Types DEF Reassembly
<1>2. Done("idle") /\ rx' = rx /\ Send(rx.cid, type, rx.payload)
  BY DEF Respond
<1>3. host' \in [Channels -> HostState] /\ HostInv' /\ answer' \in Answers
  BY <1>1, <1>2, SendKeeps
<1>4. rx' \in Reassembly /\ ReassemblyInStep'
  BY <1>1, <1>2 DEF HidInv, ReassemblyInStep, Done
<1> QED BY <1>2, <1>3, <1>4, DoneKeeps

(* A key without power is as before it ever had any.                       *)
LEMMA UnpluggedKeeps ==
  ASSUME HidInv, Unplugged
  PROVE  HidInv'
<1>t. HidTypeOK
  BY DEF HidInv
<1>1. /\ host' = [c \in Channels |-> HostIdle] /\ UNCHANGED <<patient, started>>
      /\ usb' = UsbIdle /\ pending' = Zeroes /\ packet_pending' = FALSE
      /\ loop' = "idle" /\ packet' = Zeroes /\ rx' = NothingReceived /\ answer' = NoAnswer
  BY DEF Unplugged
<1>2. host' \in [Channels -> HostState]
  BY <1>1, IdleOK
<1>3. HidTypeOK'
  <2>1. usb' \in [step : {"idle", "deliver", "cid", "control", "chunk", "flag"}, packet : Packet]
    BY <1>1, ZeroesWhole DEF UsbIdle
  <2>2. pending' \in Packet /\ packet' \in Packet /\ rx' \in Reassembly /\ answer' \in Answers
    BY <1>1, NoAnswerOK, NothingOK, ZeroesWhole
  <2> QED BY <1>1, <1>2, <1>t, <2>1, <2>2 DEF HidTypeOK, HostState, Reassembly, Answers, ChannelIds
<1>4. HostInv' /\ ReassemblyInStep'
  BY <1>1 DEF HostInv, HostIdle, ReassemblyInStep, NothingReceived
<1>5. MailInv'
  BY <1>1, ZeroesWhole DEF MailInv, UsbIdle, Before
<1> QED BY <1>3, <1>4, <1>5 DEF HidInv

LEMMA HidInvKept == HidInv /\ [HidNext]_hidVars => HidInv'
<1> SUFFICES ASSUME HidInv, [HidNext]_hidVars PROVE HidInv'
  OBVIOUS
<1>1. CASE \E c \in Channels : Host(c)
  BY <1>1, HostStartsKeeps, HostSendsKeeps, HostSendsSimpleKeeps, HostGivesUpKeeps DEF Host
<1>2. CASE OnOutput
  BY <1>2, OnOutputKeeps
<1>3. CASE HandlePacket
  BY <1>3, TakePacketKeeps, ReadPacketKeeps, HandleSimpleKeeps, HandleInitKeeps,
     HandleContinuationKeeps, HandleBadSequenceKeeps, HandleStrayKeeps
  DEF HandlePacket
<1>4. CASE \E type \in {"CBOR", "ERROR"} : Respond(type)
  BY <1>4, RespondKeeps
<1>5. CASE Unplugged
  BY <1>5, UnpluggedKeeps
<1>6. CASE UNCHANGED hidVars
  <2>1. HidTypeOK'
    BY <1>6 DEF hidVars, HidInv, HidTypeOK
  <2>2. HostInv' /\ ReassemblyInStep'
    BY <1>6 DEF hidVars, HidInv, HostInv, ReassemblyInStep
  <2>3. MailInv'
    BY <1>6 DEF hidVars, HidInv, MailInv, Before, WholePacket, Announced
  <2> QED BY <2>1, <2>2, <2>3 DEF HidInv
<1> QED BY <1>1, <1>2, <1>3, <1>4, <1>5, <1>6 DEF HidNext

LEMMA HidInvariant == HidSpec => []HidInv
BY InitHidInv, HidInvKept, PTL DEF HidSpec

(* The transport keeps its state of its types: the host's transactions,    *)
(* the mailbox and the reassembly, whatever is torn, lost or reordered.    *)
THEOREM HidTypeCorrect == HidSpec => []HidTypeOK
<1>1. HidInv => HidTypeOK
  BY DEF HidInv
<1> QED BY <1>1, HidInvariant, PTL

(* What the USB task has left in the mailbox, and the loop task not taken, *)
(* is one report of the host's, for any interleaving of the two.           *)
THEOREM MailboxStaysWhole == HidSpec => []PendingIsWhole
<1>1. HidInv => PendingIsWhole
  BY DEF HidInv, MailInv, WholePacket, PendingIsWhole
<1> QED BY <1>1, HidInvariant, PTL

(* The reassembly counts right and ends at the announced length, also on   *)
(* packets that were torn or belong to different messages.                 *)
THEOREM ReassemblyKeepsStep == HidSpec => []ReassemblyInStep
<1>1. HidInv => ReassemblyInStep
  BY DEF HidInv
<1> QED BY <1>1, HidInvariant, PTL

-----------------------------------------------------------------------------
(* A patient host: one packet is on its way at a time, from the report to  *)
(* the end of handle_packet.                                               *)
Reading == {"cid", "control", "chunk", "handle"}
Flying == usb.step # "idle" \/ packet_pending \/ loop \in Reading
Carried == IF usb.step = "idle" THEN pending ELSE usb.packet

(* The mailbox and the two tasks take turns.                               *)
Turns ==
  /\ usb.step # "idle" => ~packet_pending /\ loop = "idle"
  /\ packet_pending => loop = "idle"
  /\ loop \in Reading => WholePacket(pending)
  /\ loop \in {"control", "chunk", "handle"} => packet.cid = pending.cid
  /\ loop \in {"chunk", "handle"} => packet.control = pending.control
  /\ loop = "handle" => packet.chunk = pending.chunk

HostOrder == \A c \in Channels :
  /\ host[c].state = "idle" => host[c].next = 0
  /\ host[c].state = "waiting" => host[c].next = host[c].len

(* If an application has sent packets, they are k of message s with n.     *)
Own(h, s, n, k) == h.next > 0 => h.msg = s /\ h.len = n /\ h.next = k
First == rx.payload[1].msg

(* A first packet on its way is the only one its application has sent; the *)
(* last one of a message leaves it waiting.                                *)
Opening(p) ==
  p.control.type = "CBOR" =>
    /\ p.cid \in Channels /\ Own(host[p.cid], p.chunk.msg, p.control.arg, 1)
    /\ p.control.arg = 1 => host[p.cid].next > 0

(* A continuation on its way is of the message that is being received.     *)
Following(p) ==
  p.control.type = "CONT" /\ rx.in_progress /\ p.cid = rx.cid =>
    /\ p.chunk.msg = First /\ Own(host[p.cid], First, rx.total, p.chunk.index + 1)
    /\ p.chunk.index + 1 = rx.total => host[p.cid].next > 0
    /\ p.chunk.index = Len(rx.payload)

(* A one-packet command comes from an application without a transaction.   *)
Apart(p) == p.control.type \in SimpleCommands /\ p.cid \in Channels => host[p.cid].next = 0

(* With none on its way, its application has sent what has been received.  *)
Between ==
  rx.in_progress /\ ~(Flying /\ Carried.cid = rx.cid /\ Carried.control.type \in {"CBOR", "CONT"}) =>
    Own(host[rx.cid], First, rx.total, Len(rx.payload))

Received ==
  rx.in_progress \/ loop = "process" =>
    rx.cid \in Channels /\ First \in Numbers /\ rx.payload = Message(First, Len(rx.payload))

AtProcess ==
  loop = "process" =>
    host[rx.cid].state = "waiting" /\ host[rx.cid].msg = First /\ host[rx.cid].len = rx.total

InOrder ==
  /\ Turns /\ Between /\ Received /\ AtProcess
  /\ Flying => Opening(Carried) /\ Following(Carried) /\ Apart(Carried)
PatientInv == HostOrder /\ (patient => InOrder)

-----------------------------------------------------------------------------
(* The transactions of the applications stay in order, whatever the host.  *)
LEMMA IdleInOrder ==
  ASSUME HidInv, HostOrder, NEW c \in Channels,
         host' = host \/ host' = [host EXCEPT ![c] = HostIdle]
  PROVE  HostOrder'
BY Types DEF HidInv, HostOrder, HostIdle

LEMMA SendInOrder ==
  ASSUME HidInv, HostOrder, NEW c, NEW payload, NEW type, Send(c, type, payload)
  PROVE  HostOrder'
<1>1. CASE host' = host
  BY <1>1 DEF HostOrder
<1>2. CASE c \in Channels /\ host' = [host EXCEPT ![c] = HostIdle]
  BY <1>2, IdleInOrder
<1> QED BY <1>1, <1>2 DEF Send

LEMMA SendsInOrder ==
  ASSUME HidInv, HostOrder, NEW c \in Channels, HostSends(c)
  PROVE  /\ host[c].state = "sending" /\ host[c].next < host[c].len
         /\ host[c].next \in Nat /\ host[c].len \in 1 .. MaxChunks /\ host[c].msg \in Numbers
         /\ host'[c].next = host[c].next + 1 /\ host'[c].msg = host[c].msg
         /\ host'[c].len = host[c].len
         /\ \A d \in Channels : d # c => host'[d] = host[d]
         /\ HostOrder'
<1>t. host \in [Channels -> HostState]
  BY Types DEF HidInv
<1>1. /\ host[c] \in HostState /\ host[c].state = "sending" /\ host[c].next < host[c].len
      /\ host[c].msg \in Numbers
  BY <1>t DEF HostSends, HidInv, HostInv
<1>2. host[c].next \in Nat /\ host[c].len \in 1 .. MaxChunks
  BY <1>1, BoundsAssumption DEF HostState
<1>3. host' = [host EXCEPT ![c].next = host[c].next + 1,
                           ![c].state = IF host[c].next + 1 = host[c].len THEN "waiting" ELSE "sending"]
  BY DEF HostSends
<1>4. /\ host'[c].next = host[c].next + 1 /\ host'[c].msg = host[c].msg
      /\ host'[c].len = host[c].len
      /\ host'[c].state = IF host[c].next + 1 = host[c].len THEN "waiting" ELSE "sending"
  BY <1>1, <1>3, <1>t DEF HostState
<1>5. \A d \in Channels : d # c => host'[d] = host[d]
  BY <1>3, <1>t
<1>6. HostOrder'
  <2> SUFFICES ASSUME NEW d \in Channels
               PROVE  /\ host'[d].state = "idle" => host'[d].next = 0
                      /\ host'[d].state = "waiting" => host'[d].next = host'[d].len
    BY DEF HostOrder
  <2>1. CASE d = c
    BY <1>4, <2>1
  <2>2. CASE d # c
    BY <1>5, <2>2 DEF HostOrder
  <2> QED BY <2>1, <2>2
<1> QED BY <1>1, <1>2, <1>4, <1>5, <1>6

LEMMA HostOrderKept == HidInv /\ HostOrder /\ [HidNext]_hidVars => HostOrder'
<1> SUFFICES ASSUME HidInv, HostOrder, [HidNext]_hidVars PROVE HostOrder'
  OBVIOUS
<1>t. host \in [Channels -> HostState]
  BY Types DEF HidInv
<1>1. CASE \E c \in Channels : Host(c)
  <2> SUFFICES ASSUME NEW c \in Channels, Host(c) PROVE HostOrder'
    BY <1>1
  <2>1. ASSUME NEW n \in 1 .. MaxChunks, HostStarts(c, n) PROVE HostOrder'
    BY <1>t, <2>1 DEF HostStarts, HostOrder
  <2>2. CASE HostSends(c)
    BY <2>2, SendsInOrder
  <2>3. CASE HostGivesUp(c)
    BY <2>3, IdleInOrder DEF HostGivesUp
  <2>4. ASSUME NEW t \in HostCommands, HostSendsSimple(c, t) PROVE HostOrder'
    BY <2>4 DEF HostSendsSimple, HostOrder
  <2> QED BY <2>1, <2>2, <2>3, <2>4 DEF Host
<1>2. CASE UNCHANGED host
  BY <1>2 DEF HostOrder
<1>3. CASE HandleSimple
  BY <1>3, SendInOrder DEF HandleSimple
<1>4. CASE HandleBadSequence
  BY <1>4, SendInOrder DEF HandleBadSequence
<1>5. CASE \E type \in {"CBOR", "ERROR"} : Respond(type)
  BY <1>5, SendInOrder DEF Respond
<1>6. CASE Unplugged
  BY <1>6 DEF Unplugged, HostIdle, HostOrder
<1>7. OnOutput \/ TakePacket \/ ReadPacket \/ HandleInit \/ HandleContinuation \/ HandleStray
        => UNCHANGED host
  BY DEF OnOutput, TakePacket, ReadPacket, HandleInit, HandleContinuation, HandleStray, Receive
<1> QED BY <1>1, <1>2, <1>3, <1>4, <1>5, <1>6, <1>7 DEF HidNext, HandlePacket, hidVars

-----------------------------------------------------------------------------
(* An application that begins or gives up has sent nothing of its message, *)
(* and was not waiting for the end of one.                                 *)
LEMMA NoLastPacket ==
  ASSUME HidInv, HostOrder, NEW c \in Channels, host[c].state # "waiting", NEW s, NEW n,
         host[c].next > 0, Own(host[c], s, n, n)
  PROVE  FALSE
<1>1. host[c] \in HostState
  BY Types DEF HidInv
<1>2. host[c].state = "sending" /\ host[c].next < host[c].len
  BY <1>1 DEF HidInv, HostInv, HostOrder, HostState
<1> QED BY <1>1, <1>2, BoundsAssumption DEF Own, HostState

LEMMA ResetsInOrder ==
  ASSUME HidInv, HostOrder, InOrder, NEW c \in Channels, host[c].state # "waiting",
         host'[c].next = 0, \A d \in Channels : d # c => host'[d] = host[d],
         UNCHANGED <<usb, pending, packet_pending, loop, packet, rx>>
  PROVE  InOrder'
<1>1. Turns' /\ Flying' = Flying /\ Carried' = Carried
  BY DEF InOrder, Turns, WholePacket, Flying, Carried
<1>2. Received'
  BY DEF InOrder, Received, First
<1>3. AtProcess'
  BY DEF InOrder, AtProcess, First, Received
<1>4. ASSUME NEW d \in Channels, NEW s, NEW n, NEW k, Own(host[d], s, n, k)
      PROVE  Own(host'[d], s, n, k)
  BY <1>4 DEF Own
<1>5. Between'
  <2>1. Between /\ (rx.in_progress => rx.cid \in Channels)
    BY DEF InOrder, Received
  <2> QED BY <1>1, <1>4, <2>1 DEF Between, First
<1>6. ASSUME Flying PROVE Opening(Carried)' /\ Following(Carried)' /\ Apart(Carried)'
  <2> DEFINE p == Carried
  <2>1. p' = p /\ rx' = rx /\ Opening(p) /\ Following(p) /\ Apart(p)
    BY <1>1, <1>6 DEF InOrder
  <2> HIDE DEF p
  <2>2. Opening(p)'
    <3> SUFFICES ASSUME p.control.type = "CBOR"
                 PROVE  /\ p.cid \in Channels /\ Own(host'[p.cid], p.chunk.msg, p.control.arg, 1)
                        /\ p.control.arg = 1 => host'[p.cid].next > 0
      BY <2>1 DEF Opening
    <3>1. /\ p.cid \in Channels /\ Own(host[p.cid], p.chunk.msg, p.control.arg, 1)
          /\ p.control.arg = 1 => host[p.cid].next > 0
      BY <2>1 DEF Opening
    <3>2. p.control.arg = 1 => p.cid # c
      BY <3>1, NoLastPacket
    <3> QED BY <1>4, <3>1, <3>2
  <2>3. Following(p)'
    <3> SUFFICES ASSUME p.control.type = "CONT", rx.in_progress, p.cid = rx.cid
                 PROVE  /\ p.chunk.msg = First
                        /\ Own(host'[p.cid], First, rx.total, p.chunk.index + 1)
                        /\ p.chunk.index + 1 = rx.total => host'[p.cid].next > 0
                        /\ p.chunk.index = Len(rx.payload)
      BY <2>1 DEF Following, First
    <3>1. /\ p.chunk.msg = First /\ Own(host[p.cid], First, rx.total, p.chunk.index + 1)
          /\ p.chunk.index + 1 = rx.total => host[p.cid].next > 0
          /\ p.chunk.index = Len(rx.payload)
      BY <2>1 DEF Following
    <3>2. p.cid \in Channels
      BY DEF InOrder, Received
    <3>3. p.chunk.index + 1 = rx.total => p.cid # c
      BY <3>1, NoLastPacket
    <3> QED BY <1>4, <3>1, <3>2, <3>3
  <2>4. Apart(p)'
    BY <2>1 DEF Apart
  <2> QED BY <2>2, <2>3, <2>4 DEF p
<1> QED BY <1>1, <1>2, <1>3, <1>5, <1>6 DEF InOrder

LEMMA HostBeginsInOrder ==
  ASSUME HidInv, HostOrder, InOrder, patient, NEW c \in Channels,
         HostGivesUp(c) \/ \E n \in 1 .. MaxChunks : HostStarts(c, n)
  PROVE  InOrder'
<1>t. host \in [Channels -> HostState]
  BY Types DEF HidInv
<1>1. CASE HostGivesUp(c)
  <2>1. host[c].state = "sending" /\ host' = [host EXCEPT ![c] = HostIdle]
    BY <1>1 DEF HostGivesUp
  <2>2. host'[c].next = 0 /\ \A d \in Channels : d # c => host'[d] = host[d]
    BY <2>1, <1>t DEF HostIdle
  <2>3. UNCHANGED <<usb, pending, packet_pending, loop, packet, rx>>
    BY <1>1 DEF HostGivesUp
  <2> QED BY <2>1, <2>2, <2>3, ResetsInOrder
<1>2. ASSUME NEW n \in 1 .. MaxChunks, HostStarts(c, n) PROVE InOrder'
  <2>1. host[c].state = "idle"
    BY <1>2 DEF HostStarts
  <2>2. host'[c].next = 0 /\ \A d \in Channels : d # c => host'[d] = host[d]
    BY <1>2, <1>t DEF HostStarts
  <2>3. UNCHANGED <<usb, pending, packet_pending, loop, packet, rx>>
    BY <1>2 DEF HostStarts
  <2> QED BY <2>1, <2>2, <2>3, ResetsInOrder
<1> QED BY <1>1, <1>2

(* A report leaves a patient host when nothing is on its way.              *)
LEMMA ReportInOrder ==
  ASSUME InOrder, NEW p, ~Flying,
         usb' = [step |-> "deliver", packet |-> p],
         UNCHANGED <<pending, packet_pending, loop, packet, rx>>,
         loop = "idle", ~packet_pending
  PROVE  /\ Turns' /\ Received' /\ AtProcess' /\ Flying' /\ Carried' = p
BY DEF InOrder, Turns, Received, AtProcess, Flying, Carried, Reading, First

LEMMA HostSendsSimpleInOrder ==
  ASSUME HidInv, HostOrder, InOrder, patient, NEW c \in Channels, NEW t \in HostCommands,
         HostSendsSimple(c, t)
  PROVE  InOrder'
<1> DEFINE p == SimplePacket(c, t)
<1>1. /\ usb' = [step |-> "deliver", packet |-> p] /\ loop = "idle" /\ ~packet_pending
      /\ usb.step = "idle" /\ UNCHANGED <<host, pending, packet_pending, loop, packet, rx>>
  BY DEF HostSendsSimple, UsbFree
<1>2. ~Flying
  BY <1>1 DEF Flying, Reading
<1>3. p.control.type \in SimpleCommands /\ p.cid = c /\ host[c].next = 0
  BY SimpleWhole, CommandsAssumption DEF ChannelIds, HostSendsSimple, HostOrder
<1> HIDE DEF p
<1>4. /\ Turns' /\ Received' /\ AtProcess' /\ Flying' /\ Carried' = p
  BY <1>1, <1>2, ReportInOrder
<1>5. p.control.type \notin {"CBOR", "CONT"}
  BY <1>3 DEF SimpleCommands
<1>6. Between'
  BY <1>1, <1>2 DEF InOrder, Between, First
<1>7. Opening(Carried)' /\ Following(Carried)' /\ Apart(Carried)'
  BY <1>1, <1>3, <1>4, <1>5 DEF Opening, Following, Apart
<1> QED BY <1>4, <1>6, <1>7 DEF InOrder

LEMMA HostSendsInOrder ==
  ASSUME HidInv, HostOrder, InOrder, patient, NEW c \in Channels, HostSends(c)
  PROVE  InOrder'
<1> DEFINE h == host[c]
           p == PacketOf(c, h.msg, h.len, h.next)
<1>1. /\ usb' = [step |-> "deliver", packet |-> p] /\ loop = "idle" /\ ~packet_pending
      /\ usb.step = "idle" /\ UNCHANGED <<pending, packet_pending, loop, packet, rx>>
  BY DEF HostSends, UsbFree
<1>2. ~Flying
  BY <1>1 DEF Flying, Reading
<1>3. /\ h.next < h.len /\ h.next \in Nat /\ h.len \in 1 .. MaxChunks /\ h.msg \in Numbers
      /\ host'[c].next = h.next + 1 /\ host'[c].msg = h.msg /\ host'[c].len = h.len
      /\ \A d \in Channels : d # c => host'[d] = host[d]
  BY SendsInOrder
<1>4. /\ p.cid = c /\ p.chunk = [msg |-> h.msg, index |-> h.next]
      /\ p.control.type = (IF h.next = 0 THEN "CBOR" ELSE "CONT")
      /\ h.next = 0 => p.control.arg = h.len
  <2>1. h.next \in 0 .. h.len - 1
    BY <1>3, BoundsAssumption
  <2> QED BY <1>3, <2>1, PacketOfWhole
<1> HIDE DEF p
<1>5. /\ Turns' /\ Received' /\ AtProcess' /\ Flying' /\ Carried' = p
  BY <1>1, <1>2, ReportInOrder
<1>6. Between /\ (rx.in_progress => rx.cid \in Channels)
  BY DEF InOrder, Received
<1>7. Between'
  <2>1. CASE rx.cid = c
    BY <2>1, <1>1, <1>4, <1>5 DEF Between
  <2>2. CASE rx.cid # c
    BY <2>2, <1>1, <1>2, <1>3, <1>6 DEF Between, First
  <2> QED BY <2>1, <2>2
<1>8. Opening(Carried)'
  BY <1>1, <1>3, <1>4, <1>5 DEF Opening, Own
<1>9. Following(Carried)'
  <2> SUFFICES ASSUME p.control.type = "CONT", rx.in_progress, c = rx.cid
               PROVE  /\ p.chunk.msg = First
                      /\ Own(host'[c], First, rx.total, p.chunk.index + 1)
                      /\ p.chunk.index + 1 = rx.total => host'[c].next > 0
                      /\ p.chunk.index = Len(rx.payload)
    BY <1>1, <1>4, <1>5 DEF Following, First
  <2>1. h.next > 0 /\ h.msg = First /\ h.len = rx.total /\ h.next = Len(rx.payload)
    BY <1>2, <1>3, <1>4, <1>6 DEF Between, Own
  <2> QED BY <1>3, <1>4, <2>1 DEF Own
<1>10. Apart(Carried)'
  BY <1>4, <1>5 DEF Apart, SimpleCommands
<1> QED BY <1>5, <1>7, <1>8, <1>9, <1>10 DEF InOrder

-----------------------------------------------------------------------------
(* The tasks hand the packet on.                                           *)
HandsOn ==
  /\ Flying /\ Flying' /\ Carried' = Carried /\ loop # "process" /\ loop' # "process"
  /\ UNCHANGED <<host, rx>>

LEMMA OnOutputHandsOn ==
  ASSUME HidInv, InOrder, OnOutput
  PROVE  Turns' /\ HandsOn
<1>0. UNCHANGED <<host, loop, packet, rx>> /\ usb.step # "idle"
  BY DEF OnOutput
<1>1. loop = "idle" /\ ~packet_pending /\ Flying /\ Carried = usb.packet
  BY <1>0 DEF InOrder, Turns, Flying, Carried
<1>2. /\ usb \in [step : {"idle", "deliver", "cid", "control", "chunk", "flag"}, packet : Packet]
      /\ usb.packet \in Packet /\ pending \in Packet
  BY Types DEF HidInv
<1>3. CASE usb.step = "flag"
  <2>1. usb' = UsbIdle /\ pending' = pending /\ packet_pending'
    BY <1>0, <1>1, <1>2, <1>3 DEF OnOutput, After
  <2>2. /\ pending.cid = usb.packet.cid /\ pending.control = usb.packet.control
        /\ pending.chunk = usb.packet.chunk
    BY <1>3 DEF HidInv, MailInv, Before
  <2>3. pending = usb.packet
    BY <1>2, <2>2 DEF Packet
  <2>4. Turns' /\ Flying' /\ Carried' = Carried
    BY <1>0, <1>1, <2>1, <2>3 DEF Turns, Flying, Carried, UsbIdle, Reading
  <2> QED BY <1>0, <1>1, <2>4 DEF HandsOn
<1>4. CASE usb.step # "flag"
  <2>1. /\ usb' = [usb EXCEPT !.step = After(usb.step)] /\ packet_pending' = packet_pending
        /\ After(usb.step) # "idle"
    <3>1. usb.step \in {"deliver", "cid", "control", "chunk"}
      BY <1>0, <1>2, <1>4
    <3>2. After(usb.step) # "idle"
      BY <3>1 DEF After
    <3>3. usb' = [usb EXCEPT !.step = After(usb.step)]
      BY <1>1, <3>2 DEF OnOutput
    <3>4. packet_pending' = packet_pending
      BY <1>1, <1>4 DEF OnOutput, HidInv, HidTypeOK
    <3> QED BY <3>2, <3>3, <3>4
  <2>2. usb'.step # "idle" /\ usb'.packet = usb.packet
    BY <1>2, <2>1
  <2>3. Turns' /\ Flying' /\ Carried' = Carried
    BY <1>0, <1>1, <2>1, <2>2 DEF Turns, Flying, Carried, Reading
  <2> QED BY <1>0, <1>1, <2>3 DEF HandsOn
<1> QED BY <1>3, <1>4

LEMMA TakePacketHandsOn ==
  ASSUME HidInv, InOrder, TakePacket
  PROVE  Turns' /\ HandsOn
<1>0. /\ loop = "idle" /\ packet_pending /\ loop' = "cid" /\ packet_pending' = FALSE
      /\ UNCHANGED <<host, usb, pending, packet, rx>>
  BY DEF TakePacket, LoopFree, Lowered
<1>1. usb.step = "idle" /\ WholePacket(pending)
  BY <1>0 DEF InOrder, Turns, HidInv, MailInv
<1>2. Turns' /\ Flying /\ Flying' /\ Carried' = Carried
  BY <1>0, <1>1 DEF Turns, WholePacket, Flying, Carried, Reading
<1> QED BY <1>0, <1>2 DEF HandsOn

LEMMA ReadPacketHandsOn ==
  ASSUME HidInv, InOrder, ReadPacket
  PROVE  Turns' /\ HandsOn
<1>0. /\ loop \in {"cid", "control", "chunk"}
      /\ UNCHANGED <<host, usb, pending, packet_pending, rx>>
  BY DEF ReadPacket
<1>1. usb.step = "idle" /\ ~packet_pending /\ WholePacket(pending) /\ WholePacket(pending)'
  BY <1>0 DEF InOrder, Turns, Reading, WholePacket
<1>2. packet \in Packet
  BY Types DEF HidInv
<1>s. /\ Seen("cid", {NoChannel}) = {pending.cid}
      /\ Seen("control", MixedControls) = {pending.control}
      /\ Seen("chunk", {NoChunk}) = {pending.chunk}
  BY <1>1 DEF Seen
<1>3. /\ loop' \in {"control", "chunk", "handle"}
      /\ packet'.cid = pending.cid
      /\ loop' \in {"chunk", "handle"} => packet'.control = pending.control
      /\ loop' = "handle" => packet'.chunk = pending.chunk
  <2>1. CASE loop = "cid"
    BY <2>1, <1>2, <1>s DEF ReadPacket, Packet
  <2>2. CASE loop = "control"
    BY <2>2, <1>2, <1>s DEF ReadPacket, Packet, InOrder, Turns
  <2>3. CASE loop = "chunk"
    BY <2>3, <1>2, <1>s DEF ReadPacket, Packet, InOrder, Turns
  <2> QED BY <1>0, <2>1, <2>2, <2>3
<1>4. Turns'
  BY <1>0, <1>1, <1>3 DEF Turns
<1>5. Flying /\ Flying' /\ Carried' = Carried /\ loop # "process" /\ loop' # "process"
  BY <1>0, <1>3 DEF Flying, Carried, Reading
<1> QED BY <1>0, <1>4, <1>5 DEF HandsOn

LEMMA HandedOn ==
  ASSUME HidInv, InOrder, OnOutput \/ TakePacket \/ ReadPacket
  PROVE  InOrder'
<1>0. Turns' /\ HandsOn
  BY OnOutputHandsOn, TakePacketHandsOn, ReadPacketHandsOn
<1>1. Received' /\ AtProcess'
  BY <1>0 DEF HandsOn, InOrder, Received, AtProcess, First
<1>2. Between'
  BY <1>0 DEF HandsOn, InOrder, Between, First
<1>3. Opening(Carried)' /\ Following(Carried)' /\ Apart(Carried)'
  BY <1>0 DEF HandsOn, InOrder, Opening, Following, Apart, First
<1> QED BY <1>0, <1>1, <1>2, <1>3 DEF InOrder

-----------------------------------------------------------------------------
(* handle_packet has the packet that was carried, and nothing else is on   *)
(* its way.                                                                *)
LEMMA Handled ==
  ASSUME HidInv, InOrder, loop = "handle"
  PROVE  /\ usb.step = "idle" /\ ~packet_pending /\ packet = Carried /\ Flying
         /\ WholePacket(packet) /\ Opening(packet) /\ Following(packet) /\ Apart(packet)
<1>1. usb.step = "idle" /\ ~packet_pending /\ Flying /\ Carried = pending
  BY DEF InOrder, Turns, Flying, Carried, Reading
<1>2. packet \in Packet /\ pending \in Packet
  BY Types DEF HidInv
<1>3. packet = pending
  BY <1>2 DEF InOrder, Turns, Packet
<1> QED BY <1>1, <1>3 DEF InOrder, Turns, Reading

(* Afterwards nothing is on its way at all.                                *)
LEMMA Landed ==
  ASSUME InOrder, usb.step = "idle", ~packet_pending,
         NEW step \in {"idle", "process"}, Done(step)
  PROVE  Turns' /\ ~Flying'
BY DEF Done, Turns, Flying, Reading

LEMMA NothingLeft ==
  ASSUME Turns', ~Flying', loop' # "process", ~rx'.in_progress
  PROVE  InOrder'
BY DEF InOrder, Between, Received, AtProcess

(* An answer ends transactions, and no packet of theirs is on its way.     *)
LEMMA SendOwn ==
  ASSUME HidInv, NEW c, NEW payload, NEW type, Send(c, type, payload),
         NEW d \in Channels, NEW s, NEW n, NEW k, Own(host[d], s, n, k)
  PROVE  Own(host'[d], s, n, k)
<1>t. host \in [Channels -> HostState]
  BY Types DEF HidInv
<1>1. host' = host \/ (c \in Channels /\ host' = [host EXCEPT ![c] = HostIdle])
  BY DEF Send
<1> QED BY <1>1, <1>t DEF Own, HostIdle

LEMMA HandleSimpleInOrder ==
  ASSUME HidInv, InOrder, HandleSimple
  PROVE  InOrder'
<1>1. /\ loop = "handle" /\ packet.control.type \in SimpleCommands /\ Done("idle") /\ rx' = rx
      /\ Send(packet.cid, AnswerType(packet.control.type), << >>)
  BY DEF HandleSimple, Handling
<1>2. Turns' /\ ~Flying'
  BY <1>1, Handled, Landed
<1>3. loop' = "idle"
  BY <1>1 DEF Done
<1>4. Received' /\ AtProcess'
  BY <1>1, <1>3 DEF InOrder, Received, AtProcess, First
<1>5. Between'
  <2> SUFFICES ASSUME rx.in_progress PROVE Own(host'[rx.cid], First, rx.total, Len(rx.payload))
    BY <1>1 DEF Between, First
  <2>1. Carried.control.type \notin {"CBOR", "CONT"}
    BY <1>1, Handled DEF SimpleCommands
  <2>2. Own(host[rx.cid], First, rx.total, Len(rx.payload)) /\ rx.cid \in Channels
    BY <2>1 DEF InOrder, Between, Received
  <2> QED BY <1>1, <2>2, SendOwn
<1> QED BY <1>2, <1>4, <1>5 DEF InOrder

LEMMA HandleBadSequenceInOrder ==
  ASSUME HidInv, InOrder, HandleBadSequence
  PROVE  InOrder'
<1>1. /\ loop = "handle" /\ Done("idle") /\ rx' = [rx EXCEPT !.in_progress = FALSE]
  BY DEF HandleBadSequence, Handling
<1>2. Turns' /\ ~Flying'
  BY <1>1, Handled, Landed
<1>3. rx \in Reassembly
  BY Types DEF HidInv
<1>4. loop' # "process" /\ ~rx'.in_progress
  BY <1>1, <1>3 DEF Done, Reassembly
<1> QED BY <1>2, <1>4, NothingLeft

LEMMA HandleStrayInOrder ==
  ASSUME HidInv, InOrder, HandleStray
  PROVE  InOrder'
<1>1. /\ loop = "handle" /\ ~Expected /\ Done("idle") /\ UNCHANGED <<host, rx>>
  BY DEF HandleStray, Handling
<1>2. Turns' /\ ~Flying'
  BY <1>1, Handled, Landed
<1>3. loop' = "idle"
  BY <1>1 DEF Done
<1>4. Received' /\ AtProcess'
  BY <1>1, <1>3 DEF InOrder, Received, AtProcess, First
<1>5. Between'
  <2> SUFFICES ASSUME rx.in_progress PROVE Own(host[rx.cid], First, rx.total, Len(rx.payload))
    BY <1>1 DEF Between, First
  <2>1. Carried.cid # rx.cid
    BY <1>1, Handled DEF Expected
  <2> QED BY <2>1 DEF InOrder, Between
<1> QED BY <1>2, <1>4, <1>5 DEF InOrder

LEMMA RespondInOrder ==
  ASSUME HidInv, InOrder, NEW type \in {"CBOR", "ERROR"}, Respond(type)
  PROVE  InOrder'
<1>1. loop = "process" /\ Done("idle") /\ rx' = rx
  BY DEF Respond
<1>2. usb.step = "idle" /\ ~packet_pending
  BY <1>1 DEF InOrder, Turns
<1>3. Turns' /\ ~Flying' /\ loop' # "process"
  BY <1>1, <1>2, Landed DEF Done
<1>4. ~rx'.in_progress
  BY <1>1 DEF HidInv, ReassemblyInStep
<1> QED BY <1>3, <1>4, NothingLeft

LEMMA UnpluggedInOrder ==
  ASSUME Unplugged
  PROVE  InOrder'
<1>1. /\ usb' = UsbIdle /\ packet_pending' = FALSE /\ loop' = "idle" /\ rx' = NothingReceived
  BY DEF Unplugged
<1>2. Turns' /\ ~Flying' /\ loop' # "process" /\ ~rx'.in_progress
  BY <1>1 DEF Turns, Flying, Reading, UsbIdle, NothingReceived
<1> QED BY <1>2, NothingLeft

-----------------------------------------------------------------------------
(* The packets of a message, one after the other.                          *)
LEMMA MessageOne ==
  ASSUME NEW s
  PROVE  <<[msg |-> s, index |-> 0]>> = Message(s, 1)
BY DEF Message

LEMMA MessageMore ==
  ASSUME NEW s, NEW n \in Nat
  PROVE  Append(Message(s, n), [msg |-> s, index |-> n]) = Message(s, n + 1)
<1> DEFINE E == {[msg |-> s, index |-> k - 1] : k \in 1 .. n}
<1>0. \A k \in 1 .. n : [msg |-> s, index |-> k - 1] \in E
  OBVIOUS
<1> HIDE DEF E
<1>1. Message(s, n) \in Seq(E) /\ Len(Message(s, n)) = n
  BY <1>0, IsASeq DEF Message
<1>2. DOMAIN Append(Message(s, n), [msg |-> s, index |-> n]) = 1 .. n + 1
  BY <1>1
<1>3. ASSUME NEW k \in 1 .. n + 1
      PROVE  Append(Message(s, n), [msg |-> s, index |-> n])[k] = [msg |-> s, index |-> k - 1]
  BY <1>1 DEF Message
<1> QED BY <1>1, <1>2, <1>3 DEF Message

LEMMA MessageFirst ==
  ASSUME NEW s, NEW n \in Nat, n >= 1
  PROVE  Message(s, n)[1].msg = s /\ Len(Message(s, n)) = n
BY DEF Message

(* A message that has come to its end leaves its application waiting.      *)
LEMMA LastOne ==
  ASSUME HidInv, HostOrder, NEW c \in Channels, NEW s, NEW n \in Nat,
         host[c].next > 0, Own(host[c], s, n, n)
  PROVE  host[c].state = "waiting" /\ host[c].msg = s /\ host[c].len = n
BY NoLastPacket DEF Own

(* rx_state is replaced by one that holds the first k packets of message s *)
(* of an application that has sent just them.                              *)
LEMMA ReceiveInOrder ==
  ASSUME HidInv, HostOrder, InOrder, loop = "handle",
         NEW r \in Reassembly, Receive(r), NEW s \in Numbers, NEW k \in Nat, k >= 1,
         r.payload = Message(s, k), r.cid \in Channels, k <= r.total,
         Own(host[r.cid], s, r.total, k), k = r.total => host[r.cid].next > 0
  PROVE  InOrder'
<1> DEFINE step == IF Complete(r) THEN "process" ELSE "idle"
<1>1. /\ rx' = [r EXCEPT !.in_progress = ~Complete(r)] /\ Done(step)
      /\ UNCHANGED <<host, answer>>
  BY DEF Receive
<1>2. /\ rx'.in_progress = ~Complete(r) /\ rx'.payload = r.payload /\ rx'.cid = r.cid
      /\ rx'.total = r.total
  BY <1>1 DEF Reassembly
<1>3. Turns' /\ ~Flying'
  BY <1>1, Handled, Landed
<1>4. r.payload[1].msg = s /\ Len(r.payload) = k /\ r.total \in Nat
  BY MessageFirst, BoundsAssumption DEF Reassembly
<1>5. First' = s
  BY <1>2, <1>4 DEF First
<1>6. Received'
  BY <1>2, <1>4, <1>5 DEF Received
<1>7. Between'
  BY <1>1, <1>2, <1>4, <1>5 DEF Between
<1>8. AtProcess'
  <2> SUFFICES ASSUME loop' = "process"
               PROVE  /\ host[r.cid].state = "waiting" /\ host[r.cid].msg = s
                      /\ host[r.cid].len = r.total
    BY <1>1, <1>2, <1>5 DEF AtProcess
  <2>1. Complete(r)
    BY <1>1 DEF Done
  <2>2. k = r.total
    BY <1>4, <2>1 DEF Complete
  <2> QED BY <2>2, LastOne
<1> QED BY <1>3, <1>6, <1>7, <1>8 DEF InOrder

LEMMA HandleInitInOrder ==
  ASSUME HidInv, HostOrder, InOrder, HandleInit
  PROVE  InOrder'
<1> DEFINE p == packet
           s == p.chunk.msg
<1>1. loop = "handle" /\ Receive(FirstPacket) /\ p.control.type = "CBOR"
  BY DEF HandleInit, Handling
<1>2. /\ p \in Packet /\ p.cid \in ChannelIds /\ p.chunk \in Chunk
      /\ p.control.arg \in 0 .. MaxChunks
  BY Types, PacketParts DEF HidInv
<1>3. p.control.arg >= 1 /\ p.chunk.index = 0 /\ s \in Numbers
  BY <1>1, Handled DEF WholePacket, SimpleCommands
<1>4. /\ p.cid \in Channels /\ Own(host[p.cid], s, p.control.arg, 1)
      /\ p.control.arg = 1 => host[p.cid].next > 0
  BY <1>1, Handled DEF Opening
<1>5. p.chunk = [msg |-> s, index |-> 0]
  BY <1>2, <1>3 DEF Chunk
<1>6. <<p.chunk>> = Message(s, 1)
  BY <1>5, MessageOne
<1>7. <<p.chunk>> \in Seq(Chunk)
  BY <1>2
<1>8. FirstPacket \in Reassembly
  BY <1>2, <1>7, BoundsAssumption DEF FirstPacket, Reassembly
<1>9. /\ FirstPacket.cid = p.cid /\ FirstPacket.payload = Message(s, 1)
      /\ FirstPacket.total = p.control.arg /\ 1 <= FirstPacket.total
  BY <1>3, <1>6 DEF FirstPacket
<1> HIDE DEF p, s
<1> QED BY <1>1, <1>3, <1>4, <1>8, <1>9, ReceiveInOrder

LEMMA HandleContinuationInOrder ==
  ASSUME HidInv, HostOrder, InOrder, HandleContinuation
  PROVE  InOrder'
<1> DEFINE n == Len(rx.payload)
           r == [rx EXCEPT !.payload = Append(@, packet.chunk), !.expected_seq = @ + 1]
<1>1. /\ loop = "handle" /\ Receive(r) /\ packet.control.type = "CONT"
      /\ rx.in_progress /\ packet.cid = rx.cid /\ packet.control.arg = rx.expected_seq
  BY DEF HandleContinuation, Handling, Expected
<1>2. rx \in Reassembly /\ packet.chunk \in Chunk
  BY Types, PacketParts DEF HidInv
<1>3. /\ n \in Nat /\ rx.total \in Nat /\ rx.total <= MaxChunks /\ rx.expected_seq \in Nat
      /\ rx.payload \in Seq(Chunk)
  BY <1>2, BoundsAssumption DEF Reassembly
<1>4. rx.expected_seq + 1 = n /\ n < rx.total
  BY <1>1 DEF HidInv, ReassemblyInStep
<1>5. packet.chunk.index = n
  BY <1>1, <1>4, Handled DEF WholePacket, SimpleCommands
<1>6. /\ packet.chunk.msg = First /\ Own(host[rx.cid], First, rx.total, n + 1)
      /\ n + 1 = rx.total => host[rx.cid].next > 0
  BY <1>1, <1>5, Handled DEF Following
<1>7. rx.cid \in Channels /\ First \in Numbers /\ rx.payload = Message(First, n)
  BY <1>1 DEF InOrder, Received
<1>8. packet.chunk = [msg |-> First, index |-> n]
  BY <1>2, <1>5, <1>6 DEF Chunk
<1>9. Append(rx.payload, packet.chunk) = Message(First, n + 1)
  BY <1>3, <1>7, <1>8, MessageMore
<1>10. Append(rx.payload, packet.chunk) \in Seq(Chunk)
  BY <1>2, <1>3
<1>11. rx.expected_seq + 1 \in 0 .. MaxChunks
  BY <1>3, <1>4, BoundsAssumption
<1>12. /\ r \in Reassembly /\ r.payload = Message(First, n + 1) /\ r.cid = rx.cid
       /\ r.total = rx.total
  BY <1>2, <1>9, <1>10, <1>11 DEF Reassembly
<1>13. n + 1 \in Nat /\ n + 1 >= 1 /\ n + 1 <= rx.total
  BY <1>3, <1>4
<1> HIDE DEF r, n
<1> QED BY <1>1, <1>6, <1>7, <1>12, <1>13, ReceiveInOrder

-----------------------------------------------------------------------------
LEMMA InitPatientInv == HidInit => PatientInv
<1> SUFFICES ASSUME HidInit PROVE PatientInv
  OBVIOUS
<1>1. HostOrder
  BY DEF HidInit, HostOrder, HostIdle
<1>2. InOrder
  BY DEF HidInit, InOrder, Turns, Between, Received, AtProcess, Flying, Reading, UsbIdle,
     NothingReceived
<1> QED BY <1>1, <1>2 DEF PatientInv

LEMMA PatienceLasts == [HidNext]_hidVars => patient' = patient
BY DEF HidNext, Host, HostStarts, HostSends, HostSendsSimple, HostGivesUp, OnOutput,
   HandlePacket, TakePacket, ReadPacket, HandleSimple, HandleInit, HandleContinuation,
   HandleBadSequence, HandleStray, Receive, Respond, Done, Unplugged, hidVars

LEMMA PatientInvKept == HidInv /\ PatientInv /\ [HidNext]_hidVars => PatientInv'
<1> SUFFICES ASSUME HidInv, PatientInv, [HidNext]_hidVars PROVE PatientInv'
  OBVIOUS
<1>1. HostOrder /\ HostOrder'
  BY HostOrderKept DEF PatientInv
<1>2. patient' = patient
  BY PatienceLasts
<1> SUFFICES ASSUME patient PROVE InOrder'
  BY <1>1, <1>2 DEF PatientInv
<1>3. InOrder
  BY DEF PatientInv
<1>4. CASE \E c \in Channels : Host(c)
  BY <1>1, <1>3, <1>4, HostBeginsInOrder, HostSendsInOrder, HostSendsSimpleInOrder DEF Host
<1>5. CASE OnOutput
  BY <1>3, <1>5, HandedOn
<1>6. CASE HandlePacket
  BY <1>1, <1>3, <1>6, HandedOn, HandleSimpleInOrder,
     HandleInitInOrder, HandleContinuationInOrder, HandleBadSequenceInOrder, HandleStrayInOrder
  DEF HandlePacket
<1>7. CASE \E type \in {"CBOR", "ERROR"} : Respond(type)
  BY <1>3, <1>7, RespondInOrder
<1>8. CASE Unplugged
  BY <1>8, UnpluggedInOrder
<1>9. CASE UNCHANGED hidVars
  BY <1>3, <1>9 DEF hidVars, InOrder, Turns, Between, Received, AtProcess, Flying, Carried,
     WholePacket, Opening, Following, Apart, Own, First
<1> QED BY <1>4, <1>5, <1>6, <1>7, <1>8, <1>9 DEF HidNext

LEMMA PatientInvariant == HidSpec => []PatientInv
BY HidInvariant, InitPatientInv, PatientInvKept, PTL DEF HidSpec

(* A command is all packets of one message of one application, in order,   *)
(* as long as the host waits for each to be dealt with: for any number of  *)
(* applications that begin, give up and begin again.                       *)
THEOREM CommandsAreWhole == HidSpec => []WholeMessages
<1>1. HidInv /\ PatientInv => WholeMessages
  <2> SUFFICES ASSUME HidInv, PatientInv, loop = "process", patient PROVE Whole
    BY DEF WholeMessages
  <2>1. First \in Numbers /\ rx.payload = Message(First, Len(rx.payload))
    BY DEF PatientInv, InOrder, Received
  <2>2. Len(rx.payload) = rx.total
    BY DEF HidInv, ReassemblyInStep
  <2> QED BY <2>1, <2>2 DEF Whole
<1> QED BY <1>1, HidInvariant, PatientInvariant, PTL

(* The answer a patient application gets is the one to what it has sent.   *)
THEOREM AnswersFindRequests == HidSpec => AnswersItsRequest
<1> DEFINE A == \A c \in Channels :
       (patient /\ Ends(c) /\ answer' # answer /\ answer'.type = "CBOR") =>
         answer'.payload = Message(host[c].msg, host[c].len)
<1>1. HidInv /\ PatientInv /\ [HidNext]_hidVars => [A]_hidVars
  <2> SUFFICES ASSUME HidInv, PatientInv, HidNext, NEW c \in Channels, patient, Ends(c),
                      answer' # answer, answer'.type = "CBOR"
               PROVE  answer'.payload = Message(host[c].msg, host[c].len)
    BY DEF hidVars
  <2>1. loop = "process" /\ host[c].state # "idle" /\ host'[c].state = "idle"
    BY DEF Ends
  <2>2. (\E d \in Channels : Host(d)) \/ OnOutput => answer' = answer
    BY DEF Host, HostStarts, HostSends, HostSendsSimple, HostGivesUp, OnOutput
  <2>3. HandlePacket => answer' = answer
    BY <2>1 DEF HandlePacket, TakePacket, ReadPacket, HandleSimple, HandleInit, HandleContinuation,
       HandleBadSequence, HandleStray, Receive, Handling
  <2>4. ~Unplugged
    <3>1. Unplugged => answer' = NoAnswer
      BY DEF Unplugged
    <3>2. NoAnswer.type # "CBOR"
      BY DEF NoAnswer
    <3> QED BY <3>1, <3>2
  <2>5. PICK type \in {"CBOR", "ERROR"} : Respond(type)
    BY <2>2, <2>3, <2>4 DEF HidNext
  <2>6. Send(rx.cid, type, rx.payload)
    BY <2>5 DEF Respond
  <2>7. answer'.payload = rx.payload
    BY <2>6 DEF Send, NoAnswer
  <2>8. c = rx.cid
    <3>1. host \in [Channels -> HostState]
      BY Types DEF HidInv
    <3> QED BY <2>1, <2>6, <3>1 DEF Send
  <2>9. rx.payload = Message(First, rx.total)
    BY <2>1 DEF PatientInv, InOrder, Received, HidInv, ReassemblyInStep
  <2> QED BY <2>1, <2>7, <2>8, <2>9 DEF PatientInv, InOrder, AtProcess
<1> QED BY <1>1, HidInvariant, PatientInvariant, PTL DEF HidSpec, AnswersItsRequest
=============================================================================
