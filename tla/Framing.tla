------------------------------ MODULE Framing ------------------------------
(***************************************************************************)
(* How a message is cut into 64-byte packets and put together again, byte  *)
(* for byte: ctaphid_send_cbor_response and the reassembly in              *)
(* handle_packet, src/firmware/main/usb_hid.cpp.                           *)
(*                                                                         *)
(* The two are run against each other over a wire that keeps the order of  *)
(* packets and may lose them.  (In the key each of them faces the driver   *)
(* of the host, which cuts and joins by the same protocol.)  A byte is     *)
(* known by its message and its place in it; the buffer of the receiver is *)
(* never cleared, so bytes of former messages are in it.  CtapHid.tla      *)
(* takes packets as indivisible chunks; here is what a chunk stands for.   *)
(***************************************************************************)
EXTENDS Naturals

CONSTANTS HID_PACKET_SIZE,  \* 64
          SeqNumbers,       \* 128: the seven bits of a sequence number
          MaxLength,        \* longest message announced
          MaxMessages,      \* bound of the model: messages sent
          LoseInitMidway    \* may an initialization packet get lost while the
                            \* receiver still waits for the rest of another message?

InitRoom == HID_PACKET_SIZE - 7
ContRoom == HID_PACKET_SIZE - 5

ASSUME SizeAssumption == HID_PACKET_SIZE \in Nat /\ HID_PACKET_SIZE > 7
ASSUME LengthAssumption == /\ SeqNumbers \in Nat /\ MaxLength \in Nat
                           /\ MaxLength <= InitRoom + SeqNumbers * ContRoom
ASSUME LimitAssumption == MaxMessages \in Nat /\ LoseInitMidway \in BOOLEAN

VARIABLES tx,         \* the sender: its message, offset, sequence number and step
          wire,       \* the packet under way
          rx,         \* rx_state without its payload
          payload,    \* rx_state.payload and what lies behind it
          ready,      \* handle_packet is at process_ctap
          lost,       \* history: a packet of this message got lost, or it was given up
          delivered   \* history: number of the last message passed on

framingVars == <<tx, wire, rx, payload, ready, lost, delivered>>

-----------------------------------------------------------------------------
Lower(a, b) == IF a < b THEN a ELSE b

(* A sequence number is a byte of which the packet carries seven bits. *)
Incremented(seq) == IF seq + 1 = 2 * SeqNumbers THEN 0 ELSE seq + 1
LowBits(seq) == IF seq < SeqNumbers THEN seq ELSE seq - SeqNumbers

Message == [no : 0 .. MaxMessages, len : 0 .. MaxLength]
NoMessage == [no |-> 0, len |-> 0]
Byte == [msg : Message, at : 0 .. MaxLength]
Zero == [msg |-> NoMessage, at |-> 0]

(* A packet carries `n' bytes of message m from place `from' on; the rest  *)
(* of its room is filled with zeroes.  `of' is history.                    *)
Filled(m, from, n, room) ==
  [i \in 0 .. room - 1 |-> IF i < n THEN [msg |-> m, at |-> from + i] ELSE Zero]

InitPacket(m) == [type |-> "INIT", of |-> m, arg |-> m.len,
            data |-> Filled(m, 0, Lower(m.len, InitRoom), InitRoom)]
ContPacket(m, from, seq) == [type |-> "CONT", of |-> m, arg |-> seq,
                       data |-> Filled(m, from, Lower(m.len - from, ContRoom), ContRoom)]
NoPacket == [type |-> "none", of |-> NoMessage, arg |-> 0, data |-> << >>]

(* The memory from the start of rx_state.payload on, as far as a packet    *)
(* behind the longest message.  Of it the buffer is MAX_PAYLOAD_LEN bytes, *)
(* with which the code compares no length.                                 *)
Memory == 0 .. MaxLength + ContRoom - 1

(* memcpy(payload + to, data, n) *)
Copied(data, to, n) ==
  [i \in DOMAIN payload |-> IF to <= i /\ i < to + n THEN data[i - to] ELSE payload[i]]

-----------------------------------------------------------------------------
(* The sender. *)
Start(n) ==
  /\ tx.step = "idle" /\ tx.message.no < MaxMessages
  /\ tx' = [step |-> "first", message |-> [no |-> tx.message.no + 1, len |-> n], offset |-> 0, seq |-> 0]
  /\ lost' = FALSE
  /\ UNCHANGED <<wire, rx, payload, ready, delivered>>

SendFirst ==
  /\ tx.step = "first" /\ wire = NoPacket
  /\ wire' = InitPacket(tx.message)
  /\ LET first_chunk == Lower(tx.message.len, InitRoom)
     IN tx' = [tx EXCEPT !.offset = first_chunk,
                         !.step = IF first_chunk < tx.message.len THEN "next" ELSE "idle"]
  /\ UNCHANGED <<rx, payload, ready, lost, delivered>>

(* The mutant advances by one byte more than a packet has room for. *)
SendNextTooMuch ==
  /\ tx.step = "next" /\ wire = NoPacket
  /\ wire' = ContPacket(tx.message, tx.offset, LowBits(tx.seq))
  /\ LET offset == tx.offset + Lower(tx.message.len - tx.offset, ContRoom + 1)
     IN tx' = [tx EXCEPT !.offset = offset, !.seq = Incremented(@),
                         !.step = IF offset < tx.message.len THEN "next" ELSE "idle"]
  /\ UNCHANGED <<rx, payload, ready, lost, delivered>>

SendNext ==
  /\ tx.step = "next" /\ wire = NoPacket
  /\ wire' = ContPacket(tx.message, tx.offset, LowBits(tx.seq))
  /\ LET offset == tx.offset + Lower(tx.message.len - tx.offset, ContRoom)
     IN tx' = [tx EXCEPT !.offset = offset, !.seq = Incremented(@),
                         !.step = IF offset < tx.message.len THEN "next" ELSE "idle"]
  /\ UNCHANGED <<rx, payload, ready, lost, delivered>>

(* An application gives a message up between two packets. *)
GiveUp ==
  /\ tx.step # "idle"
  /\ tx' = [tx EXCEPT !.step = "idle"] /\ lost' = TRUE
  /\ UNCHANGED <<wire, rx, payload, ready, delivered>>

(* The wire: the endpoint is not ready for 200 ms, or the mailbox is full. *)
Lose ==
  /\ wire # NoPacket
  /\ wire.type = "INIT" /\ rx.in_progress => LoseInitMidway
  /\ wire' = NoPacket /\ lost' = TRUE
  /\ UNCHANGED <<tx, rx, payload, ready, delivered>>

-----------------------------------------------------------------------------
(* The receiver. *)
Takes(type) == wire.type = type /\ ~ready /\ wire' = NoPacket /\ UNCHANGED <<tx, lost>>

(* The packet brought the receiver to `r': the message is passed on when   *)
(* it is complete.                                                         *)
Reaches(r) ==
  \/ /\ r.received_len < r.total_len
     /\ rx' = [r EXCEPT !.in_progress = TRUE]
     /\ UNCHANGED <<ready, delivered>>
  \/ /\ r.received_len >= r.total_len
     /\ rx' = [r EXCEPT !.in_progress = FALSE]
     /\ ready' = TRUE /\ delivered' = wire.of.no

(* The mutant does not reset received_len. *)
InitAppends ==
  /\ Takes("INIT")
  /\ LET copy == Lower(wire.arg, InitRoom)
     IN /\ payload' = Copied(wire.data, 0, copy)
        /\ Reaches([total_len |-> wire.arg, received_len |-> rx.received_len + copy,
                    expected_seq |-> 0, in_progress |-> TRUE])

HandleInit ==
  /\ Takes("INIT")
  /\ LET copy == Lower(wire.arg, InitRoom)
     IN /\ payload' = Copied(wire.data, 0, copy)
        /\ Reaches([total_len |-> wire.arg, received_len |-> copy,
                    expected_seq |-> 0, in_progress |-> TRUE])

Expected == rx.in_progress /\ wire.arg = rx.expected_seq

(* The mutant copies the whole packet, zeroes and all. *)
CopyWholePacket ==
  /\ Takes("CONT") /\ Expected
  /\ payload' = Copied(wire.data, rx.received_len, ContRoom)
  /\ Reaches([rx EXCEPT !.received_len = @ + ContRoom,
                        !.expected_seq = Incremented(@)])

HandleContinuation ==
  /\ Takes("CONT") /\ Expected
  /\ LET copy == Lower(rx.total_len - rx.received_len, ContRoom)
     IN /\ payload' = Copied(wire.data, rx.received_len, copy)
        /\ Reaches([rx EXCEPT !.received_len = @ + copy,
                              !.expected_seq = Incremented(@)])

(* An error is sent, or the packet is ignored. *)
HandleUnexpected ==
  /\ Takes("CONT") /\ ~Expected
  /\ rx' = [rx EXCEPT !.in_progress = FALSE]
  /\ UNCHANGED <<payload, ready, delivered>>

(* ctap2_process has the message. *)
Process ==
  /\ ready /\ ready' = FALSE
  /\ UNCHANGED <<tx, wire, rx, payload, lost, delivered>>

-----------------------------------------------------------------------------
FramingInit ==
  /\ tx = [step |-> "idle", message |-> NoMessage, offset |-> 0, seq |-> 0]
  /\ wire = NoPacket
  /\ rx = [total_len |-> 0, received_len |-> 0, expected_seq |-> 0, in_progress |-> FALSE]
  /\ payload = [i \in Memory |-> Zero]
  /\ ready = FALSE /\ lost = FALSE /\ delivered = 0

FramingNext ==
  \/ \E n \in 0 .. MaxLength : Start(n)
  \/ SendFirst \/ SendNext \/ GiveUp \/ Lose
  \/ HandleInit \/ HandleContinuation \/ HandleUnexpected \/ Process

FramingSpec == FramingInit /\ [][FramingNext]_framingVars

-----------------------------------------------------------------------------
(* Types; and the receiver counts no further than the announced length,    *)
(* where `remaining' of handle_packet, an unsigned number, would wrap.     *)
FramingTypeOK ==
  /\ tx \in [step : {"idle", "first", "next"}, message : Message, offset : 0 .. MaxLength, seq : Nat]
  /\ wire.type \in {"none", "INIT", "CONT"} /\ wire.of \in Message
  /\ rx \in [total_len : 0 .. MaxLength, received_len : 0 .. MaxLength,
             expected_seq : Nat, in_progress : BOOLEAN]
  /\ rx.received_len <= rx.total_len
  /\ payload \in [Memory -> Byte]
  /\ ready \in BOOLEAN /\ lost \in BOOLEAN /\ delivered \in 0 .. MaxMessages

(* A packet changes no byte behind the announced length, the zeroes at its *)
(* end included.  So nothing is written outside the buffer for a host that *)
(* announces no more than it holds.  The code does not look whether one    *)
(* does: a longer announcement goes on behind the buffer.                  *)
CopiesInside == [][\A i \in Memory : payload'[i] # payload[i] => i < rx'.total_len]_framingVars

(* What is passed on is one message, whole: each of its bytes in its place *)
(* and no byte of another message, of padding or of what was in the buffer *)
(* before, for every length up to the largest, and whatever packets were   *)
(* lost on the way (short of an initialization packet while the receiver   *)
(* waits for the rest of another message).                                 *)
WholeMessage ==
  ready => \E m \in Message : /\ rx.total_len = m.len
                              /\ \A i \in 0 .. m.len - 1 : payload[i] = [msg |-> m, at |-> i]

(* A message of which no packet got lost is passed on with its last packet.*)
NothingIsMissing ==
  (tx.step = "idle" /\ wire = NoPacket /\ ~lost) => delivered = tx.message.no
=============================================================================
