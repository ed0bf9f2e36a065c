--------------------------- MODULE FramingProofs ---------------------------
(***************************************************************************)
(* What handle_packet passes on is one message, whole, for every size of   *)
(* packets, every length the sequence numbers can count, any number of     *)
(* messages and packets lost on the way.  The arithmetic of both sides is  *)
(* tied to one function: Place, where the k-th continuation starts.        *)
(***************************************************************************)
EXTENDS Framing, TLAPS

Place(k) == InitRoom + k * ContRoom

(* The first bytes of message m are in the buffer. *)
Prefix(m) == /\ rx.total_len = m.len
             /\ \A i \in 0 .. rx.received_len - 1 : payload[i] = [msg |-> m, at |-> i]

-----------------------------------------------------------------------------
(* The strengthening. *)

(* The sender is at the start of a continuation, and there is one to send. *)
TxInv ==
  /\ tx.step = "first" => tx.seq = 0
  /\ tx.step = "next" => tx.offset = Place(tx.seq) /\ tx.offset < tx.message.len

(* A packet is one the sender makes. *)
WireInv ==
  \/ wire = NoPacket
  \/ wire = InitPacket(wire.of)
  \/ /\ wire.arg \in Nat /\ Place(wire.arg) < wire.of.len
     /\ wire = ContPacket(wire.of, Place(wire.arg), wire.arg)

(* The receiver waits for the start of a continuation. *)
RxInv == rx.in_progress => /\ rx.received_len = Place(rx.expected_seq)
                           /\ rx.received_len < rx.total_len

(* What the receiver has is of the message whose continuation comes next.  *)
CurrentInv ==
  /\ tx.step = "next" /\ wire # NoPacket => wire.of = tx.message
  /\ rx.in_progress /\ wire.type = "CONT" => Prefix(wire.of)
  /\ rx.in_progress /\ wire = NoPacket /\ tx.step = "next" => Prefix(tx.message)

ReassemblyInv == FramingTypeOK /\ TxInv /\ WireInv /\ RxInv

WholeInv == ReassemblyInv /\ CurrentInv /\ WholeMessage

(* As long as nothing got lost the two sides agree on how far they are.    *)
Together(seq) == /\ rx.in_progress /\ rx.total_len = tx.message.len
                 /\ rx.expected_seq = seq
TogetherInv ==
  ~lost =>
    /\ tx.step # "first" /\ wire # NoPacket => wire.of = tx.message
    /\ tx.step = "next" /\ wire = NoPacket => Together(tx.seq)
    /\ tx.step = "next" /\ wire.type = "INIT" => tx.seq = 0 /\ InitRoom < tx.message.len
    /\ tx.step = "next" /\ wire.type = "CONT" => tx.seq = wire.arg + 1 /\ Together(wire.arg)
    /\ tx.step = "idle" /\ wire.type = "INIT" => tx.message.len <= InitRoom
    /\ tx.step = "idle" /\ wire.type = "CONT" => /\ Together(wire.arg)
                                                 /\ tx.message.len <= Place(wire.arg + 1)

MissingInv == ReassemblyInv /\ TogetherInv /\ NothingIsMissing

-----------------------------------------------------------------------------
(* Arithmetic. *)
LEMMA Rooms == InitRoom \in Nat /\ InitRoom > 0 /\ ContRoom \in Nat /\ ContRoom = InitRoom + 2
BY SizeAssumption DEF InitRoom, ContRoom

LEMMA PlaceNext ==
  ASSUME NEW k \in Nat
  PROVE  /\ Place(k) \in Nat /\ Place(k) >= InitRoom
         /\ Place(k + 1) = Place(k) + ContRoom /\ Place(0) = InitRoom
PROOF
<1>1. k * ContRoom \in Nat /\ 0 * ContRoom = 0 BY Rooms
<1>2. (k + 1) * ContRoom = k * ContRoom + ContRoom BY Rooms
<1>. QED BY <1>1, <1>2, Rooms DEF Place

(* A continuation of a message has a number the packet can carry. *)
LEMMA PlaceBound ==
  ASSUME NEW k \in Nat, Place(k) < MaxLength
  PROVE  k < SeqNumbers /\ LowBits(k) = k /\ Incremented(k) = k + 1
PROOF
<1>1. k < SeqNumbers
  <2>1. SUFFICES ASSUME k >= SeqNumbers PROVE FALSE BY LengthAssumption
  <2>2. PICK d \in Nat : k = SeqNumbers + d
    <3>1. k - SeqNumbers \in Nat /\ k = SeqNumbers + (k - SeqNumbers) BY <2>1, LengthAssumption
    <3>. QED BY <3>1
  <2>3. k * ContRoom = SeqNumbers * ContRoom + d * ContRoom
    BY <2>2, LengthAssumption, Rooms
  <2>4. d * ContRoom \in Nat /\ SeqNumbers * ContRoom \in Nat BY LengthAssumption, Rooms
  <2>. QED BY <2>3, <2>4, Rooms, LengthAssumption DEF Place
<1>. QED BY <1>1, LengthAssumption DEF LowBits, Incremented

-----------------------------------------------------------------------------
(* What packets carry, and where it ends up. *)
LEMMA InitCarries ==
  ASSUME NEW m \in Message
  PROVE  /\ InitPacket(m).type = "INIT" /\ InitPacket(m).arg = m.len /\ InitPacket(m).of = m
         /\ \A i \in 0 .. InitRoom - 1 : InitPacket(m).data[i] \in Byte
         /\ \A i \in 0 .. Lower(m.len, InitRoom) - 1 : InitPacket(m).data[i] = [msg |-> m, at |-> i]
PROOF
<1>1. m.len \in 0 .. MaxLength /\ Zero \in Byte
  BY LengthAssumption, LimitAssumption DEF Message, Byte, Zero, NoMessage
<1>2. \A i \in 0 .. InitRoom - 1 :
        InitPacket(m).data[i] = IF i < Lower(m.len, InitRoom) THEN [msg |-> m, at |-> 0 + i] ELSE Zero
  BY DEF InitPacket, Filled
<1>3. \A i \in 0 .. Lower(m.len, InitRoom) - 1 :
        i \in 0 .. InitRoom - 1 /\ i < Lower(m.len, InitRoom) /\ i \in 0 .. MaxLength /\ 0 + i = i
  BY <1>1, Rooms, LengthAssumption DEF Lower
<1>4. \A i \in 0 .. InitRoom - 1 : InitPacket(m).data[i] \in Byte
  <2>1. TAKE i \in 0 .. InitRoom - 1
  <2>2. CASE i < Lower(m.len, InitRoom)
    <3>1. 0 + i \in 0 .. MaxLength BY <1>1, <2>2, Rooms, LengthAssumption DEF Lower
    <3>2. [msg |-> m, at |-> 0 + i] \in Byte BY <3>1 DEF Byte
    <3>. QED BY <1>2, <2>2, <3>2
  <2>3. CASE ~(i < Lower(m.len, InitRoom)) BY <1>1, <1>2, <2>3
  <2>. QED BY <2>2, <2>3
<1>5. \A i \in 0 .. Lower(m.len, InitRoom) - 1 : InitPacket(m).data[i] = [msg |-> m, at |-> i]
  BY <1>2, <1>3
<1>. QED BY <1>4, <1>5 DEF InitPacket

LEMMA ContCarries ==
  ASSUME NEW m \in Message, NEW from \in Nat, from < m.len, NEW seq
  PROVE  /\ ContPacket(m, from, seq).type = "CONT" /\ ContPacket(m, from, seq).arg = seq
         /\ ContPacket(m, from, seq).of = m
         /\ \A i \in 0 .. ContRoom - 1 : ContPacket(m, from, seq).data[i] \in Byte
         /\ \A i \in 0 .. Lower(m.len - from, ContRoom) - 1 :
               ContPacket(m, from, seq).data[i] = [msg |-> m, at |-> from + i]
PROOF
<1>. DEFINE n == Lower(m.len - from, ContRoom)
            data == ContPacket(m, from, seq).data
<1>1. m.len \in 0 .. MaxLength /\ Zero \in Byte
  BY LengthAssumption, LimitAssumption DEF Message, Byte, Zero, NoMessage
<1>2. \A i \in 0 .. ContRoom - 1 : data[i] = IF i < n THEN [msg |-> m, at |-> from + i] ELSE Zero
  BY DEF ContPacket, Filled
<1>3. n \in Nat /\ n <= ContRoom /\ from + n <= m.len
  BY <1>1, Rooms, LengthAssumption DEF Lower
<1>. HIDE DEF n, data
<1>4. \A i \in 0 .. ContRoom - 1 : data[i] \in Byte
  <2>1. TAKE i \in 0 .. ContRoom - 1
  <2>2. CASE i < n
    <3>1. from + i \in 0 .. MaxLength BY <1>1, <1>3, <2>2, Rooms, LengthAssumption
    <3>2. [msg |-> m, at |-> from + i] \in Byte BY <3>1 DEF Byte
    <3>. QED BY <1>2, <2>2, <3>2
  <2>3. CASE ~(i < n) BY <1>1, <1>2, <2>3
  <2>. QED BY <2>2, <2>3
<1>5. \A i \in 0 .. n - 1 : data[i] = [msg |-> m, at |-> from + i]
  BY <1>2, <1>3, Rooms
<1>. QED BY <1>4, <1>5 DEF ContPacket, n, data

LEMMA InMemory ==
  /\ \A i \in 0 .. MaxLength - 1 : i \in Memory
  /\ \A i \in Memory : i \in Nat
BY LengthAssumption, Rooms DEF Memory

LEMMA CopyKeepsType ==
  ASSUME NEW data, NEW to \in Nat, NEW n \in Nat, NEW room \in Nat, n <= room,
         \A i \in 0 .. room - 1 : data[i] \in Byte,
         payload \in [Memory -> Byte]
  PROVE  Copied(data, to, n) \in [Memory -> Byte]
PROOF
<1>1. ASSUME NEW i \in Memory
      PROVE  (IF to <= i /\ i < to + n THEN data[i - to] ELSE payload[i]) \in Byte
  <2>1. CASE to <= i /\ i < to + n
    <3>1. i - to \in 0 .. room - 1 BY <2>1, InMemory
    <3>. QED BY <2>1, <3>1
  <2>2. CASE ~(to <= i /\ i < to + n) BY <2>2
  <2>. QED BY <2>1, <2>2
<1>. QED BY <1>1 DEF Copied

-----------------------------------------------------------------------------
(* What the receiver makes of a packet. *)
RxType == [total_len : 0 .. MaxLength, received_len : 0 .. MaxLength,
           expected_seq : Nat, in_progress : BOOLEAN]

LEMMA WireKinds ==
  ASSUME ReassemblyInv
  PROVE  /\ wire = NoPacket <=> wire.type = "none"
         /\ wire.type = "INIT" => wire = InitPacket(wire.of)
         /\ wire.type = "CONT" => /\ wire.arg \in Nat /\ Place(wire.arg) < wire.of.len
                                 /\ wire = ContPacket(wire.of, Place(wire.arg), wire.arg)
         /\ wire.of \in Message
BY DEF ReassemblyInv, WireInv, FramingTypeOK, NoPacket, InitPacket, ContPacket

LEMMA MessageLength == ASSUME NEW m \in Message PROVE m.len \in Nat /\ m.len <= MaxLength
BY LengthAssumption DEF Message

LEMMA InitEffect ==
  ASSUME ReassemblyInv, HandleInit
  PROVE  /\ wire' = NoPacket /\ UNCHANGED <<tx, lost>> /\ wire.type = "INIT"
         /\ payload' \in [Memory -> Byte]
         /\ rx' \in RxType /\ rx'.total_len = wire.of.len /\ rx'.expected_seq = 0
         /\ rx'.received_len = Lower(wire.of.len, InitRoom)
         /\ \/ rx'.in_progress /\ InitRoom < wire.of.len /\ UNCHANGED <<ready, delivered>>
            \/ ~rx'.in_progress /\ wire.of.len <= InitRoom /\ ready' = TRUE /\ delivered' = wire.of.no
         /\ \A m \in Message : m = wire.of => Prefix(m)'
PROOF
<1>. DEFINE m == wire.of
            copy == Lower(m.len, InitRoom)
<1>1. wire.type = "INIT" /\ wire' = NoPacket /\ UNCHANGED <<tx, lost>> BY DEF HandleInit, Takes
<1>2. m \in Message /\ wire = InitPacket(m) BY <1>1, WireKinds
<1>3. /\ wire.arg = m.len
      /\ \A i \in 0 .. InitRoom - 1 : wire.data[i] \in Byte
      /\ \A i \in 0 .. copy - 1 : wire.data[i] = [msg |-> m, at |-> i]
  BY <1>2, InitCarries
<1>4. /\ payload' = Copied(wire.data, 0, copy)
      /\ Reaches([total_len |-> m.len, received_len |-> copy, expected_seq |-> 0, in_progress |-> TRUE])
  BY <1>3 DEF HandleInit
<1>5. m.len \in Nat /\ m.len <= MaxLength BY <1>2, MessageLength
<1>6. copy \in Nat /\ copy <= InitRoom /\ copy <= m.len /\ (copy >= m.len <=> ~(InitRoom < m.len))
  BY <1>5, Rooms DEF Lower
<1>7. payload \in [Memory -> Byte] BY DEF ReassemblyInv, FramingTypeOK
<1>8. payload' \in [Memory -> Byte] BY <1>3, <1>4, <1>6, <1>7, Rooms, CopyKeepsType
<1>. HIDE DEF copy
<1>9. /\ rx' \in RxType /\ rx'.total_len = m.len /\ rx'.expected_seq = 0 /\ rx'.received_len = copy
      /\ \/ rx'.in_progress /\ InitRoom < m.len /\ UNCHANGED <<ready, delivered>>
         \/ ~rx'.in_progress /\ m.len <= InitRoom /\ ready' = TRUE /\ delivered' = m.no
  <2>0. m.len \in 0 .. MaxLength /\ copy \in 0 .. MaxLength BY <1>5, <1>6, LengthAssumption
  <2>1. CASE copy < m.len
    <3>1. InitRoom < m.len /\ ~(copy >= m.len) BY <1>5, <1>6, <2>1
    <3>2. /\ rx' = [total_len |-> m.len, received_len |-> copy, expected_seq |-> 0, in_progress |-> TRUE]
          /\ UNCHANGED <<ready, delivered>>
      BY <1>4, <3>1 DEF Reaches
    <3>. QED BY <2>0, <3>1, <3>2 DEF RxType
  <2>2. CASE ~(copy < m.len)
    <3>1. m.len <= InitRoom BY <1>5, <1>6, <2>2, Rooms
    <3>2. /\ rx' = [total_len |-> m.len, received_len |-> copy, expected_seq |-> 0, in_progress |-> FALSE]
          /\ ready' = TRUE /\ delivered' = m.no
      BY <1>4, <2>2 DEF Reaches
    <3>. QED BY <2>0, <3>1, <3>2 DEF RxType
  <2>. QED BY <2>1, <2>2
<1>10. \A i \in 0 .. copy - 1 : payload'[i] = [msg |-> m, at |-> i]
  <2>1. TAKE i \in 0 .. copy - 1
  <2>2. i \in Memory /\ 0 <= i /\ i < 0 + copy /\ i - 0 = i
    <3>1. i \in 0 .. MaxLength - 1
      BY <1>5, <1>6, LengthAssumption
    <3>. QED BY <1>6, <3>1, InMemory
  <2>3. payload'[i] = wire.data[i] BY <1>4, <1>7, <2>2 DEF Copied
  <2>. QED BY <1>3, <2>3
<1>11. \A k \in 0 .. rx'.received_len - 1 : payload'[k] = [msg |-> m, at |-> k] BY <1>9, <1>10
<1>12. rx'.total_len = m.len BY <1>9
<1>13. \A w \in Message : w = wire.of => Prefix(w)' BY <1>11, <1>12 DEF Prefix
<1>. QED BY <1>1, <1>8, <1>9, <1>13 DEF copy

LEMMA ContEffect ==
  ASSUME ReassemblyInv, HandleContinuation
  PROVE  /\ wire' = NoPacket /\ UNCHANGED <<tx, lost>> /\ wire.type = "CONT" /\ rx.in_progress
         /\ wire.arg \in Nat /\ rx.expected_seq = wire.arg /\ rx.received_len = Place(wire.arg)
         /\ payload' \in [Memory -> Byte]
         /\ \A m \in Message : m = wire.of /\ Prefix(m) => Prefix(m)'
         /\ rx' \in RxType /\ rx'.total_len = rx.total_len /\ rx'.expected_seq = wire.arg + 1
         /\ \/ /\ rx'.in_progress /\ Place(wire.arg + 1) < rx.total_len
               /\ rx'.received_len = Place(wire.arg + 1)
               /\ UNCHANGED <<ready, delivered>>
            \/ /\ ~rx'.in_progress /\ rx.total_len <= Place(wire.arg + 1)
               /\ rx'.received_len = rx.total_len
               /\ ready' = TRUE /\ delivered' = wire.of.no
PROOF
<1>. DEFINE m == wire.of
            p == Place(wire.arg)
            copy == Lower(rx.total_len - p, ContRoom)
<1>1. /\ wire.type = "CONT" /\ wire' = NoPacket /\ UNCHANGED <<tx, lost>>
      /\ rx.in_progress /\ rx.expected_seq = wire.arg
  BY DEF HandleContinuation, Takes, Expected
<1>2. m \in Message /\ wire.arg \in Nat /\ p < m.len /\ wire = ContPacket(m, p, wire.arg)
  BY <1>1, WireKinds
<1>3. rx.received_len = p /\ p < rx.total_len BY <1>1 DEF ReassemblyInv, RxInv
<1>4. /\ rx.total_len \in Nat /\ rx.total_len <= MaxLength /\ m.len \in Nat /\ m.len <= MaxLength
      /\ rx = [total_len |-> rx.total_len, received_len |-> rx.received_len,
               expected_seq |-> rx.expected_seq, in_progress |-> rx.in_progress]
      /\ payload \in [Memory -> Byte]
  <2>1. m.len \in Nat /\ m.len <= MaxLength BY <1>2, MessageLength
  <2>. QED BY <2>1, LengthAssumption DEF ReassemblyInv, FramingTypeOK
<1>5. p \in Nat /\ Place(wire.arg + 1) = p + ContRoom BY <1>2, PlaceNext
<1>6. p < MaxLength BY <1>3, <1>4, <1>5, LengthAssumption
<1>7. Incremented(wire.arg) = wire.arg + 1 BY <1>2, <1>6, PlaceBound
<1>8. /\ \A i \in 0 .. ContRoom - 1 : wire.data[i] \in Byte
      /\ \A i \in 0 .. Lower(m.len - p, ContRoom) - 1 : wire.data[i] = [msg |-> m, at |-> p + i]
  BY <1>2, <1>5, ContCarries
<1>. HIDE DEF p
<1>9. /\ copy \in Nat /\ copy <= ContRoom /\ p + copy <= rx.total_len
      /\ p + copy < rx.total_len => copy = ContRoom
      /\ p + copy >= rx.total_len => rx.total_len <= p + ContRoom
  BY <1>3, <1>4, <1>5, Rooms DEF Lower
<1>10. /\ payload' = Copied(wire.data, p, copy)
       /\ Reaches([rx EXCEPT !.received_len = p + copy, !.expected_seq = wire.arg + 1])
  BY <1>1, <1>3, <1>7 DEF HandleContinuation
<1>11. payload' \in [Memory -> Byte]
  BY <1>4, <1>5, <1>8, <1>9, <1>10, Rooms, CopyKeepsType
<1>12. ASSUME NEW w \in Message, w = m, Prefix(w) PROVE Prefix(w)'
  <2>1. rx'.received_len = p + copy /\ rx'.total_len = rx.total_len
    BY <1>4, <1>10 DEF Reaches
  <2>2. rx.total_len = w.len BY <1>12 DEF Prefix
  <2>3. ASSUME NEW i \in 0 .. p + copy - 1 PROVE payload'[i] = [msg |-> w, at |-> i]
    <3>1. i \in Memory
      <4>1. i \in 0 .. MaxLength - 1 BY <1>4, <1>5, <1>9, LengthAssumption
      <4>. QED BY <4>1, InMemory
    <3>2. payload'[i] = IF p <= i /\ i < p + copy THEN wire.data[i - p] ELSE payload[i]
      BY <1>4, <1>10, <3>1 DEF Copied
    <3>3. CASE i < p
      <4>1. i \in 0 .. rx.received_len - 1 BY <1>3, <1>5, <3>3
      <4>2. payload[i] = [msg |-> w, at |-> i] BY <1>12, <4>1 DEF Prefix
      <4>3. ~(p <= i) BY <1>5, <3>3
      <4>. QED BY <3>2, <4>2, <4>3
    <3>4. CASE p <= i
      <4>1. i - p \in 0 .. copy - 1 /\ i < p + copy /\ p + (i - p) = i BY <1>5, <1>9, <3>4
      <4>2. copy = Lower(m.len - p, ContRoom) BY <1>12, <2>2
      <4>3. wire.data[i - p] = [msg |-> m, at |-> p + (i - p)] BY <1>8, <4>1, <4>2
      <4>. QED BY <1>12, <3>2, <3>4, <4>1, <4>3
    <3>. QED BY <1>5, <3>3, <3>4
  <2>. HIDE DEF copy
  <2>4. \A i \in 0 .. rx'.received_len - 1 : payload'[i] = [msg |-> w, at |-> i] BY <1>5, <1>9, <2>1, <2>3
  <2>5. rx'.total_len = w.len BY <2>1, <2>2
  <2>. QED BY <2>4, <2>5 DEF Prefix
<1>. HIDE DEF copy
<1>13. /\ rx' \in RxType /\ rx'.total_len = rx.total_len /\ rx'.expected_seq = wire.arg + 1
       /\ \/ /\ rx'.in_progress /\ p + ContRoom < rx.total_len
             /\ rx'.received_len = p + ContRoom
             /\ UNCHANGED <<ready, delivered>>
          \/ /\ ~rx'.in_progress /\ rx.total_len <= p + ContRoom
             /\ rx'.received_len = rx.total_len
             /\ ready' = TRUE /\ delivered' = m.no
  <2>0. /\ rx.total_len \in 0 .. MaxLength /\ p + copy \in 0 .. MaxLength
        /\ wire.arg + 1 \in Nat
    BY <1>2, <1>4, <1>5, <1>9, LengthAssumption
  <2>1. CASE p + copy < rx.total_len
    <3>1. ~(p + copy >= rx.total_len) /\ copy = ContRoom BY <1>4, <1>5, <1>9, <2>1
    <3>2. /\ rx' = [total_len |-> rx.total_len, received_len |-> p + copy,
                    expected_seq |-> wire.arg + 1, in_progress |-> TRUE]
          /\ UNCHANGED <<ready, delivered>>
      BY <1>4, <1>10, <3>1 DEF Reaches
    <3>3. rx' \in RxType BY <2>0, <3>2 DEF RxType
    <3>. QED BY <2>1, <3>1, <3>2, <3>3
  <2>2. CASE ~(p + copy < rx.total_len)
    <3>1. p + copy = rx.total_len /\ rx.total_len <= p + ContRoom BY <1>4, <1>5, <1>9, <2>2
    <3>2. /\ rx' = [total_len |-> rx.total_len, received_len |-> p + copy,
                    expected_seq |-> wire.arg + 1, in_progress |-> FALSE]
          /\ ready' = TRUE /\ delivered' = m.no
      BY <1>4, <1>10, <2>2 DEF Reaches
    <3>3. rx' \in RxType BY <2>0, <3>2 DEF RxType
    <3>. QED BY <3>1, <3>2, <3>3
  <2>. QED BY <2>1, <2>2
<1>14. \A w \in Message : w = wire.of /\ Prefix(w) => Prefix(w)' BY <1>12
<1>. QED BY <1>1, <1>2, <1>3, <1>5, <1>11, <1>13, <1>14 DEF copy, p

-----------------------------------------------------------------------------
(* What the sender makes of a message. *)
TxType == [step : {"idle", "first", "next"}, message : Message, offset : 0 .. MaxLength, seq : Nat]

LEMMA SendFirstEffect ==
  ASSUME ReassemblyInv, SendFirst
  PROVE  /\ tx.step = "first" /\ wire = NoPacket /\ UNCHANGED <<rx, payload, ready, lost, delivered>>
         /\ wire' = InitPacket(tx.message) /\ tx.message \in Message
         /\ tx' \in TxType /\ tx'.message = tx.message /\ tx'.seq = 0
         /\ \/ tx'.step = "next" /\ tx'.offset = InitRoom /\ InitRoom < tx.message.len
            \/ tx'.step = "idle" /\ tx.message.len <= InitRoom
PROOF
<1>. DEFINE m == tx.message
            chunk == Lower(m.len, InitRoom)
<1>1. /\ tx.step = "first" /\ wire = NoPacket /\ UNCHANGED <<rx, payload, ready, lost, delivered>>
      /\ wire' = InitPacket(m)
      /\ tx' = [tx EXCEPT !.offset = chunk, !.step = IF chunk < m.len THEN "next" ELSE "idle"]
  BY DEF SendFirst
<1>2. tx \in TxType /\ m \in Message /\ tx.seq = 0
  BY <1>1 DEF ReassemblyInv, FramingTypeOK, TxInv, TxType
<1>3. m.len \in Nat /\ m.len <= MaxLength BY <1>2, MessageLength
<1>4. /\ chunk \in 0 .. MaxLength
      /\ chunk < m.len => chunk = InitRoom
      /\ ~(chunk < m.len) => m.len <= InitRoom
  BY <1>3, Rooms, LengthAssumption DEF Lower
<1>. HIDE DEF chunk
<1>5. CASE chunk < m.len
  <2>1. tx' = [tx EXCEPT !.offset = chunk, !.step = "next"] BY <1>1, <1>5
  <2>. QED BY <1>1, <1>2, <1>4, <1>5, <2>1 DEF TxType
<1>6. CASE ~(chunk < m.len)
  <2>1. tx' = [tx EXCEPT !.offset = chunk, !.step = "idle"] BY <1>1, <1>6
  <2>. QED BY <1>1, <1>2, <1>4, <1>6, <2>1 DEF TxType
<1>. QED BY <1>5, <1>6

LEMMA SendNextEffect ==
  ASSUME ReassemblyInv, SendNext
  PROVE  /\ tx.step = "next" /\ wire = NoPacket /\ UNCHANGED <<rx, payload, ready, lost, delivered>>
         /\ wire' = ContPacket(tx.message, Place(tx.seq), tx.seq) /\ tx.message \in Message
         /\ tx.seq \in Nat /\ Place(tx.seq) < tx.message.len
         /\ tx' \in TxType /\ tx'.message = tx.message /\ tx'.seq = tx.seq + 1
         /\ \/ /\ tx'.step = "next" /\ tx'.offset = Place(tx.seq + 1)
               /\ Place(tx.seq + 1) < tx.message.len
            \/ tx'.step = "idle" /\ tx.message.len <= Place(tx.seq + 1)
PROOF
<1>. DEFINE m == tx.message
            offset == tx.offset + Lower(m.len - tx.offset, ContRoom)
<1>1. /\ tx.step = "next" /\ wire = NoPacket /\ UNCHANGED <<rx, payload, ready, lost, delivered>>
      /\ wire' = ContPacket(m, tx.offset, LowBits(tx.seq))
      /\ tx' = [tx EXCEPT !.offset = offset, !.seq = Incremented(@),
                          !.step = IF offset < m.len THEN "next" ELSE "idle"]
  BY DEF SendNext
<1>2. /\ tx \in TxType /\ m \in Message /\ tx.seq \in Nat /\ tx.offset \in 0 .. MaxLength
      /\ tx.offset = Place(tx.seq) /\ tx.offset < m.len
  BY <1>1 DEF ReassemblyInv, FramingTypeOK, TxInv, TxType
<1>3. m.len \in Nat /\ m.len <= MaxLength BY <1>2, MessageLength
<1>4. tx.seq \in Nat /\ Place(tx.seq) \in Nat /\ Place(tx.seq + 1) = Place(tx.seq) + ContRoom
  BY <1>2, PlaceNext
<1>5. LowBits(tx.seq) = tx.seq /\ Incremented(tx.seq) = tx.seq + 1
  BY <1>2, <1>3, <1>4, LengthAssumption, PlaceBound
<1>6. /\ offset \in 0 .. MaxLength
      /\ offset < m.len => offset = Place(tx.seq + 1)
      /\ ~(offset < m.len) => m.len <= Place(tx.seq + 1)
  BY <1>2, <1>3, <1>4, Rooms, LengthAssumption DEF Lower
<1>. HIDE DEF offset
<1>7. \E step \in {"next", "idle"} :
        /\ tx' = [tx EXCEPT !.offset = offset, !.seq = tx.seq + 1, !.step = step]
        /\ step = "next" <=> offset < m.len
  BY <1>1, <1>5
<1>8. PICK step \in {"next", "idle"} :
        /\ tx' = [tx EXCEPT !.offset = offset, !.seq = tx.seq + 1, !.step = step]
        /\ step = "next" <=> offset < m.len
  BY <1>7
<1>9. /\ tx' \in TxType /\ tx'.message = m /\ tx'.seq = tx.seq + 1
      /\ tx'.step = step /\ tx'.offset = offset
  <2>1. tx.seq + 1 \in Nat BY <1>2
  <2>. QED BY <1>2, <1>6, <1>8, <2>1 DEF TxType
<1>10. \/ tx'.step = "next" /\ tx'.offset = Place(tx.seq + 1) /\ Place(tx.seq + 1) < m.len
       \/ tx'.step = "idle" /\ m.len <= Place(tx.seq + 1)
  BY <1>6, <1>8, <1>9
<1>11. wire' = ContPacket(m, Place(tx.seq), tx.seq) BY <1>1, <1>2, <1>5
<1>. QED BY <1>1, <1>2, <1>9, <1>10, <1>11

-----------------------------------------------------------------------------
(* The arithmetic of both sides is kept, whatever gets lost. *)
LEMMA TypeParts ==
  FramingTypeOK <=>
    /\ tx \in TxType /\ rx \in RxType /\ rx.received_len <= rx.total_len
    /\ payload \in [Memory -> Byte]
    /\ wire.type \in {"none", "INIT", "CONT"} /\ wire.of \in Message
    /\ ready \in BOOLEAN /\ lost \in BOOLEAN /\ delivered \in 0 .. MaxMessages
BY DEF FramingTypeOK, TxType, RxType

LEMMA NothingOnTheWire ==
  /\ NoPacket.type = "none" /\ NoPacket.of \in Message
BY LengthAssumption, LimitAssumption DEF NoPacket, NoMessage, Message

LEMMA SenderKeeps ==
  ASSUME ReassemblyInv, (\E n \in 0 .. MaxLength : Start(n)) \/ SendFirst \/ SendNext \/ GiveUp
  PROVE  ReassemblyInv'
PROOF
<1>. USE DEF ReassemblyInv
<1>1. FramingTypeOK' /\ TxInv' /\ WireInv' /\ UNCHANGED rx
  <2>1. CASE \E n \in 0 .. MaxLength : Start(n)
    <3>1. PICK n \in 0 .. MaxLength : Start(n) BY <2>1
    <3>2. /\ tx.message.no \in 0 .. MaxMessages /\ tx.message.no < MaxMessages
          /\ tx' = [step |-> "first", message |-> [no |-> tx.message.no + 1, len |-> n],
                    offset |-> 0, seq |-> 0]
          /\ lost' = FALSE /\ UNCHANGED <<wire, rx, payload, ready, delivered>>
      BY <3>1, TypeParts DEF Start, TxType, Message
    <3>3. [no |-> tx.message.no + 1, len |-> n] \in Message /\ 0 \in 0 .. MaxLength
      BY <3>2, LimitAssumption, LengthAssumption DEF Message
    <3>4. tx' \in TxType BY <3>2, <3>3 DEF TxType
    <3>5. FramingTypeOK' BY <3>2, <3>4 DEF FramingTypeOK, TxType
    <3>. QED BY <3>2, <3>5 DEF TxInv, WireInv
  <2>2. CASE SendFirst
    <3>1. wire'.type = "INIT" /\ wire'.of = tx.message BY <2>2, SendFirstEffect, InitCarries
    <3>2. WireInv' BY <2>2, <3>1, SendFirstEffect DEF WireInv
    <3>3. TxInv' BY <2>2, SendFirstEffect, PlaceNext DEF TxInv
    <3>4. FramingTypeOK' BY <2>2, <3>1, SendFirstEffect DEF FramingTypeOK, TxType
    <3>. QED BY <2>2, <3>2, <3>3, <3>4, SendFirstEffect
  <2>3. CASE SendNext
    <3>1. wire'.type = "CONT" /\ wire'.of = tx.message /\ wire'.arg = tx.seq
      BY <2>3, SendNextEffect, ContCarries, PlaceNext
    <3>2. WireInv' BY <2>3, <3>1, SendNextEffect DEF WireInv
    <3>3. TxInv' BY <2>3, SendNextEffect DEF TxInv
    <3>4. FramingTypeOK' BY <2>3, <3>1, SendNextEffect DEF FramingTypeOK, TxType
    <3>. QED BY <2>3, <3>2, <3>3, <3>4, SendNextEffect
  <2>4. CASE GiveUp
    <3>1. tx' = [tx EXCEPT !.step = "idle"] /\ lost' = TRUE
          /\ UNCHANGED <<wire, rx, payload, ready, delivered>>
      BY <2>4 DEF GiveUp
    <3>2. tx' \in TxType /\ tx'.step = "idle" BY <3>1, TypeParts DEF TxType
    <3>3. FramingTypeOK' BY <3>1, <3>2 DEF FramingTypeOK, TxType
    <3>. QED BY <3>1, <3>2, <3>3 DEF TxInv, WireInv
  <2>. QED BY <2>1, <2>2, <2>3, <2>4
<1>. QED BY <1>1 DEF RxInv

LEMMA ReceiverKeeps ==
  ASSUME ReassemblyInv, Lose \/ HandleInit \/ HandleContinuation \/ HandleUnexpected \/ Process
  PROVE  ReassemblyInv'
PROOF
<1>. USE DEF ReassemblyInv
<1>1. FramingTypeOK' /\ RxInv' /\ WireInv' /\ UNCHANGED tx
  <2>1. CASE Lose
    <3>1. wire' = NoPacket /\ lost' = TRUE /\ UNCHANGED <<tx, rx, payload, ready, delivered>>
      BY <2>1 DEF Lose
    <3>. QED BY <3>1, NothingOnTheWire DEF FramingTypeOK, WireInv, RxInv
  <2>2. CASE HandleInit
    <3>1. wire.of \in Message /\ wire.of.len \in Nat /\ wire.of.len <= MaxLength
          /\ wire.of.no \in 0 .. MaxMessages
      BY WireKinds, MessageLength DEF Message
    <3>3. RxInv'
      <4>1. CASE ~rx'.in_progress BY <4>1 DEF RxInv
      <4>2. CASE rx'.in_progress
        <5>1. InitRoom < wire.of.len /\ rx'.received_len = Lower(wire.of.len, InitRoom)
              /\ rx'.expected_seq = 0 /\ rx'.total_len = wire.of.len
          BY <2>2, <4>2, InitEffect
        <5>. QED BY <3>1, <5>1, Rooms, PlaceNext DEF RxInv, Lower
      <4>. QED BY <4>1, <4>2
    <3>2. rx'.received_len <= rx'.total_len BY <2>2, <3>1, InitEffect, Rooms DEF Lower
    <3>4. ready' \in BOOLEAN /\ delivered' \in 0 .. MaxMessages
      BY <2>2, <3>1, InitEffect DEF FramingTypeOK
    <3>. QED BY <2>2, <3>2, <3>3, <3>4, InitEffect, NothingOnTheWire DEF FramingTypeOK, RxType, WireInv
  <2>3. CASE HandleContinuation
    <3>1. wire.of.no \in 0 .. MaxMessages /\ rx \in RxType
      BY WireKinds, TypeParts DEF Message
    <3>3. RxInv' BY <2>3, ContEffect DEF RxInv
    <3>2. rx'.received_len <= rx'.total_len
      <4>1. /\ rx'.received_len \in Nat /\ rx.total_len \in Nat /\ rx'.total_len = rx.total_len
        <5>1. rx' \in RxType /\ rx'.total_len = rx.total_len BY <2>3, ContEffect
        <5>. QED BY <3>1, <5>1, LengthAssumption DEF RxType
      <4>2. \/ Place(wire.arg + 1) < rx.total_len /\ rx'.received_len = Place(wire.arg + 1)
            \/ rx'.received_len = rx.total_len
        BY <2>3, ContEffect
      <4>. QED BY <4>1, <4>2
    <3>4. ready' \in BOOLEAN /\ delivered' \in 0 .. MaxMessages
      BY <2>3, <3>1, ContEffect DEF FramingTypeOK
    <3>. QED BY <2>3, <3>2, <3>3, <3>4, ContEffect, NothingOnTheWire DEF FramingTypeOK, RxType, WireInv
  <2>4. CASE HandleUnexpected
    <3>1. /\ wire' = NoPacket /\ rx' = [rx EXCEPT !.in_progress = FALSE]
          /\ UNCHANGED <<tx, lost, payload, ready, delivered>>
      BY <2>4 DEF HandleUnexpected, Takes
    <3>2. rx' \in RxType /\ ~rx'.in_progress BY <3>1, TypeParts DEF RxType
    <3>. QED BY <3>1, <3>2, NothingOnTheWire DEF FramingTypeOK, RxType, WireInv, RxInv
  <2>5. CASE Process
    <3>1. ready' = FALSE /\ UNCHANGED <<tx, wire, rx, payload, lost, delivered>> BY <2>5 DEF Process
    <3>. QED BY <3>1 DEF FramingTypeOK, WireInv, RxInv
  <2>. QED BY <2>1, <2>2, <2>3, <2>4, <2>5
<1>. QED BY <1>1 DEF TxInv

LEMMA ReassemblyNext == ASSUME ReassemblyInv, [FramingNext]_framingVars PROVE ReassemblyInv'
PROOF
<1>1. CASE UNCHANGED framingVars
  BY <1>1 DEF framingVars, ReassemblyInv, FramingTypeOK, TxInv, WireInv, RxInv
<1>. QED BY <1>1, SenderKeeps, ReceiverKeeps DEF FramingNext

-----------------------------------------------------------------------------
(* No packet of one message is joined to another. *)
LEMMA CurrentSender ==
  ASSUME ReassemblyInv, CurrentInv,
         (\E n \in 0 .. MaxLength : Start(n)) \/ SendFirst \/ SendNext \/ GiveUp
  PROVE  CurrentInv'
PROOF
<1>0. wire = NoPacket <=> wire.type = "none" BY WireKinds
<1>1. CASE \E n \in 0 .. MaxLength : Start(n)
  <2>1. tx'.step = "first" /\ UNCHANGED <<wire, rx, payload>> BY <1>1 DEF Start
  <2>. QED BY <2>1 DEF CurrentInv, Prefix
<1>2. CASE SendFirst
  <2>1. wire'.type = "INIT" /\ wire'.of = tx.message /\ tx'.message = tx.message
    BY <1>2, SendFirstEffect, InitCarries
  <2>2. wire' # NoPacket BY <2>1, NothingOnTheWire
  <2>. QED BY <2>1, <2>2 DEF CurrentInv
<1>3. CASE SendNext
  <2>1. /\ wire'.type = "CONT" /\ wire'.of = tx.message /\ tx'.message = tx.message
        /\ tx.step = "next" /\ wire = NoPacket /\ UNCHANGED <<rx, payload>>
    BY <1>3, SendNextEffect, ContCarries, PlaceNext
  <2>2. wire' # NoPacket BY <2>1, NothingOnTheWire
  <2>. QED BY <2>1, <2>2 DEF CurrentInv, Prefix
<1>4. CASE GiveUp
  <2>1. tx' = [tx EXCEPT !.step = "idle"] /\ UNCHANGED <<wire, rx, payload>> BY <1>4 DEF GiveUp
  <2>2. tx'.step = "idle" BY <2>1, TypeParts DEF ReassemblyInv, TxType
  <2>. QED BY <2>1, <2>2 DEF CurrentInv, Prefix
<1>. QED BY <1>1, <1>2, <1>3, <1>4

LEMMA CurrentReceiver ==
  ASSUME ReassemblyInv, CurrentInv, ~LoseInitMidway,
         Lose \/ HandleInit \/ HandleContinuation \/ HandleUnexpected \/ Process
  PROVE  CurrentInv'
PROOF
<1>0. /\ wire = NoPacket <=> wire.type = "none"
      /\ wire.of \in Message /\ NoPacket.type = "none"
  BY WireKinds, NothingOnTheWire
<1>1. CASE Lose
  <2>1. wire # NoPacket /\ wire' = NoPacket /\ UNCHANGED <<tx, rx, payload>> BY <1>1 DEF Lose
  <2>2. rx.in_progress => wire.type = "CONT"
    BY <1>0, <1>1 DEF Lose, ReassemblyInv, FramingTypeOK
  <2>. QED BY <1>0, <2>1, <2>2 DEF CurrentInv, Prefix
<1>2. CASE HandleInit
  <2>1. wire.type = "INIT" /\ wire' = NoPacket /\ tx' = tx BY <1>2, InitEffect
  <2>2. \A m \in Message : m = wire.of => Prefix(m)' BY <1>2, InitEffect
  <2>3. tx.step = "next" => tx.message = wire.of BY <1>0, <2>1 DEF CurrentInv
  <2>. QED BY <1>0, <2>1, <2>2, <2>3 DEF CurrentInv, Prefix
<1>3. CASE HandleContinuation
  <2>1. wire.type = "CONT" /\ wire' = NoPacket /\ tx' = tx /\ rx.in_progress BY <1>3, ContEffect
  <2>2. \A m \in Message : m = wire.of /\ Prefix(m) => Prefix(m)' BY <1>3, ContEffect
  <2>3. tx.step = "next" => tx.message = wire.of BY <1>0, <2>1 DEF CurrentInv
  <2>4. Prefix(wire.of) BY <2>1 DEF CurrentInv
  <2>. QED BY <1>0, <2>1, <2>2, <2>3, <2>4 DEF CurrentInv, Prefix
<1>4. CASE HandleUnexpected
  <2>1. wire' = NoPacket /\ tx' = tx /\ rx' = [rx EXCEPT !.in_progress = FALSE]
    BY <1>4 DEF HandleUnexpected, Takes
  <2>2. ~rx'.in_progress BY <2>1, TypeParts DEF ReassemblyInv, RxType
  <2>. QED BY <2>1, <2>2 DEF CurrentInv
<1>5. CASE Process
  <2>1. UNCHANGED <<tx, wire, rx, payload>> BY <1>5 DEF Process
  <2>. QED BY <2>1 DEF CurrentInv, Prefix
<1>. QED BY <1>1, <1>2, <1>3, <1>4, <1>5

LEMMA WholeKeeps ==
  ASSUME ReassemblyInv, CurrentInv, WholeMessage, [FramingNext]_framingVars
  PROVE  WholeMessage'
PROOF
<1>1. CASE UNCHANGED <<rx, payload, ready>> BY <1>1 DEF WholeMessage
<1>2. CASE HandleInit
  <2>1. PICK m \in Message : m = wire.of BY WireKinds
  <2>2. Prefix(m)' BY <1>2, <2>1, InitEffect
  <2>3. CASE rx'.in_progress
    <3>1. ~ready BY <1>2 DEF HandleInit, Takes
    <3>. QED BY <1>2, <2>3, <3>1, InitEffect DEF WholeMessage
  <2>4. CASE ~rx'.in_progress
    <3>1. m.len \in Nat /\ m.len <= InitRoom BY <1>2, <2>1, <2>4, InitEffect, MessageLength
    <3>2. rx'.received_len = Lower(m.len, InitRoom) BY <1>2, <2>1, InitEffect
    <3>3. rx'.received_len = m.len BY <3>1, <3>2, Rooms DEF Lower
    <3>. QED BY <2>2, <3>3 DEF WholeMessage, Prefix
  <2>. QED BY <2>3, <2>4
<1>3. CASE HandleContinuation
  <2>1. PICK m \in Message : m = wire.of BY WireKinds
  <2>2. rx.in_progress /\ wire.type = "CONT" BY <1>3, ContEffect
  <2>3. Prefix(m) BY <2>1, <2>2 DEF CurrentInv
  <2>4. Prefix(m)' BY <1>3, <2>1, <2>3, ContEffect
  <2>5. CASE rx'.in_progress
    <3>1. ~ready BY <1>3 DEF HandleContinuation, Takes
    <3>. QED BY <1>3, <2>5, <3>1, ContEffect DEF WholeMessage
  <2>6. CASE ~rx'.in_progress
    <3>1. rx'.received_len = rx'.total_len BY <1>3, <2>6, ContEffect
    <3>2. rx'.received_len = m.len BY <2>4, <3>1 DEF Prefix
    <3>. QED BY <2>4, <3>2 DEF WholeMessage, Prefix
  <2>. QED BY <2>5, <2>6
<1>4. CASE HandleUnexpected
  <2>1. ~ready /\ ready' = ready BY <1>4 DEF HandleUnexpected, Takes
  <2>. QED BY <2>1 DEF WholeMessage
<1>5. CASE Process BY <1>5 DEF Process, WholeMessage
<1>. QED
  BY <1>1, <1>2, <1>3, <1>4, <1>5
  DEF FramingNext, Start, SendFirst, SendNext, GiveUp, Lose, framingVars
LEMMA CurrentNext ==
  ASSUME ReassemblyInv, CurrentInv, ~LoseInitMidway, [FramingNext]_framingVars
  PROVE  CurrentInv'
PROOF
<1>1. CASE UNCHANGED framingVars BY <1>1 DEF framingVars, CurrentInv, Prefix
<1>. QED BY <1>1, CurrentSender, CurrentReceiver DEF FramingNext

(* As long as nothing got lost each continuation is the one waited for.    *)
LEMMA TogetherSender ==
  ASSUME ReassemblyInv, TogetherInv, NothingIsMissing,
         (\E n \in 0 .. MaxLength : Start(n)) \/ SendFirst \/ SendNext \/ GiveUp
  PROVE  TogetherInv'
PROOF
<1>0. /\ wire = NoPacket <=> wire.type = "none"
      /\ tx \in TxType /\ NoPacket.type = "none"
  BY WireKinds, NothingOnTheWire, TypeParts DEF ReassemblyInv
<1>1. CASE \E n \in 0 .. MaxLength : Start(n)
  <2>1. tx'.step = "first" BY <1>1 DEF Start
  <2>. QED BY <2>1 DEF TogetherInv
<1>2. CASE SendFirst
  <2>1. wire'.type = "INIT" /\ wire'.of = tx.message /\ tx'.message = tx.message /\ tx'.seq = 0
    BY <1>2, SendFirstEffect, InitCarries
  <2>2. wire' # NoPacket BY <2>1, NothingOnTheWire
  <2>. QED BY <1>2, <2>1, <2>2, SendFirstEffect DEF TogetherInv
<1>3. CASE SendNext
  <2>1. /\ wire'.type = "CONT" /\ wire'.of = tx.message /\ wire'.arg = tx.seq
        /\ tx'.message = tx.message /\ tx'.seq = tx.seq + 1 /\ UNCHANGED <<rx, lost>>
        /\ tx.step = "next" /\ wire = NoPacket
    BY <1>3, SendNextEffect, ContCarries, PlaceNext
  <2>2. wire' # NoPacket BY <2>1, NothingOnTheWire
  <2>3. ~lost => Together(tx.seq) BY <2>1 DEF TogetherInv
  <2>4. ~lost' => Together(wire.arg)' BY <2>1, <2>3 DEF Together
  <2>5. tx'.step = "idle" => tx'.message.len <= Place(wire'.arg + 1) BY <1>3, <2>1, SendNextEffect
  <2>. QED BY <2>1, <2>2, <2>4, <2>5 DEF TogetherInv
<1>4. CASE GiveUp BY <1>4 DEF GiveUp, TogetherInv
<1>. QED BY <1>1, <1>2, <1>3, <1>4

LEMMA TogetherReceiver ==
  ASSUME ReassemblyInv, TogetherInv, NothingIsMissing,
         Lose \/ HandleInit \/ HandleContinuation \/ HandleUnexpected \/ Process
  PROVE  TogetherInv' /\ NothingIsMissing'
PROOF
<1>0. /\ wire = NoPacket <=> wire.type = "none"
      /\ wire.of \in Message /\ NoPacket.type = "none"
      /\ tx \in TxType /\ tx.message.len \in Nat
  BY WireKinds, NothingOnTheWire, TypeParts, MessageLength DEF ReassemblyInv, TxType
<1>1. CASE Lose BY <1>1 DEF Lose, TogetherInv, NothingIsMissing
<1>2. CASE HandleInit
  <2>1. wire.type = "INIT" /\ wire' = NoPacket /\ UNCHANGED <<tx, lost>> BY <1>2, InitEffect
  <2>2. ~lost /\ tx.step # "first" => wire.of = tx.message BY <1>0, <2>1 DEF TogetherInv
  <2>3. ~lost /\ tx.step = "next" => tx.seq = 0 /\ InitRoom < tx.message.len
    BY <2>1 DEF TogetherInv
  <2>4. ~lost /\ tx.step = "idle" => tx.message.len <= InitRoom
    BY <2>1 DEF TogetherInv
  <2>5. \/ rx'.in_progress /\ InitRoom < wire.of.len
        \/ ~rx'.in_progress /\ wire.of.len <= InitRoom /\ delivered' = wire.of.no
    BY <1>2, InitEffect
  <2>6. ~lost /\ tx.step = "next" => rx'.in_progress /\ tx.seq = 0
    BY <1>0, <2>2, <2>3, <2>5, Rooms
  <2>7. ~lost /\ tx.step = "idle" => ~rx'.in_progress
    BY <1>0, <2>2, <2>4, <2>5, Rooms
  <2>8. ~lost /\ tx.step = "next" => Together(tx.seq)'
    BY <1>2, <2>1, <2>2, <2>6, InitEffect DEF Together
  <2>9. ~lost /\ tx.step = "idle" => delivered' = tx.message.no
    BY <2>2, <2>7, <2>5
  <2>. QED BY <1>0, <2>1, <2>8, <2>9 DEF TogetherInv, NothingIsMissing
<1>3. CASE HandleContinuation
  <2>1. /\ wire.type = "CONT" /\ wire' = NoPacket /\ UNCHANGED <<tx, lost>>
        /\ wire.arg \in Nat /\ Place(wire.arg + 1) \in Nat
    <3>1. /\ wire.type = "CONT" /\ wire' = NoPacket /\ UNCHANGED <<tx, lost>>
          /\ wire.arg \in Nat
      BY <1>3, ContEffect
    <3>. QED BY <3>1, PlaceNext
  <2>2. ~lost /\ tx.step # "first" => wire.of = tx.message BY <1>0, <2>1 DEF TogetherInv
  <2>3. ~lost /\ tx.step \in {"next", "idle"} => rx.total_len = tx.message.len
    BY <2>1 DEF TogetherInv, Together
  <2>4. ~lost /\ tx.step = "next" => Place(wire.arg + 1) < tx.message.len /\ tx.seq = wire.arg + 1
    <3>1. tx.step = "next" => tx.offset = Place(tx.seq) /\ tx.offset < tx.message.len
      BY DEF ReassemblyInv, TxInv
    <3>2. ~lost /\ tx.step = "next" => tx.seq = wire.arg + 1 BY <2>1 DEF TogetherInv
    <3>. QED BY <3>1, <3>2
  <2>5. ~lost /\ tx.step = "idle" => tx.message.len <= Place(wire.arg + 1)
    BY <2>1 DEF TogetherInv
  <2>6. \/ rx'.in_progress /\ Place(wire.arg + 1) < rx.total_len
        \/ ~rx'.in_progress /\ rx.total_len <= Place(wire.arg + 1) /\ delivered' = wire.of.no
    BY <1>3, ContEffect
  <2>7. rx'.total_len = rx.total_len /\ rx'.expected_seq = wire.arg + 1 BY <1>3, ContEffect
  <2>8. ~lost /\ tx.step = "next" => Together(tx.seq)'
    <3>1. SUFFICES ASSUME ~lost, tx.step = "next" PROVE Together(tx.seq)' OBVIOUS
    <3>2. rx'.in_progress BY <1>0, <2>1, <2>3, <2>4, <2>6, <3>1
    <3>. QED BY <2>1, <2>3, <2>4, <2>7, <3>1, <3>2 DEF Together
  <2>9. ~lost /\ tx.step = "idle" => delivered' = tx.message.no
    <3>1. tx.step = "idle" => tx.step # "first" OBVIOUS
    <3>2. ~lost /\ tx.step = "idle" => ~(Place(wire.arg + 1) < rx.total_len)
      BY <1>0, <2>1, <2>3, <2>5
    <3>. QED BY <2>2, <2>6, <3>1, <3>2
  <2>. QED BY <1>0, <2>1, <2>8, <2>9 DEF TogetherInv, NothingIsMissing
<1>4. CASE HandleUnexpected
  <2>1. wire.type = "CONT" /\ ~Expected /\ wire' = NoPacket /\ UNCHANGED <<tx, lost>>
    BY <1>4 DEF HandleUnexpected, Takes
  <2>2. ~lost /\ tx.step \in {"next", "idle"} => Together(wire.arg) BY <2>1 DEF TogetherInv
  <2>3. Together(wire.arg) => Expected BY DEF Together, Expected
  <2>4. lost \/ tx.step = "first" BY <1>0, <2>1, <2>2, <2>3 DEF TxType
  <2>. QED BY <2>1, <2>4 DEF TogetherInv, NothingIsMissing
<1>5. CASE Process BY <1>5 DEF Process, TogetherInv, Together, NothingIsMissing
<1>. QED BY <1>1, <1>2, <1>3, <1>4, <1>5

LEMMA MissingNext ==
  ASSUME ReassemblyInv, TogetherInv, NothingIsMissing, [FramingNext]_framingVars
  PROVE  TogetherInv' /\ NothingIsMissing'
PROOF
<1>1. CASE UNCHANGED framingVars
  BY <1>1 DEF framingVars, TogetherInv, Together, NothingIsMissing
<1>2. CASE (\E n \in 0 .. MaxLength : Start(n)) \/ SendFirst \/ SendNext \/ GiveUp
  <2>1. TogetherInv' BY <1>2, TogetherSender
  <2>2. CASE \E n \in 0 .. MaxLength : Start(n)
    <3>1. tx'.step = "first" BY <2>2 DEF Start
    <3>. QED BY <2>1, <3>1 DEF NothingIsMissing
  <2>3. CASE SendFirst
    <3>1. wire'.type = "INIT" BY <2>3, SendFirstEffect, InitCarries
    <3>. QED BY <2>1, <3>1, NothingOnTheWire DEF NothingIsMissing
  <2>4. CASE SendNext
    <3>1. wire'.type = "CONT" BY <2>4, SendNextEffect, ContCarries, PlaceNext
    <3>. QED BY <2>1, <3>1, NothingOnTheWire DEF NothingIsMissing
  <2>5. CASE GiveUp BY <2>1, <2>5 DEF GiveUp, NothingIsMissing
  <2>. QED BY <1>2, <2>2, <2>3, <2>4, <2>5
<1>. QED BY <1>1, <1>2, TogetherReceiver DEF FramingNext

LEMMA FramingStart ==
  ASSUME FramingInit
  PROVE  ReassemblyInv /\ CurrentInv /\ WholeMessage /\ TogetherInv /\ NothingIsMissing
PROOF
<1>1. /\ tx = [step |-> "idle", message |-> NoMessage, offset |-> 0, seq |-> 0]
      /\ wire = NoPacket
      /\ rx = [total_len |-> 0, received_len |-> 0, expected_seq |-> 0, in_progress |-> FALSE]
      /\ payload = [i \in Memory |-> Zero]
      /\ ready = FALSE /\ lost = FALSE /\ delivered = 0
  BY DEF FramingInit
<1>2. NoMessage \in Message /\ 0 \in 0 .. MaxLength /\ 0 \in 0 .. MaxMessages
  BY LengthAssumption, LimitAssumption DEF NoMessage, Message
<1>3. Zero \in Byte BY <1>2 DEF Zero, Byte
<1>4. tx \in TxType /\ rx \in RxType /\ rx.received_len <= rx.total_len
  BY <1>1, <1>2 DEF TxType, RxType
<1>5. FramingTypeOK BY <1>1, <1>2, <1>3, <1>4, NothingOnTheWire, TypeParts
<1>. QED BY <1>1, <1>5
     DEF ReassemblyInv, TxInv, WireInv, RxInv, CurrentInv, WholeMessage,
         TogetherInv, NothingIsMissing, NoMessage, NoPacket

-----------------------------------------------------------------------------
(* Both sides keep their state of its types, whatever gets lost: the       *)
(* sender's offset stays within the message, and the receiver never counts *)
(* past the announced length, so that what remains is no negative number,  *)
(* for any size of packets and any length the sequence numbers can count   *)
(* (ctaphid_send_cbor_response, handle_packet).                            *)
THEOREM FramingTypeCorrect == FramingSpec => []FramingTypeOK
PROOF
<1>1. FramingInit => ReassemblyInv BY FramingStart
<1>2. ReassemblyInv /\ [FramingNext]_framingVars => ReassemblyInv' BY ReassemblyNext
<1>3. ReassemblyInv => FramingTypeOK BY DEF ReassemblyInv
<1>. QED BY <1>1, <1>2, <1>3, PTL DEF FramingSpec

(* What a copy changes lies before its end. *)
LEMMA CopiedOnly ==
  ASSUME NEW data, NEW to, NEW n, payload \in [Memory -> Byte],
         NEW i \in Memory, Copied(data, to, n)[i] # payload[i]
  PROVE  i < to + n
BY DEF Copied

LEMMA StepCopiesInside ==
  ASSUME ReassemblyInv, FramingNext, NEW i \in Memory, payload'[i] # payload[i]
  PROVE  i < rx'.total_len
PROOF
<1>0. payload \in [Memory -> Byte] /\ i \in Nat BY InMemory DEF ReassemblyInv, FramingTypeOK
<1>1. CASE HandleInit
  <2>1. /\ wire.type = "INIT" /\ rx'.total_len = wire.of.len /\ wire.of \in Message
    BY <1>1, InitEffect, WireKinds
  <2>2. wire.arg = wire.of.len BY <2>1, WireKinds, InitCarries
  <2>3. payload' = Copied(wire.data, 0, Lower(wire.of.len, InitRoom)) BY <1>1, <2>2 DEF HandleInit
  <2>4. i < 0 + Lower(wire.of.len, InitRoom) BY <1>0, <2>3, CopiedOnly
  <2>. QED BY <1>0, <2>1, <2>4, MessageLength, Rooms DEF Lower
<1>2. CASE HandleContinuation
  <2>. DEFINE copy == Lower(rx.total_len - rx.received_len, ContRoom)
  <2>1. payload' = Copied(wire.data, rx.received_len, copy) BY <1>2 DEF HandleContinuation
  <2>2. i < rx.received_len + copy BY <1>0, <2>1, CopiedOnly
  <2>3. rx'.total_len = rx.total_len BY <1>2, ContEffect
  <2>4. /\ rx.total_len \in Nat /\ rx.received_len \in Nat /\ rx.received_len <= rx.total_len
    BY LengthAssumption DEF ReassemblyInv, FramingTypeOK
  <2>. QED BY <1>0, <2>2, <2>3, <2>4, Rooms DEF Lower
<1>3. payload' = payload \/ HandleInit \/ HandleContinuation
  BY DEF FramingNext, Start, SendFirst, SendNext, GiveUp, Lose, HandleUnexpected, Process
<1>. QED BY <1>1, <1>2, <1>3

(* No packet changes a byte behind the length its message announced.  That *)
(* this length is within the buffer is not said: handle_packet leaves it   *)
(* to the hosts.                                                           *)
THEOREM PacketsStayInside == FramingSpec => CopiesInside
PROOF
<1>1. FramingInit => ReassemblyInv BY FramingStart
<1>2. ReassemblyInv /\ [FramingNext]_framingVars => ReassemblyInv' BY ReassemblyNext
<1>3. ReassemblyInv /\ [FramingNext]_framingVars
        => [\A i \in Memory : payload'[i] # payload[i] => i < rx'.total_len]_framingVars
  BY StepCopiesInside
<1>. QED BY <1>1, <1>2, <1>3, PTL DEF FramingSpec, CopiesInside

(* What handle_packet hands to ctap2_process is one message of one sender, *)
(* every byte in its place, as long as no initialization packet gets lost  *)
(* while the receiver waits for the rest of another message.               *)
THEOREM MessagesStayWhole == ASSUME ~LoseInitMidway PROVE FramingSpec => []WholeMessage
PROOF
<1>1. FramingInit => WholeInv BY FramingStart DEF WholeInv
<1>2. WholeInv /\ [FramingNext]_framingVars => WholeInv'
  BY ReassemblyNext, CurrentNext, WholeKeeps DEF WholeInv
<1>3. WholeInv => WholeMessage BY DEF WholeInv
<1>. QED BY <1>1, <1>2, <1>3, PTL DEF FramingSpec

(* A message none of whose packets got lost, and which was not given up,   *)
(* is passed on when its last packet has been handled: the length of the   *)
(* sender and the count of the receiver come out together.                 *)
THEOREM WhatArrivesIsPassedOn == FramingSpec => []NothingIsMissing
PROOF
<1>1. FramingInit => MissingInv BY FramingStart DEF MissingInv
<1>2. MissingInv /\ [FramingNext]_framingVars => MissingInv'
  BY ReassemblyNext, MissingNext DEF MissingInv
<1>3. MissingInv => NothingIsMissing BY DEF MissingInv
<1>. QED BY <1>1, <1>2, <1>3, PTL DEF FramingSpec
=============================================================================
