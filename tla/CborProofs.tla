----------------------------- MODULE CborProofs -----------------------------
(***************************************************************************)
(* The parser keeps in step with every request a client can send, however  *)
(* deep and long, and takes from it what the client meant; what is written *)
(* is one item that reads back and fits its buffer.                        *)
(*                                                                         *)
(* The parser has no stack: its counters stand for what it is inside of.   *)
(* Its invariant says at which item of the message it stands, that the     *)
(* rounds its loops have to go are the items that are owed there, inside   *)
(* of which maps and lists it is, and that the pointers it holds are those *)
(* of the last strings before that item.                                   *)
(***************************************************************************)
EXTENDS Cbor, TLAPS, FiniteSetTheorems

-----------------------------------------------------------------------------
(* Heads and strings. *)

(* What the first bytes of an item tell. *)
LEMMA HeadShape ==
  ASSUME NEW mt \in MajorTypes, NEW n, FourBytes(n), NEW h, h = CborHead(mt, n)
  PROVE  /\ n \in Nat /\ h \in Seq(Byte) /\ 1 <= Len(h) /\ Len(h) <= 5 /\ h[1] \div 32 = mt
         /\ n <= 23 => Len(h) = 1 /\ h[1] % 32 = n /\ TwoBytes(n)
         /\ n \in 24 .. 255 => Len(h) = 2 /\ h[1] % 32 = 24 /\ h[2] = n /\ TwoBytes(n)
         /\ n > 255 /\ TwoBytes(n) => Len(h) = 3 /\ h[1] % 32 = 25 /\ 256 * h[2] + h[3] = n
         /\ ~TwoBytes(n) => Len(h) = 5 /\ h[1] % 32 = 26 /\ n > 255
<1>n. n \in Nat /\ mt \in Nat /\ mt <= 7
  BY DEF FourBytes, MajorTypes
<1>1. CASE n <= 23
  <2>0. n \notin 24 .. 255 /\ ~(n > 255)
    BY <1>n, <1>1
  <2>1. h = <<32 * mt + n>>
    BY <1>1, <2>0, SMT DEF CborHead
  <2>2. 32 * mt + n \in Byte /\ (32 * mt + n) \div 32 = mt /\ (32 * mt + n) % 32 = n /\ TwoBytes(n)
    BY <1>n, <1>1, SMT DEF Byte, TwoBytes
  <2> QED BY <1>n, <1>1, <2>1, <2>2
<1>2. CASE n \in 24 .. 255
  <2>0. ~(n <= 23) /\ ~(n > 255)
    BY <1>n, <1>2
  <2>1. h = <<32 * mt + 24, n>>
    BY <1>2, <2>0, SMT DEF CborHead
  <2>2. /\ 32 * mt + 24 \in Byte /\ (32 * mt + 24) \div 32 = mt /\ (32 * mt + 24) % 32 = 24
        /\ n \in Byte /\ TwoBytes(n)
    BY <1>n, <1>2, SMT DEF Byte, TwoBytes
  <2> QED BY <1>n, <1>2, <2>1, <2>2
<1>3. CASE n > 255 /\ TwoBytes(n)
  <2> DEFINE hi == n \div 256
             lo == n % 256
  <2>1. h = <<32 * mt + 25, hi, lo>>
    BY <1>n, <1>3, SMT DEF CborHead
  <2>2. /\ 32 * mt + 25 \in Byte /\ (32 * mt + 25) \div 32 = mt /\ (32 * mt + 25) % 32 = 25
        /\ hi \in Byte /\ lo \in Byte /\ 256 * hi + lo = n
    BY <1>n, <1>3, SMT DEF Byte, TwoBytes
  <2> HIDE DEF hi, lo
  <2> QED BY <1>n, <1>3, <2>1, <2>2
<1>4. CASE ~TwoBytes(n)
  <2> DEFINE b1 == n \div 16777216
             b2 == (n \div 65536) % 256
             b3 == (n \div 256) % 256
             b4 == n % 256
  <2>1. n > 255
    BY <1>n, <1>4, SMT DEF Byte, TwoBytes
  <2>2. h = <<32 * mt + 26, b1, b2, b3, b4>>
    BY <1>n, <1>4, <2>1, SMT DEF CborHead
  <2>3. /\ 32 * mt + 26 \in Byte /\ (32 * mt + 26) \div 32 = mt /\ (32 * mt + 26) % 32 = 26
        /\ b1 \in Byte /\ b2 \in Byte /\ b3 \in Byte /\ b4 \in Byte
    BY <1>n, SMT DEF Byte, FourBytes
  <2> HIDE DEF b1, b2, b3, b4
  <2> QED BY <1>n, <1>4, <2>1, <2>2, <2>3
<1> QED BY <1>n, <1>1, <1>2, <1>3, <1>4

(* An item is its head and then its string. *)
HeadSize(x) == Len(CborHead(x.mt, x.n))
DataSize(x) == Len(x.data)
Size(x) == Len(Encoded(x))

LEMMA ItemShape ==
  ASSUME NEW x, Sound(x)
  PROVE  /\ x.mt \in MajorTypes /\ FourBytes(x.n) /\ x.n \in Nat
         /\ x.data \in Seq(Byte) /\ Children(x) \in Nat
         /\ x.mt \in {2, 3} => x.n = DataSize(x) /\ TwoBytes(x.n)
         /\ x.mt \notin {2, 3} => x.data = << >> /\ DataSize(x) = 0
<1>1. x.mt \in MajorTypes /\ FourBytes(x.n) /\ x.n \in Nat
  BY DEF Sound, Item
<1>2. x.data \in Seq(Byte)
  BY DEF Sound, Item
<1>3. x.mt \notin {2, 3} => x.data = << >> /\ DataSize(x) = 0
  BY DEF Sound, DataSize
<1>4. x.mt \in {2, 3} => x.n = DataSize(x) /\ TwoBytes(x.n)
  BY DEF Sound, DataSize
<1>5. Children(x) \in Nat
  BY <1>1 DEF Children
<1> QED BY <1>1, <1>2, <1>3, <1>4, <1>5

LEMMA SizeShape ==
  ASSUME NEW x, Sound(x)
  PROVE  /\ HeadSize(x) \in Nat /\ 1 <= HeadSize(x) /\ HeadSize(x) <= 5
         /\ DataSize(x) \in Nat /\ Size(x) \in Nat /\ Size(x) = HeadSize(x) + DataSize(x)
<1> DEFINE h == CborHead(x.mt, x.n)
<1>1. h \in Seq(Byte) /\ 1 <= Len(h) /\ Len(h) <= 5
  BY ItemShape, HeadShape
<1>2. x.data \in Seq(Byte)
  BY ItemShape
<1>3. Len(h \o x.data) = Len(h) + Len(x.data)
  BY <1>1, <1>2
<1>4. Size(x) = Len(h \o x.data) /\ HeadSize(x) = Len(h) /\ DataSize(x) = Len(x.data)
  BY DEF HeadSize, DataSize, Size, Encoded
<1>5. Len(h) \in Nat /\ Len(x.data) \in Nat /\ Len(h \o x.data) \in Nat
  <2>1. \A d \in Seq(Byte) : Len(d) \in Nat
    OBVIOUS
  <2>2. h \o x.data \in Seq(Byte)
    BY <1>1, <1>2
  <2> HIDE DEF h
  <2> QED BY <1>1, <1>2, <2>1, <2>2
<1> HIDE DEF h
<1> QED BY <1>1, <1>3, <1>4, <1>5

LEMMA EncodedBytes ==
  ASSUME NEW x, Sound(x)
  PROVE  /\ Encoded(x) \in Seq(Byte)
         /\ \A i \in 1 .. HeadSize(x) : Encoded(x)[i] = CborHead(x.mt, x.n)[i]
         /\ \A i \in 1 .. DataSize(x) : Encoded(x)[HeadSize(x) + i] = x.data[i]
<1> DEFINE h == CborHead(x.mt, x.n)
<1>1. h \in Seq(Byte) /\ x.data \in Seq(Byte)
  BY ItemShape, HeadShape
<1>2. Encoded(x) = h \o x.data
  BY DEF Encoded
<1> HIDE DEF h
<1>3. /\ h \o x.data \in Seq(Byte)
      /\ \A i \in 1 .. Len(h) : (h \o x.data)[i] = h[i]
      /\ \A i \in 1 .. Len(x.data) : (h \o x.data)[Len(h) + i] = x.data[i]
  BY <1>1
<1> QED BY <1>2, <1>3 DEF HeadSize, DataSize, h

(* What the reader makes of an item that lies at p. *)
Lies(b, p, x) ==
  /\ p + Size(x) <= Len(b)
  /\ \A i \in 1 .. Size(x) : b[p + i] = Encoded(x)[i]

LEMMA LyingBytes ==
  ASSUME NEW b \in Seq(Byte), NEW p \in Nat, NEW x, Sound(x), Lies(b, p, x)
  PROVE  /\ p < Len(b)
         /\ \A i \in 1 .. HeadSize(x) : At(b, p + i - 1) = CborHead(x.mt, x.n)[i]
         /\ \A i \in 1 .. DataSize(x) : At(b, p + HeadSize(x) + i - 1) = x.data[i]
<1>1. /\ HeadSize(x) \in Nat /\ 1 <= HeadSize(x) /\ DataSize(x) \in Nat
      /\ Size(x) \in Nat /\ Size(x) = HeadSize(x) + DataSize(x)
  BY SizeShape
<1>2. \A i \in 1 .. Size(x) : At(b, p + i - 1) = Encoded(x)[i]
  <2> TAKE i \in 1 .. Size(x)
  <2>1. p + i - 1 < Len(b) /\ b[p + i - 1 + 1] = Encoded(x)[i]
    BY <1>1 DEF Lies
  <2> QED BY <2>1 DEF At
<1>3. p < Len(b)
  BY <1>1 DEF Lies
<1>4. ASSUME NEW i \in 1 .. HeadSize(x)
      PROVE  At(b, p + i - 1) = CborHead(x.mt, x.n)[i]
  BY <1>1, <1>2, EncodedBytes
<1>5. ASSUME NEW i \in 1 .. DataSize(x)
      PROVE  At(b, p + HeadSize(x) + i - 1) = x.data[i]
  <2>1. HeadSize(x) + i \in 1 .. Size(x) /\ p + (HeadSize(x) + i) - 1 = p + HeadSize(x) + i - 1
    BY <1>1
  <2> QED BY <1>2, <2>1, EncodedBytes
<1> QED BY <1>3, <1>4, <1>5

LEMMA HeadRead ==
  ASSUME NEW b \in Seq(Byte), NEW p \in Nat, NEW x, Sound(x), Lies(b, p, x)
  PROVE  /\ p < Len(b) /\ MajorType(b, p) = x.mt /\ LowBits(b, p) \in 0 .. 31
         /\ x.n <= 23 => LowBits(b, p) = x.n /\ HeadSize(x) = 1
         /\ x.n <= 255 => LowBits(b, p) <= 24 /\ TwoBytes(x.n)
         /\ TwoBytes(x.n) => Argument(b, p) = [n |-> x.n, end |-> p + HeadSize(x)]
         /\ TwoBytes(x.n) => SkipArgument(b, p) = [n |-> x.n, end |-> p + HeadSize(x)]
         /\ SkipArgument(b, p).end = p + HeadSize(x)
<1> DEFINE h == CborHead(x.mt, x.n)
           n == x.n
           size == HeadSize(x)
<1>0. x.mt = h[1] \div 32 /\ n \in Nat /\ h[1] \in Byte
  <2>1. h \in Seq(Byte) /\ 1 <= Len(h) /\ h[1] \div 32 = x.mt /\ n \in Nat
    BY ItemShape, HeadShape
  <2> HIDE DEF h, n
  <2> QED BY <2>1
<1>1. /\ n <= 23 => Len(h) = 1 /\ h[1] % 32 = n /\ TwoBytes(n)
      /\ n \in 24 .. 255 => Len(h) = 2 /\ h[1] % 32 = 24 /\ h[2] = n /\ TwoBytes(n)
      /\ n > 255 /\ TwoBytes(n) => Len(h) = 3 /\ h[1] % 32 = 25 /\ 256 * h[2] + h[3] = n
      /\ ~TwoBytes(n) => Len(h) = 5 /\ h[1] % 32 = 26 /\ n > 255
  <2>1. x.mt \in MajorTypes /\ FourBytes(n)
    BY ItemShape
  <2>2. \A k \in MajorTypes : \A l : FourBytes(l) =>
          /\ l <= 23 => Len(CborHead(k, l)) = 1 /\ CborHead(k, l)[1] % 32 = l /\ TwoBytes(l)
          /\ l \in 24 .. 255 => Len(CborHead(k, l)) = 2 /\ CborHead(k, l)[1] % 32 = 24
                                 /\ CborHead(k, l)[2] = l /\ TwoBytes(l)
          /\ l > 255 /\ TwoBytes(l) => Len(CborHead(k, l)) = 3 /\ CborHead(k, l)[1] % 32 = 25
                                        /\ 256 * CborHead(k, l)[2] + CborHead(k, l)[3] = l
          /\ ~TwoBytes(l) => Len(CborHead(k, l)) = 5 /\ CborHead(k, l)[1] % 32 = 26 /\ l > 255
    BY HeadShape
  <2> QED BY <2>1, <2>2
<1>2. size = Len(h) /\ size \in Nat /\ 1 <= size
  BY SizeShape DEF HeadSize
<1>3. /\ p < Len(b) /\ At(b, p) = h[1]
      /\ 2 <= size => At(b, p + 1) = h[2]
      /\ 3 <= size => At(b, p + 2) = h[3]
  <2>1. p < Len(b) /\ \A i \in 1 .. size : At(b, p + i - 1) = h[i]
    BY LyingBytes
  <2>2. At(b, p + 1 - 1) = h[1]
    BY <1>2, <2>1
  <2>3. 2 <= size => At(b, p + 2 - 1) = h[2]
    BY <1>2, <2>1
  <2>4. 3 <= size => At(b, p + 3 - 1) = h[3]
    BY <1>2, <2>1
  <2> QED BY <2>1, <2>2, <2>3, <2>4
<1> HIDE DEF h, n, size
<1>4. /\ n <= 23 => size = 1
      /\ n \in 24 .. 255 => size = 2
      /\ n > 255 /\ TwoBytes(n) => size = 3
      /\ ~TwoBytes(n) => size = 5
  BY <1>1, <1>2
<1>5. /\ MajorType(b, p) = h[1] \div 32 /\ LowBits(b, p) = h[1] % 32
      /\ LowBits(b, p) \in 0 .. 31
  <2>1. \A k \in Byte : k % 32 \in 0 .. 31
    BY DEF Byte
  <2> QED BY <1>0, <1>3, <2>1 DEF MajorType, LowBits
<1>6. LowBits(b, p) # 26 => SkipArgument(b, p) = Argument(b, p)
  BY SMT DEF SkipArgument
<1>7. LowBits(b, p) = 26 => SkipArgument(b, p).end = p + 5
  BY SMT DEF SkipArgument
<1>8. TwoBytes(n) => LowBits(b, p) # 26 /\ Argument(b, p) = [n |-> n, end |-> p + size]
  <2>1. CASE n <= 23
    BY <1>1, <1>4, <1>5, <2>1 DEF Argument
  <2>2. CASE n \in 24 .. 255
    <3>1. LowBits(b, p) = 24 /\ At(b, p + 1) = n /\ size = 2
      BY <1>1, <1>3, <1>4, <1>5, <2>2
    <3> QED BY <3>1 DEF Argument
  <2>3. CASE n > 255 /\ TwoBytes(n)
    <3>1. LowBits(b, p) = 25 /\ 256 * At(b, p + 1) + At(b, p + 2) = n /\ size = 3
      BY <1>1, <1>3, <1>4, <1>5, <2>3
    <3> QED BY <3>1 DEF Argument
  <2> QED BY <1>0, <2>1, <2>2, <2>3
<1>9. TwoBytes(n) => SkipArgument(b, p) = [n |-> n, end |-> p + size]
  BY <1>6, <1>8
<1>10. SkipArgument(b, p).end = p + size
  <2>1. CASE TwoBytes(n)
    BY <1>9, <2>1
  <2>2. CASE ~TwoBytes(n)
    BY <1>1, <1>4, <1>5, <1>7, <2>2
  <2> QED BY <2>1, <2>2
<1>11. /\ n <= 23 => LowBits(b, p) = n /\ size = 1
       /\ n <= 255 => LowBits(b, p) <= 24 /\ TwoBytes(n)
  BY <1>0, <1>1, <1>4, <1>5
<1>12. MajorType(b, p) = x.mt
  BY <1>0, <1>5
<1> QED BY <1>3, <1>5, <1>8, <1>9, <1>10, <1>11, <1>12 DEF n, size

LEMMA StringRead ==
  ASSUME NEW b \in Seq(Byte), NEW p \in Nat, NEW x, Sound(x), Lies(b, p, x), x.mt \in {2, 3}
  PROVE  /\ ReadBytes(b, p) = [at |-> p + HeadSize(x), len |-> x.n, end |-> p + Size(x)]
         /\ Content(b, ReadBytes(b, p)) = x.data
<1> DEFINE q == p + HeadSize(x)
<1>1. /\ x.n = DataSize(x) /\ TwoBytes(x.n) /\ x.n \in Nat /\ HeadSize(x) \in Nat
      /\ Size(x) = HeadSize(x) + x.n
  BY ItemShape, SizeShape
<1>2. Argument(b, p) = [n |-> x.n, end |-> q]
  BY <1>1, HeadRead
<1>3. ReadBytes(b, p) = [at |-> q, len |-> x.n, end |-> q + x.n]
  BY <1>2 DEF ReadBytes
<1>4. q + x.n = p + Size(x)
  BY <1>1
<1>5. \A i \in 1 .. x.n : At(b, q + i - 1) = x.data[i]
  <2>1. \A i \in 1 .. DataSize(x) : At(b, p + HeadSize(x) + i - 1) = x.data[i]
    BY LyingBytes
  <2> QED BY <1>1, <2>1
<1> HIDE DEF q
<1>6. Content(b, ReadBytes(b, p)) = [i \in 1 .. x.n |-> At(b, q + i - 1)]
  BY <1>3 DEF Content
<1>7. [i \in 1 .. x.n |-> At(b, q + i - 1)] = [i \in 1 .. x.n |-> x.data[i]]
  BY <1>5
<1>8. x.data = [i \in 1 .. x.n |-> x.data[i]]
  <2>1. x.data \in Seq(Byte) /\ x.n = Len(x.data)
    BY <1>1, ItemShape DEF DataSize
  <2>2. \A d \in Seq(Byte) : d = [i \in 1 .. Len(d) |-> d[i]]
    OBVIOUS
  <2> QED BY <2>1, <2>2
<1> QED BY <1>3, <1>4, <1>6, <1>7, <1>8 DEF q

-----------------------------------------------------------------------------
(* Messages, item by item. *)
Count(m) == Len(m.items)
Total(m) == Len(m.bytes)
ItemAt(m, k) == m.items[k]
Owed(m, k) == m.owed[k]
Start(m, k) == m.at[k]

LEMMA Laid ==
  ASSUME NEW m, Layout(m)
  PROVE  /\ Count(m) \in Nat /\ m.bytes \in Seq(Byte) /\ Total(m) \in Nat
         /\ Owed(m, 1) = 1 /\ Start(m, Count(m) + 1) = Total(m)
         /\ \A k \in 1 .. Count(m) + 1 : Start(m, k) \in Nat /\ Start(m, k) <= Total(m)
         /\ \A k \in 1 .. Count(m) + 1 : Owed(m, k) \in Int
<1>1. /\ m.items \in Seq(Item) /\ m.at \in Seq(Nat) /\ m.owed \in Seq(Int) /\ m.bytes \in Seq(Byte)
      /\ Len(m.at) = Len(m.items) + 1 /\ Len(m.owed) = Len(m.items) + 1
  BY DEF Layout
<1>2. Count(m) \in Nat /\ Total(m) \in Nat
  BY <1>1 DEF Count, Total
<1>3. Owed(m, 1) = 1 /\ Start(m, Count(m) + 1) = Total(m)
  BY DEF Layout, Count, Total, Start, Owed
<1>4. ASSUME NEW k \in 1 .. Count(m) + 1
      PROVE  Owed(m, k) \in Int
  <2>1. \A d \in Seq(Int) : \A i \in 1 .. Len(d) : d[i] \in Int
    OBVIOUS
  <2>2. k \in 1 .. Len(m.owed)
    BY <1>1 DEF Count
  <2> QED BY <1>1, <2>1, <2>2 DEF Owed
<1>5. ASSUME NEW k \in 1 .. Count(m) + 1
      PROVE  Start(m, k) \in Nat
  <2>1. \A d \in Seq(Nat) : \A i \in 1 .. Len(d) : d[i] \in Nat
    OBVIOUS
  <2>2. k \in 1 .. Len(m.at)
    BY <1>1 DEF Count
  <2> QED BY <1>1, <2>1, <2>2 DEF Start
<1>6. ASSUME NEW k \in 1 .. Count(m) + 1
      PROVE  Start(m, k) <= Total(m)
  <2>1. CASE k = Count(m) + 1
    BY <1>2, <1>3, <2>1
  <2>2. CASE k \in 1 .. Count(m)
    <3>1. \A j \in 1 .. Count(m) : m.at[j + 1] = m.at[j] + Len(Encoded(m.items[j])) /\ m.at[j + 1] <= Len(m.bytes)
                                   /\ Sound(m.items[j])
      BY DEF Layout, Count
    <3>2. Start(m, k + 1) = Start(m, k) + Size(ItemAt(m, k)) /\ Start(m, k + 1) <= Total(m)
          /\ Sound(ItemAt(m, k))
      BY <2>2, <3>1 DEF Start, Size, ItemAt, Total
    <3>3. Size(ItemAt(m, k)) \in Nat
      BY <3>2, SizeShape
    <3> QED BY <1>2, <1>5, <3>2, <3>3
  <2> QED BY <1>2, <2>1, <2>2
<1> QED BY <1>1, <1>2, <1>3, <1>4, <1>5, <1>6

LEMMA LaidItem ==
  ASSUME NEW m, Layout(m), NEW k \in 1 .. Count(m)
  PROVE  /\ Sound(ItemAt(m, k)) /\ Lies(m.bytes, Start(m, k), ItemAt(m, k))
         /\ Start(m, k) \in Nat /\ Start(m, k + 1) \in Nat /\ Start(m, k) < Total(m)
         /\ Start(m, k + 1) = Start(m, k) + Size(ItemAt(m, k)) /\ Start(m, k + 1) <= Total(m)
         /\ Owed(m, k) \in Int /\ Children(ItemAt(m, k)) \in Nat
         /\ Owed(m, k + 1) = Owed(m, k) - 1 + Children(ItemAt(m, k))
<1>1. /\ Sound(m.items[k])
      /\ m.owed[k + 1] = m.owed[k] - 1 + Children(m.items[k])
      /\ m.at[k + 1] = m.at[k] + Len(Encoded(m.items[k])) /\ m.at[k + 1] <= Len(m.bytes)
      /\ \A i \in 1 .. Len(Encoded(m.items[k])) : m.bytes[m.at[k] + i] = Encoded(m.items[k])[i]
  BY DEF Layout, Count
<1>2. Sound(ItemAt(m, k)) /\ Start(m, k + 1) = Start(m, k) + Size(ItemAt(m, k))
      /\ Start(m, k + 1) <= Total(m) /\ Owed(m, k + 1) = Owed(m, k) - 1 + Children(ItemAt(m, k))
  BY <1>1 DEF ItemAt, Start, Size, Total, Owed
<1>3. \A i \in 1 .. Size(ItemAt(m, k)) : m.bytes[Start(m, k) + i] = Encoded(ItemAt(m, k))[i]
  BY <1>1 DEF ItemAt, Start, Size
<1>4. Lies(m.bytes, Start(m, k), ItemAt(m, k))
  BY <1>2, <1>3 DEF Lies, Total
<1>5. Count(m) \in Nat /\ k \in 1 .. Count(m) + 1 /\ k + 1 \in 1 .. Count(m) + 1
  BY Laid
<1>6. Start(m, k) \in Nat /\ Start(m, k + 1) \in Nat /\ Owed(m, k) \in Int /\ Total(m) \in Nat
  BY <1>5, Laid
<1>7. Size(ItemAt(m, k)) \in Nat /\ 1 <= Size(ItemAt(m, k)) /\ Children(ItemAt(m, k)) \in Nat
  BY <1>2, SizeShape, ItemShape
<1> QED BY <1>2, <1>4, <1>6, <1>7

LEMMA Whole ==
  ASSUME NEW m, WellFormed(m)
  PROVE  /\ Layout(m) /\ Count(m) \in Nat /\ Count(m) >= 1 /\ Owed(m, Count(m) + 1) = 0
         /\ \A k \in 1 .. Count(m) : Owed(m, k) >= 1
BY Laid DEF WellFormed, Complete, Layout, Count, Owed

-----------------------------------------------------------------------------
(* What is inside what. *)
LEMMA InChildren ==
  ASSUME NEW m, NEW h, NEW k
  PROVE  k \in ChildrenOf(m, h) <=>
           /\ k \in h + 1 .. Count(m) /\ Owed(m, k) >= Owed(m, h)
           /\ \A j \in h + 1 .. k - 1 : Owed(m, j) > Owed(m, k)
BY DEF ChildrenOf, Count, Owed

LEMMA InKeys ==
  ASSUME NEW m, NEW h, NEW k
  PROVE  k \in Keys(m, h) <=> k \in ChildrenOf(m, h) /\ (Owed(m, k) - Owed(m, h) + 1) % 2 = 0
BY DEF Keys, ToCome, Owed

LEMMA OneParent ==
  ASSUME NEW m, Layout(m), NEW h \in 1 .. Count(m), NEW g \in 1 .. Count(m),
         NEW j, j \in ChildrenOf(m, h), j \in ChildrenOf(m, g)
  PROVE  h = g
<1>1. Count(m) \in Nat /\ j \in Int /\ h < j /\ g < j
  BY Laid, InChildren
<1>2. Owed(m, j) \in Int /\ Owed(m, h) \in Int /\ Owed(m, g) \in Int
  <2>1. j \in 1 .. Count(m)
    BY <1>1, InChildren
  <2> QED BY <2>1, LaidItem
<1>3. CASE h < g
  <2>1. g \in h + 1 .. j - 1
    BY <1>1, <1>3
  <2>2. Owed(m, g) > Owed(m, j) /\ Owed(m, j) >= Owed(m, g)
    BY <2>1, InChildren
  <2> QED BY <1>2, <2>2
<1>4. CASE g < h
  <2>1. h \in g + 1 .. j - 1
    BY <1>1, <1>4
  <2>2. Owed(m, h) > Owed(m, j) /\ Owed(m, j) >= Owed(m, h)
    BY <2>1, InChildren
  <2> QED BY <1>2, <2>2
<1> QED BY <1>1, <1>3, <1>4

(* The item after a key is its value. *)
LEMMA AfterKey ==
  ASSUME NEW m, WellFormed(m), NEW h \in 1 .. Count(m), NEW k, k \in Keys(m, h),
         Children(ItemAt(m, k)) = 0
  PROVE  /\ k \in h + 1 .. Count(m) /\ k + 1 \in ChildrenOf(m, h) /\ k + 1 <= Count(m)
         /\ Owed(m, k + 1) = Owed(m, k) - 1 /\ (Owed(m, k + 1) - Owed(m, h) + 1) % 2 = 1
         /\ k + 1 \notin Keys(m, h)
<1>1. /\ Layout(m) /\ Count(m) \in Nat /\ Owed(m, Count(m) + 1) = 0 /\ Owed(m, h) >= 1
  BY Whole
<1>2. /\ k \in h + 1 .. Count(m) /\ Owed(m, k) >= Owed(m, h)
      /\ \A j \in h + 1 .. k - 1 : Owed(m, j) > Owed(m, k)
      /\ (Owed(m, k) - Owed(m, h) + 1) % 2 = 0
  BY InChildren, InKeys
<1>3. /\ Owed(m, k) \in Int /\ Owed(m, h) \in Int /\ Owed(m, k + 1) = Owed(m, k) - 1
  <2>1. k \in 1 .. Count(m)
    BY <1>1, <1>2
  <2>2. Owed(m, k + 1) = Owed(m, k) - 1 + 0
    BY <1>1, <2>1, LaidItem
  <2> QED BY <1>1, <2>1, <2>2, LaidItem
<1>4. Owed(m, k + 1) >= Owed(m, h) /\ (Owed(m, k + 1) - Owed(m, h) + 1) % 2 = 1
  BY <1>2, <1>3
<1>5. k + 1 <= Count(m)
  <2>1. k # Count(m)
    BY <1>1, <1>3, <1>4
  <2> QED BY <1>1, <1>2, <2>1
<1>6. \A j \in h + 1 .. k : Owed(m, j) > Owed(m, k + 1)
  <2> TAKE j \in h + 1 .. k
  <2>1. CASE j = k
    BY <1>3, <2>1
  <2>2. CASE j # k
    <3>1. j \in h + 1 .. k - 1 /\ j \in 1 .. Count(m)
      BY <1>1, <1>2, <2>2
    <3>2. Owed(m, j) > Owed(m, k) /\ Owed(m, j) \in Int
      BY <1>1, <1>2, <3>1, LaidItem
    <3> QED BY <1>3, <3>2
  <2> QED BY <2>1, <2>2
<1>7. k + 1 \in ChildrenOf(m, h)
  <2>1. k + 1 \in h + 1 .. Count(m) /\ (k + 1) - 1 = k
    BY <1>1, <1>2, <1>5
  <2> QED BY <1>4, <1>6, <2>1, InChildren
<1>8. k + 1 \notin Keys(m, h)
  BY <1>4, InKeys
<1> QED BY <1>2, <1>3, <1>4, <1>5, <1>7, <1>8

LEMMA IntoUnder ==
  ASSUME NEW m, NEW H, NEW h \in H, NEW k \in Keys(m, h)
  PROVE  k + 1 \in Under(m, H, ItemAt(m, k))
BY DEF Under, KeysOf, ItemAt

(* A value is the child of one map and not a key. *)
LEMMA UnderShape ==
  ASSUME NEW m, WellFormed(m), NEW H \in SUBSET (1 .. Count(m)), NEW key, Children(key) = 0,
         NEW j, j \in Under(m, H, key)
  PROVE  \E h \in H : \E k \in Keys(m, h) :
           /\ ItemAt(m, k) = key /\ j = k + 1 /\ j \in h + 1 .. Count(m)
           /\ j \in ChildrenOf(m, h) /\ j \notin Keys(m, h)
<1>0. \E h \in H : \E k \in Keys(m, h) : ItemAt(m, k) = key /\ j = k + 1
  BY DEF Under, KeysOf, ItemAt
<1>1. PICK h \in H : \E k \in Keys(m, h) : ItemAt(m, k) = key /\ j = k + 1
  BY <1>0
<1>2. PICK k \in Keys(m, h) : ItemAt(m, k) = key /\ j = k + 1
  BY <1>1
<1>3. h \in 1 .. Count(m) /\ Children(ItemAt(m, k)) = 0
  BY <1>2
<1>4. /\ k \in h + 1 .. Count(m) /\ j \in ChildrenOf(m, h) /\ j <= Count(m) /\ j \notin Keys(m, h)
  BY <1>2, <1>3, AfterKey
<1>5. j \in h + 1 .. Count(m)
  BY <1>4, InChildren
<1> QED BY <1>2, <1>4, <1>5

(* What comes after a key in its map is under no other key. *)
LEMMA PairIsOnce ==
  ASSUME NEW m, WellFormed(m), NEW g \in 1 .. Count(m), NEW k, k \in Keys(m, g),
         Children(ItemAt(m, k)) = 0,
         NEW H \in SUBSET (1 .. Count(m)), NEW key, Children(key) = 0
  PROVE  /\ k \notin Under(m, H, key)
         /\ k + 1 \in Under(m, H, key) => g \in H /\ ItemAt(m, k) = key
<1>0. Layout(m)
  BY DEF WellFormed
<1>1. ASSUME k \in Under(m, H, key)
      PROVE  FALSE
  <2>1. PICK h \in H : k \in ChildrenOf(m, h) /\ k \notin Keys(m, h)
    BY <1>1, UnderShape
  <2>2. k \in ChildrenOf(m, g)
    BY InKeys
  <2>3. h = g
    BY <1>0, <2>1, <2>2, OneParent
  <2> QED BY <2>1, <2>3
<1>2. ASSUME k + 1 \in Under(m, H, key)
      PROVE  g \in H /\ ItemAt(m, k) = key
  <2>1. PICK h \in H : \E i \in Keys(m, h) : /\ ItemAt(m, i) = key /\ k + 1 = i + 1
                                             /\ k + 1 \in ChildrenOf(m, h)
    BY <1>2, UnderShape
  <2>2. PICK i \in Keys(m, h) : ItemAt(m, i) = key /\ k + 1 = i + 1 /\ k + 1 \in ChildrenOf(m, h)
    BY <2>1
  <2>3. k + 1 \in ChildrenOf(m, g)
    BY AfterKey
  <2>4. h = g
    BY <1>0, <2>2, <2>3, OneParent
  <2>5. k \in Int /\ i \in Int
    <3>1. Count(m) \in Nat
      BY <1>0, Laid
    <3>2. k \in g + 1 .. Count(m) /\ i \in h + 1 .. Count(m)
      BY InKeys, InChildren
    <3> QED BY <3>1, <3>2
  <2>6. i = k
    BY <2>2, <2>5
  <2> QED BY <2>2, <2>4, <2>6
<1> QED BY <1>1, <1>2

-----------------------------------------------------------------------------
(* How a reader that takes item after item knows where it is. *)

(* The reader is inside of h: of what is in it, low items are owed when it *)
(* comes to k, and more were before every item in between.                 *)
Within(m, h, base, low, k) ==
  /\ h \in 1 .. k - 1 /\ Owed(m, h) = base + 1
  /\ \A j \in h + 1 .. k - 1 : Owed(m, j) > low

LEMMA WithinNew ==
  ASSUME NEW m, Layout(m), NEW k \in 1 .. Count(m), NEW base, NEW low, Owed(m, k) = base + 1
  PROVE  Within(m, k, base, low, k + 1)
<1>1. Count(m) \in Nat
  BY Laid
<1>2. k \in 1 .. (k + 1) - 1 /\ \A j \in k + 1 .. (k + 1) - 1 : FALSE
  BY <1>1
<1> QED BY <1>2 DEF Within

LEMMA WithinOn ==
  ASSUME NEW m, Layout(m), NEW k \in 1 .. Count(m), NEW h, NEW base,
         NEW low \in Int, Within(m, h, base, low, k),
         NEW next \in Int, next <= low, Owed(m, k) > next
  PROVE  Within(m, h, base, next, k + 1)
<1>1. Count(m) \in Nat /\ h \in 1 .. k - 1 /\ Owed(m, h) = base + 1
  BY Laid DEF Within
<1>2. ASSUME NEW j \in h + 1 .. (k + 1) - 1
      PROVE  Owed(m, j) > next
  <2>1. CASE j = k
    BY <2>1
  <2>2. CASE j # k
    <3>1. j \in h + 1 .. k - 1 /\ j \in 1 .. Count(m)
      BY <1>1, <2>2
    <3>2. Owed(m, j) > low /\ Owed(m, j) \in Int
      BY <3>1, LaidItem DEF Within
    <3> QED BY <3>2
  <2> QED BY <2>1, <2>2
<1> QED BY <1>1, <1>2 DEF Within

LEMMA WithinChild ==
  ASSUME NEW m, Layout(m), NEW k \in 1 .. Count(m), NEW h, NEW base \in Int, NEW low \in Int,
         Within(m, h, base, low, k), Owed(m, k) = low, low > base
  PROVE  k \in ChildrenOf(m, h) /\ Owed(m, k) - Owed(m, h) + 1 = low - base
<1>1. Count(m) \in Nat /\ h \in 1 .. k - 1 /\ Owed(m, h) = base + 1
  BY Laid DEF Within
<1>2. k \in h + 1 .. Count(m) /\ Owed(m, k) >= Owed(m, h)
  BY <1>1
<1>3. \A j \in h + 1 .. k - 1 : Owed(m, j) > Owed(m, k)
  BY DEF Within
<1> QED BY <1>1, <1>2, <1>3, InChildren

(* A child of an item it was inside of lies in what the reader has not     *)
(* passed: the parent is s or comes after it.                              *)
LEMMA ParentNotBefore ==
  ASSUME NEW m, Layout(m), NEW low \in Int, NEW k \in 1 .. Count(m), NEW s \in 2 .. k,
         Owed(m, s) = low + 1, \A j \in s + 1 .. k - 1 : Owed(m, j) > low, Owed(m, k) > low,
         NEW j \in s + 1 .. k, NEW h \in 1 .. Count(m), j \in ChildrenOf(m, h)
  PROVE  h >= s
<1>1. Count(m) \in Nat /\ j \in 1 .. Count(m)
  BY Laid
<1>2. Owed(m, j) > low /\ Owed(m, j) \in Int
  <2>1. j = k \/ j \in s + 1 .. k - 1
    BY <1>1
  <2> QED BY <1>1, <2>1, LaidItem
<1>3. ASSUME h < s
      PROVE  FALSE
  <2>1. s \in h + 1 .. j - 1
    BY <1>1, <1>3
  <2>2. Owed(m, s) > Owed(m, j)
    BY <2>1, InChildren
  <2> QED BY <1>2, <2>2
<1> QED BY <1>1, <1>3

-----------------------------------------------------------------------------
(* Where the fields are. *)

(* The maps whose members are read, and all the parser ever goes into.     *)
OpenMaps(c, m, p) ==
  IF c = "make" THEN Maps(m, Given(m, p)) ELSE Maps(m, Elements(m, Lists(m, Given(m, p))))
Opened(c, m) ==
  IF c = "make" THEN Maps(m, Given(m, 2)) \cup Maps(m, Given(m, 3))
  ELSE Lists(m, Given(m, 3)) \cup Maps(m, Elements(m, Lists(m, Given(m, 3))))

LEMMA NoChildren ==
  /\ \A n : Children(Uint(n)) = 0
  /\ \A t : Children(Text(t)) = 0
BY DEF Children, Uint, Text

LEMMA GivenShape ==
  ASSUME NEW m, WellFormed(m), NEW n, NEW v, v \in Given(m, n)
  PROVE  /\ v \in 2 .. Count(m) /\ v \in ChildrenOf(m, 1) /\ v \notin Keys(m, 1)
         /\ \E k \in Keys(m, 1) : v = k + 1 /\ ItemAt(m, k) = Uint(n)
<1>1. Count(m) \in Nat /\ {1} \in SUBSET (1 .. Count(m))
  BY Whole
<1>2. v \in Under(m, {1}, Uint(n))
  BY DEF Given
<1>3. \E h \in {1} : \E k \in Keys(m, h) :
           /\ ItemAt(m, k) = Uint(n) /\ v = k + 1 /\ v \in h + 1 .. Count(m)
           /\ v \in ChildrenOf(m, h) /\ v \notin Keys(m, h)
  BY <1>1, <1>2, NoChildren, UnderShape
<1> QED BY <1>3

LEMMA OpenedShape ==
  ASSUME NEW m, WellFormed(m), NEW c, NEW o, o \in Opened(c, m)
  PROVE  /\ o \in 2 .. Count(m)
         /\ \/ o \in ChildrenOf(m, 1)
            \/ \E v \in Opened(c, m) : /\ o \in ChildrenOf(m, v) /\ v \in ChildrenOf(m, 1)
                                       /\ v \in 2 .. Count(m)
<1>1. CASE o \in Given(m, 2) \cup Given(m, 3)
  BY <1>1, GivenShape
<1>2. CASE c # "make" /\ o \in Elements(m, Lists(m, Given(m, 3)))
  <2>1. PICK v \in Lists(m, Given(m, 3)) : o \in ChildrenOf(m, v)
    BY <1>2 DEF Elements
  <2>2. v \in 2 .. Count(m) /\ v \in ChildrenOf(m, 1)
    BY GivenShape DEF Lists
  <2>3. v \in Opened(c, m)
    BY <1>2 DEF Opened
  <2>4. Count(m) \in Nat /\ o \in v + 1 .. Count(m)
    BY Whole, <2>1, InChildren
  <2> QED BY <2>1, <2>2, <2>3, <2>4
<1> QED BY <1>1, <1>2 DEF Opened, Maps, Lists

LEMMA WhereShape ==
  ASSUME NEW m, WellFormed(m), NEW c \in {"make", "get"}, NEW f \in Fields
  PROVE  /\ Where(c, m, f) \in SUBSET (1 .. Count(m))
         /\ \A h \in Where(c, m, f) : h = 1 \/ h \in Opened(c, m)
         /\ Children(What(c, f)) = 0
<1>1. Where(c, m, f) \subseteq {1} \cup Opened(c, m)
  BY DEF Where, Opened, Maps, Fields
<1>2. Count(m) \in Nat /\ Count(m) >= 1
  BY Whole
<1>3. \A o \in Opened(c, m) : o \in 1 .. Count(m)
  BY <1>2, OpenedShape
<1>4. Children(What(c, f)) = 0
  BY NoChildren DEF What
<1> QED BY <1>1, <1>2, <1>3, <1>4

LEMMA SentShape ==
  ASSUME NEW m, WellFormed(m), NEW c \in {"make", "get"}, NEW f \in Fields, NEW j, j \in Sent(c, m, f)
  PROVE  /\ j \in 2 .. Count(m)
         /\ \E h \in Where(c, m, f) : j \in ChildrenOf(m, h) /\ h \in 1 .. Count(m)
<1>1. \E h \in Where(c, m, f) : \E k \in Keys(m, h) :
           /\ ItemAt(m, k) = What(c, f) /\ j = k + 1 /\ j \in h + 1 .. Count(m)
           /\ j \in ChildrenOf(m, h) /\ j \notin Keys(m, h)
  BY WhereShape, UnderShape DEF Sent
<1>2. Count(m) \in Nat /\ Where(c, m, f) \in SUBSET (1 .. Count(m))
  BY Whole, WhereShape
<1> QED BY <1>1, <1>2

(* The item s, of no interest to the parser, is being passed over at k.    *)
Passing(c, m, s, low, k) ==
  /\ s \in 2 .. k /\ Owed(m, s) = low + 1 /\ \A j \in s + 1 .. k - 1 : Owed(m, j) > low
  /\ s \notin Opened(c, m) /\ \A f \in Fields : s \notin Sent(c, m, f)

LEMMA NothingSentInside ==
  ASSUME NEW m, WellFormed(m), NEW c \in {"make", "get"}, NEW f \in Fields, NEW low \in Int,
         NEW k \in 1 .. Count(m), NEW s, Passing(c, m, s, low, k), Owed(m, k) > low
  PROVE  k \notin Sent(c, m, f)
<1> SUFFICES ASSUME k \in Sent(c, m, f)
             PROVE  FALSE
  OBVIOUS
<1>1. /\ Count(m) \in Nat /\ Layout(m) /\ s \in 2 .. k /\ Owed(m, s) = low + 1
      /\ \A j \in s + 1 .. k - 1 : Owed(m, j) > low
      /\ s \notin Opened(c, m) /\ s # k
  BY Whole DEF Passing
<1>2. ASSUME NEW j \in s + 1 .. k, NEW h \in 1 .. Count(m), j \in ChildrenOf(m, h)
      PROVE  h >= s /\ h < j
  <2>1. h >= s
    BY <1>1, <1>2, ParentNotBefore
  <2>2. j \in h + 1 .. Count(m)
    BY <1>2, InChildren
  <2> QED BY <1>1, <2>1, <2>2
<1>3. PICK h \in Where(c, m, f) : k \in ChildrenOf(m, h) /\ h \in 1 .. Count(m)
  BY SentShape
<1>4. h >= s /\ h < k
  BY <1>1, <1>2, <1>3
<1>5. h \in Opened(c, m)
  BY <1>1, <1>4, WhereShape
<1>6. h \in s + 1 .. k
  BY <1>1, <1>3, <1>4, <1>5
<1>7. CASE h \in ChildrenOf(m, 1)
  <2>1. 1 \in 1 .. Count(m)
    BY <1>1
  <2>2. 1 >= s
    BY <1>2, <1>6, <1>7, <2>1
  <2> QED BY <1>1, <2>2
<1>8. CASE \E v \in Opened(c, m) : h \in ChildrenOf(m, v) /\ v \in ChildrenOf(m, 1) /\ v \in 2 .. Count(m)
  <2>1. PICK v \in Opened(c, m) : h \in ChildrenOf(m, v) /\ v \in ChildrenOf(m, 1) /\ v \in 2 .. Count(m)
    BY <1>8
  <2>2. v \in 1 .. Count(m) /\ 1 \in 1 .. Count(m)
    BY <1>1, <2>1
  <2>3. v >= s /\ v < h
    BY <1>2, <1>6, <2>1, <2>2
  <2>4. v \in s + 1 .. k
    BY <1>1, <1>6, <2>1, <2>3
  <2>5. 1 >= s
    BY <1>2, <2>1, <2>2, <2>4
  <2> QED BY <1>1, <2>5
<1> QED BY <1>5, <1>7, <1>8, OpenedShape

-----------------------------------------------------------------------------
(* What the parser has got. *)

(* The pointers are those of the last strings before k. *)
Span(m, j) ==
  [at |-> Start(m, j) + HeadSize(ItemAt(m, j)), len |-> ItemAt(m, j).n, end |-> Start(m, j + 1)]
GotUpTo(c, m, g, k) ==
  \A f \in Fields :
    \/ g[f] = Null /\ \A j \in Sent(c, m, f) : j >= k
    \/ \E j \in Sent(c, m, f) : /\ j < k /\ g[f] = Span(m, j)
                                /\ \A i \in Sent(c, m, f) : i >= k \/ i <= j

LEMMA SpanShape ==
  ASSUME NEW m, Layout(m), NEW j \in 1 .. Count(m)
  PROVE  /\ Span(m, j) \in [at : Nat, len : Nat, end : 0 .. Total(m)] /\ Span(m, j) # Null
         /\ Span(m, j).len = ItemAt(m, j).n /\ Span(m, j).end = Start(m, j + 1)
<1>1. /\ Sound(ItemAt(m, j)) /\ Start(m, j) \in Nat /\ Start(m, j + 1) \in Nat
      /\ Start(m, j + 1) <= Total(m) /\ Start(m, j + 1) = Start(m, j) + Size(ItemAt(m, j))
  BY LaidItem
<1>2. /\ HeadSize(ItemAt(m, j)) \in Nat /\ Size(ItemAt(m, j)) \in Nat /\ 1 <= Size(ItemAt(m, j))
      /\ ItemAt(m, j).n \in Nat
  BY <1>1, SizeShape, ItemShape
<1>3. Start(m, j + 1) \in 0 .. Total(m) /\ Start(m, j + 1) # 0
  BY <1>1, <1>2, Laid
<1> QED BY <1>1, <1>2, <1>3 DEF Span, Null

(* What the reader makes of an item of a message. *)
LEMMA ItemRead ==
  ASSUME NEW m, Layout(m), NEW k \in 1 .. Count(m),
         NEW b, b = m.bytes, NEW p, p = Start(m, k), NEW x, x = ItemAt(m, k)
  PROVE  /\ p < Len(b) /\ MajorType(b, p) = x.mt /\ LowBits(b, p) \in 0 .. 31
         /\ x.n <= 23 => LowBits(b, p) = x.n
         /\ x.n <= 23 /\ x.mt \notin {2, 3} => Start(m, k + 1) = p + 1
         /\ x.n <= 255 /\ x.mt \notin {2, 3} => ReadKey(b, p) = [n |-> x.n, end |-> Start(m, k + 1)]
         /\ x.mt \in {2, 3} => ReadBytes(b, p) = Span(m, k) /\ Content(b, ReadBytes(b, p)) = x.data
         /\ x.mt \in {2, 3} => Content(b, Span(m, k)) = x.data
<1>1. /\ Sound(x) /\ Lies(b, p, x) /\ p \in Nat /\ b \in Seq(Byte)
      /\ Start(m, k + 1) = p + Size(x)
  BY Laid, LaidItem
<1>2. /\ p < Len(b) /\ MajorType(b, p) = x.mt /\ LowBits(b, p) \in 0 .. 31
      /\ x.n <= 23 => LowBits(b, p) = x.n /\ HeadSize(x) = 1
      /\ x.n <= 255 => LowBits(b, p) <= 24 /\ TwoBytes(x.n)
      /\ TwoBytes(x.n) => Argument(b, p) = [n |-> x.n, end |-> p + HeadSize(x)]
  BY <1>1, HeadRead
<1>3. /\ HeadSize(x) \in Nat /\ Size(x) = HeadSize(x) + DataSize(x)
      /\ x.mt \notin {2, 3} => DataSize(x) = 0
  BY <1>1, SizeShape, ItemShape
<1>4. x.mt \notin {2, 3} => Start(m, k + 1) = p + HeadSize(x)
  BY <1>1, <1>3
<1>5. x.n <= 255 /\ x.mt \notin {2, 3} => ReadKey(b, p) = [n |-> x.n, end |-> Start(m, k + 1)]
  BY <1>2, <1>4 DEF ReadKey
<1>6. ASSUME x.mt \in {2, 3}
      PROVE  ReadBytes(b, p) = Span(m, k) /\ Content(b, ReadBytes(b, p)) = x.data
  <2>1. /\ ReadBytes(b, p) = [at |-> p + HeadSize(x), len |-> x.n, end |-> p + Size(x)]
        /\ Content(b, ReadBytes(b, p)) = x.data
    BY <1>1, <1>6, StringRead
  <2>2. Span(m, k) = [at |-> p + HeadSize(x), len |-> x.n, end |-> p + Size(x)]
    BY <1>1 DEF Span
  <2> QED BY <2>1, <2>2
<1> QED BY <1>2, <1>4, <1>5, <1>6

LEMMA GotOn ==
  ASSUME NEW m, WellFormed(m), NEW c \in {"make", "get"}, NEW g, NEW k \in 1 .. Count(m),
         GotUpTo(c, m, g, k), \A f \in Fields : k \notin Sent(c, m, f)
  PROVE  GotUpTo(c, m, g, k + 1)
<1> SUFFICES ASSUME NEW f \in Fields
             PROVE  \/ g[f] = Null /\ \A j \in Sent(c, m, f) : j >= k + 1
                    \/ \E j \in Sent(c, m, f) : /\ j < k + 1 /\ g[f] = Span(m, j)
                                                /\ \A i \in Sent(c, m, f) : i >= k + 1 \/ i <= j
  BY DEF GotUpTo
<1>1. \A j \in Sent(c, m, f) : j \in Int /\ j # k
  BY SentShape
<1>2. k \in Int
  BY Whole
<1> QED BY <1>1, <1>2 DEF GotUpTo

LEMMA GotString ==
  ASSUME NEW m, WellFormed(m), NEW c \in {"make", "get"}, NEW T, NEW g \in [Fields -> T],
         NEW k \in 1 .. Count(m), GotUpTo(c, m, g, k),
         \A f \in Fields : k \notin Sent(c, m, f),
         NEW field \in Fields, k + 1 \in Sent(c, m, field),
         \A f \in Fields : k + 1 \in Sent(c, m, f) => f = field
  PROVE  GotUpTo(c, m, [g EXCEPT ![field] = Span(m, k + 1)], k + 2)
<1> SUFFICES ASSUME NEW f \in Fields
             PROVE  LET new == [g EXCEPT ![field] = Span(m, k + 1)]
                    IN \/ new[f] = Null /\ \A j \in Sent(c, m, f) : j >= k + 2
                       \/ \E j \in Sent(c, m, f) : /\ j < k + 2 /\ new[f] = Span(m, j)
                                                   /\ \A i \in Sent(c, m, f) : i >= k + 2 \/ i <= j
  BY DEF GotUpTo
<1>1. k \in Int /\ \A j \in Sent(c, m, f) : j \in Int /\ j # k
  BY Whole, SentShape
<1>2. CASE f = field
  <2>1. [g EXCEPT ![field] = Span(m, k + 1)][f] = Span(m, k + 1)
    BY <1>2
  <2>2. \A i \in Sent(c, m, f) : i >= k + 2 \/ i <= k + 1
    BY <1>1
  <2> QED BY <1>1, <1>2, <2>1, <2>2
<1>3. CASE f # field
  <2>1. [g EXCEPT ![field] = Span(m, k + 1)][f] = g[f]
    BY <1>3
  <2>2. \A j \in Sent(c, m, f) : j # k + 1
    BY <1>3
  <2>3. \A j \in Sent(c, m, f) : (j >= k => j >= k + 2) /\ (j < k => j < k + 2)
    BY <1>1, <2>2
  <2>4. \/ g[f] = Null /\ \A j \in Sent(c, m, f) : j >= k
        \/ \E j \in Sent(c, m, f) : /\ j < k /\ g[f] = Span(m, j)
                                    /\ \A i \in Sent(c, m, f) : i >= k \/ i <= j
    BY DEF GotUpTo
  <2> QED BY <2>1, <2>3, <2>4
<1> QED BY <1>2, <1>3

-----------------------------------------------------------------------------
(* What is known of a request. *)
IsRequest(c, m) == \E r \in Requests : c = r.cmd /\ m = r.msg

LEMMA Requested ==
  ASSUME NEW c, NEW m, IsRequest(c, m)
  PROVE  c \in {"make", "get"} /\ WellFormed(m) /\ Start(m, 1) = 0
BY RequestsAssumption DEF IsRequest, Start

LEMMA RequestTyped ==
  ASSUME NEW c, NEW m, IsRequest(c, m), ItemAt(m, 1).mt = 5
  PROVE  /\ Short(m, {1}) /\ \A k \in Keys(m, 1) : ItemAt(m, k).mt = 0 /\ ItemAt(m, k).n <= 255
         /\ c = "make" => /\ AreStrings(m, Given(m, 1))
                          /\ MembersTyped(m, Maps(m, Given(m, 2) \cup Given(m, 3)))
         /\ c = "get" => /\ AreStrings(m, Given(m, 1) \cup Given(m, 2))
                         /\ Short(m, Lists(m, Given(m, 3)))
                         /\ MembersTyped(m, Maps(m, Elements(m, Lists(m, Given(m, 3)))))
<1>1. PICK r \in Requests : c = r.cmd /\ m = r.msg
  BY DEF IsRequest
<1>2. Typed(r) /\ m.items[1].mt = 5
  BY <1>1, RequestsAssumption DEF ItemAt
<1> QED BY <1>1, <1>2 DEF Typed, Given, ItemAt

LEMMA RequestKeys ==
  ASSUME NEW c, NEW m, IsRequest(c, m), ItemAt(m, 1).mt = 5, NEW k, k \in Keys(m, 1)
  PROVE  /\ ItemAt(m, k).n \in 0 .. 255 /\ ItemAt(m, k) = Uint(ItemAt(m, k).n)
         /\ ItemAt(m, k).mt \notin {2, 3}
<1>1. ItemAt(m, k).mt = 0 /\ ItemAt(m, k).n <= 255
  BY RequestTyped
<1>2. k \in 1 .. Count(m) /\ Layout(m)
  BY Requested, Whole, InKeys, InChildren
<1>3. ItemAt(m, k) \in Item /\ ItemAt(m, k).data = << >>
  BY <1>1, <1>2, LaidItem DEF Sound
<1>4. \A x \in Item : x = [mt |-> x.mt, n |-> x.n, data |-> x.data] /\ x.n \in Nat
  BY DEF Item
<1>5. ItemAt(m, k) = [mt |-> 0, n |-> ItemAt(m, k).n, data |-> << >>]
  BY <1>1, <1>3, <1>4, Zenon
<1>6. ItemAt(m, k).n \in Nat
  BY <1>3, <1>4, Zenon
<1>7. ItemAt(m, k) = Uint(ItemAt(m, k).n)
  BY <1>5, Zenon DEF Uint
<1> QED BY <1>1, <1>6, <1>7

LEMMA RequestMaps ==
  ASSUME NEW c, NEW m, IsRequest(c, m), ItemAt(m, 1).mt = 5,
         NEW p \in (IF c = "make" THEN {2, 3} ELSE {3}), NEW h, h \in OpenMaps(c, m, p)
  PROVE  /\ h \in Opened(c, m) /\ h \in 2 .. Count(m) /\ h \in 1 .. Count(m)
         /\ ItemAt(m, h).mt = 5 /\ ItemAt(m, h).n <= 23
         /\ \A k \in Keys(m, h) : ItemAt(m, k).mt = 3
<1>1. h \in Opened(c, m)
  BY Requested DEF OpenMaps, Opened
<1>2. h \in 2 .. Count(m) /\ Count(m) \in Nat
  BY <1>1, Requested, OpenedShape, Whole
<1>3. CASE c = "make"
  <2>1. h \in Maps(m, Given(m, 2) \cup Given(m, 3))
    BY <1>3 DEF OpenMaps, Maps
  <2>2. MembersTyped(m, Maps(m, Given(m, 2) \cup Given(m, 3)))
    BY <1>3, RequestTyped
  <2> QED BY <1>1, <1>2, <2>1, <2>2 DEF MembersTyped, Short, KeysOf, Maps, ItemAt
<1>4. CASE c = "get"
  <2>1. h \in Maps(m, Elements(m, Lists(m, Given(m, 3))))
    BY <1>4 DEF OpenMaps
  <2>2. MembersTyped(m, Maps(m, Elements(m, Lists(m, Given(m, 3)))))
    BY <1>4, RequestTyped
  <2> QED BY <1>1, <1>2, <2>1, <2>2 DEF MembersTyped, Short, KeysOf, Maps, ItemAt
<1> QED BY <1>3, <1>4, Requested

LEMMA RequestStrings ==
  ASSUME NEW c, NEW m, IsRequest(c, m), ItemAt(m, 1).mt = 5, NEW f \in Fields,
         NEW j, j \in Sent(c, m, f)
  PROVE  ItemAt(m, j).mt \in {2, 3}
<1>1. j \in Under(m, Where(c, m, f), What(c, f))
  BY DEF Sent
<1>2. \A H, G, key : Under(m, H, key) \subseteq Under(m, H \cup G, key)
  BY DEF Under, KeysOf
<1>3. \A H : AreStrings(m, H) => \A i \in H : ItemAt(m, i).mt \in {2, 3}
  BY DEF AreStrings, ItemAt
<1>4. CASE f = "hash" \/ (c = "get" /\ f = "rp")
  <2>1. Where(c, m, f) = {1}
    BY <1>4 DEF Where
  <2>2. CASE c = "make"
    <3>1. What(c, f) = Uint(1) /\ AreStrings(m, Given(m, 1))
      BY <1>4, <2>2, RequestTyped DEF What
    <3> QED BY <1>1, <1>3, <2>1, <3>1 DEF Given
  <2>3. CASE c = "get"
    <3>1. What(c, f) \in {Uint(1), Uint(2)} /\ AreStrings(m, Given(m, 1) \cup Given(m, 2))
      BY <1>4, <2>3, RequestTyped DEF What
    <3>2. j \in Given(m, 1) \cup Given(m, 2)
      BY <1>1, <2>1, <3>1 DEF Given
    <3> QED BY <1>3, <3>1, <3>2
  <2> QED BY <2>2, <2>3, Requested
<1>5. CASE c = "make" /\ f \in {"rp", "user_id", "user_name"}
  <2> DEFINE H == Maps(m, Given(m, 2))
             G == Maps(m, Given(m, 3))
  <2>1. Maps(m, Given(m, 2) \cup Given(m, 3)) = H \cup G /\ H \cup G = G \cup H
    BY DEF Maps
  <2>2. AreStrings(m, Under(m, H \cup G, Text(Id)) \cup Under(m, H \cup G, Text(Name)))
    BY <1>5, <2>1, RequestTyped DEF MembersTyped
  <2>3. What(c, f) \in {Text(Id), Text(Name)} /\ Where(c, m, f) \in {H, G}
    BY <1>5 DEF What, Where
  <2> HIDE DEF H, G
  <2>4. j \in Under(m, H \cup G, What(c, f))
    BY <1>1, <1>2, <2>1, <2>3
  <2>5. j \in Under(m, H \cup G, Text(Id)) \cup Under(m, H \cup G, Text(Name))
    BY <2>3, <2>4
  <2> QED BY <1>3, <2>2, <2>5
<1>6. CASE c = "get" /\ f = "allow"
  <2> DEFINE H == Maps(m, Elements(m, Lists(m, Given(m, 3))))
  <2>1. AreStrings(m, Under(m, H, Text(Id)) \cup Under(m, H, Text(Name)))
    BY <1>6, RequestTyped DEF MembersTyped
  <2>2. What(c, f) = Text(Id) /\ Where(c, m, f) = H
    BY <1>6 DEF What, Where
  <2> HIDE DEF H
  <2> QED BY <1>1, <1>3, <2>1, <2>2
<1>7. CASE Where(c, m, f) = {}
  BY <1>1, <1>7 DEF Under, KeysOf
<1> QED BY <1>4, <1>5, <1>6, <1>7, Requested DEF Where, Fields

LEMMA RequestLists ==
  ASSUME NEW m, IsRequest("get", m), ItemAt(m, 1).mt = 5, NEW h, h \in Lists(m, Given(m, 3))
  PROVE  /\ h \in Opened("get", m) /\ h \in 2 .. Count(m) /\ h \in 1 .. Count(m)
         /\ ItemAt(m, h).mt = 4 /\ ItemAt(m, h).n <= 23
<1>1. h \in Opened("get", m)
  BY DEF Opened
<1>2. h \in 2 .. Count(m) /\ Count(m) \in Nat
  BY <1>1, Requested, OpenedShape, Whole
<1>3. Short(m, Lists(m, Given(m, 3)))
  BY RequestTyped
<1> QED BY <1>1, <1>2, <1>3 DEF Short, Lists, ItemAt

-----------------------------------------------------------------------------
(* Where the parser stands with l, e, q and n rounds of its loops to go:   *)
(* at the item k of m, inside of the map of the request, of an allow list  *)
(* if it has elements to go, of a map if it has members to go, and before  *)
(* the rest of what it passes over.                                        *)
ParamsWithMaps(c) == IF c = "make" THEN {2, 3} ELSE {3}
Loops(c, m, l, e, q, a, k) ==
  /\ Within(m, 1, 0, 2 * l, k)
  /\ e > 0 => c = "get" /\ a = 3 /\ \E h \in Lists(m, Given(m, 3)) : Within(m, h, 2 * l, 2 * l + e, k)
  /\ q > 0 => /\ a \in ParamsWithMaps(c)
              /\ \E h \in OpenMaps(c, m, a) : Within(m, h, 2 * l + e, 2 * l + e + 2 * q, k)
Stands(c, m, l, e, q, n, a, g, k) ==
  /\ Owed(m, k) = 2 * l + e + 2 * q + n
  /\ Loops(c, m, l, e, q, a, k)
  /\ n > 0 => \E s \in 2 .. k : Passing(c, m, s, 2 * l + e + 2 * q, k)
  /\ GotUpTo(c, m, g, k)

LEMMA StandsLater ==
  ASSUME NEW m, WellFormed(m), NEW c, NEW l \in Nat, NEW e \in Nat, NEW q \in Nat, NEW n \in Nat,
         NEW a, NEW g, NEW k \in 2 .. Count(m) + 1, Stands(c, m, l, e, q, n, a, g, k),
         2 * l + e + 2 * q + n > 0
  PROVE  k \in 1 .. Count(m)
<1>1. Owed(m, k) > 0 /\ Count(m) \in Nat /\ Owed(m, Count(m) + 1) = 0
  BY Whole DEF Stands, Loops
<1> QED BY <1>1

LEMMA StandsAtEnd ==
  ASSUME NEW m, WellFormed(m), NEW c, NEW a, NEW g, NEW k \in 2 .. Count(m) + 1,
         Stands(c, m, 0, 0, 0, 0, a, g, k)
  PROVE  k = Count(m) + 1
<1>1. Owed(m, k) = 0 /\ Count(m) \in Nat /\ \A j \in 1 .. Count(m) : Owed(m, j) >= 1
  BY Whole DEF Stands, Loops
<1> QED BY <1>1

(* One item more is passed over. *)
LEMMA StandsPassing ==
  ASSUME NEW c, NEW m, IsRequest(c, m),
         NEW l \in Nat, NEW e \in Nat, NEW q \in Nat, NEW n \in Nat, NEW a, NEW g,
         NEW k \in 2 .. Count(m) + 1, Stands(c, m, l, e, q, n, a, g, k), n > 0
  PROVE  Stands(c, m, l, e, q, n - 1 + Children(ItemAt(m, k)), a, g, k + 1)
<1> DEFINE d1 == 2 * l
           d2 == 2 * l + e
           d3 == 2 * l + e + 2 * q
<1>1. c \in {"make", "get"} /\ WellFormed(m) /\ Layout(m) /\ Count(m) \in Nat
  BY Requested, Whole
<1>2. k \in 1 .. Count(m)
  BY <1>1, StandsLater
<1>3. /\ d1 \in Int /\ d2 \in Int /\ d3 \in Int /\ d1 <= d2 /\ d2 <= d3
      /\ Owed(m, k) = d3 + n /\ Owed(m, k) > d3 /\ Owed(m, k) > d2 /\ Owed(m, k) > d1
  BY DEF Stands, Loops
<1>4. Owed(m, k + 1) = d3 + (n - 1 + Children(ItemAt(m, k)))
  BY <1>1, <1>2, <1>3, LaidItem
<1>5. /\ Within(m, 1, 0, d1, k)
      /\ e > 0 => c = "get" /\ a = 3 /\ \E h \in Lists(m, Given(m, 3)) : Within(m, h, d1, d2, k)
      /\ q > 0 => a \in ParamsWithMaps(c) /\ \E h \in OpenMaps(c, m, a) : Within(m, h, d2, d3, k)
      /\ \E s \in 2 .. k : Passing(c, m, s, d3, k)
      /\ GotUpTo(c, m, g, k)
  BY DEF Stands, Loops
<1> HIDE DEF d1, d2, d3
<1>6. Within(m, 1, 0, d1, k + 1)
  BY <1>1, <1>2, <1>3, <1>5, WithinOn
<1>7. e > 0 => c = "get" /\ a = 3 /\ \E h \in Lists(m, Given(m, 3)) : Within(m, h, d1, d2, k + 1)
  BY <1>1, <1>2, <1>3, <1>5, WithinOn
<1>8. q > 0 => a \in ParamsWithMaps(c) /\ \E h \in OpenMaps(c, m, a) : Within(m, h, d2, d3, k + 1)
  BY <1>1, <1>2, <1>3, <1>5, WithinOn
<1>9. PICK s \in 2 .. k : Passing(c, m, s, d3, k)
  BY <1>5
<1>10. s \in 2 .. k + 1 /\ Passing(c, m, s, d3, k + 1)
  <2>1. s \in 2 .. k + 1 /\ Owed(m, s) = d3 + 1
    BY <1>2, <1>9 DEF Passing
  <2>2. \A j \in s + 1 .. (k + 1) - 1 : j = k \/ j \in s + 1 .. k - 1
    BY <1>2
  <2>3. \A j \in s + 1 .. (k + 1) - 1 : Owed(m, j) > d3
    BY <1>3, <1>9, <2>2 DEF Passing
  <2> QED BY <1>9, <2>1, <2>3 DEF Passing
<1>11. GotUpTo(c, m, g, k + 1)
  <2>1. \A f \in Fields : k \notin Sent(c, m, f)
    BY <1>1, <1>2, <1>3, <1>9, NothingSentInside
  <2> QED BY <1>1, <1>2, <1>5, <2>1, GotOn
<1> QED BY <1>4, <1>6, <1>7, <1>8, <1>10, <1>11 DEF Stands, Loops, d1, d2, d3

(* Between two pairs of a map the next item is a key. *)
LEMMA KeyAhead ==
  ASSUME NEW m, WellFormed(m), NEW k \in 2 .. Count(m) + 1, NEW h, NEW base \in Nat, NEW low \in Nat,
         Within(m, h, base, low, k), Owed(m, k) = low, low > base, (low - base) % 2 = 0
  PROVE  k \in 1 .. Count(m) /\ h \in 1 .. Count(m) /\ k \in Keys(m, h)
<1>1. Count(m) \in Nat /\ Owed(m, Count(m) + 1) = 0 /\ Layout(m)
  BY Whole
<1>2. k \in 1 .. Count(m) /\ h \in 1 .. Count(m)
  BY <1>1 DEF Within
<1>3. k \in ChildrenOf(m, h) /\ Owed(m, k) - Owed(m, h) + 1 = low - base
  BY <1>1, <1>2, WithinChild
<1> QED BY <1>2, <1>3, InKeys

LEMMA WithinPair ==
  ASSUME NEW m, Layout(m), NEW k \in 1 .. Count(m), k + 1 \in 1 .. Count(m), NEW h, NEW base,
         NEW low \in Int, Within(m, h, base, low, k),
         NEW next \in Int, next <= low, Owed(m, k) > next, Owed(m, k + 1) > next
  PROVE  Within(m, h, base, next, k + 1) /\ Within(m, h, base, next, k + 2)
<1>1. Within(m, h, base, next, k + 1)
  BY WithinOn
<1>2. Within(m, h, base, next, (k + 1) + 1)
  BY <1>1, WithinOn
<1>3. (k + 1) + 1 = k + 2
  BY Laid
<1> QED BY <1>1, <1>2, <1>3

(* A field has one place. *)
LEMMA GivenOnce ==
  ASSUME NEW m, WellFormed(m), NEW i, NEW j, NEW v, v \in Given(m, i), v \in Given(m, j)
  PROVE  i = j
<1>1. PICK k \in Keys(m, 1) : v = k + 1 /\ ItemAt(m, k) = Uint(i)
  BY GivenShape
<1>2. PICK n \in Keys(m, 1) : v = n + 1 /\ ItemAt(m, n) = Uint(j)
  BY GivenShape
<1>3. k \in Int /\ n \in Int
  <2>1. Count(m) \in Nat
    BY Whole
  <2>2. k \in 1 + 1 .. Count(m) /\ n \in 1 + 1 .. Count(m)
    BY InKeys, InChildren
  <2> QED BY <2>1, <2>2
<1>4. Uint(i) = Uint(j)
  BY <1>1, <1>2, <1>3
<1> QED BY <1>4 DEF Uint

LEMMA FieldsOfRequest ==
  ASSUME NEW m, WellFormed(m), cmd \in {"make", "get"}, NEW n \in Nat, NEW f \in Fields
  PROVE  1 \in Where(cmd, m, f) /\ What(cmd, f) = Uint(n) <=> StringField(n) = f
<1>1. 1 \in Where(cmd, m, f) <=> f = "hash" \/ (cmd = "get" /\ f = "rp")
  <2>1. 1 \notin Opened(cmd, m)
    BY OpenedShape
  <2> QED BY <2>1 DEF Where, Opened, Maps
<1>2. \A i : Uint(i) = Uint(n) <=> i = n
  BY DEF Uint
<1> QED BY <1>1, <1>2 DEF What, StringField, Fields

LEMMA FieldsOfMaps ==
  ASSUME NEW m, WellFormed(m), cmd \in {"make", "get"}, param \in ParamsWithMaps(cmd),
         NEW h, h \in OpenMaps(cmd, m, param), NEW name, NEW f \in Fields
  PROVE  h \in Where(cmd, m, f) /\ What(cmd, f) = Text(name) <=> MemberField(name) = f
<1>1. h # 1
  <2>1. h \in Opened(cmd, m)
    BY DEF Opened, OpenMaps, ParamsWithMaps
  <2> QED BY <2>1, OpenedShape
<1>2. \A t : Text(t) = Text(name) <=> t = name
  BY DEF Text
<1>3. Id # Name
  BY DEF Id, Name
<1>4. CASE cmd = "make"
  <2>1. h \in Maps(m, Given(m, 2)) <=> param = 2
    BY <1>4, GivenOnce DEF OpenMaps, ParamsWithMaps, Maps
  <2>2. h \in Maps(m, Given(m, 3)) <=> param = 3
    BY <1>4, GivenOnce DEF OpenMaps, ParamsWithMaps, Maps
  <2>3. param \in {2, 3}
    BY <1>4 DEF ParamsWithMaps
  <2> QED BY <1>1, <1>2, <1>3, <1>4, <2>1, <2>2, <2>3 DEF Where, What, MemberField, Fields
<1>5. CASE cmd = "get"
  <2>1. h \in Maps(m, Elements(m, Lists(m, Given(m, 3)))) /\ param = 3
    BY <1>5 DEF OpenMaps, ParamsWithMaps
  <2> QED BY <1>1, <1>2, <1>5, <2>1 DEF Where, What, MemberField, Fields
<1> QED BY <1>4, <1>5

-----------------------------------------------------------------------------
(* The rounds of the loop over the request. *)
LEMMA EntryAhead ==
  ASSUME IsRequest(cmd, buf), ItemAt(buf, 1).mt = 5, NEW l \in Nat, l > 0, NEW a, NEW g,
         NEW k \in 2 .. Count(buf) + 1, Stands(cmd, buf, l, 0, 0, 0, a, g, k)
  PROVE  /\ k \in 1 .. Count(buf) /\ k + 1 \in 1 .. Count(buf) /\ k \in Keys(buf, 1)
         /\ Owed(buf, k) = 2 * l /\ Owed(buf, k + 1) = 2 * l - 1
         /\ Within(buf, 1, 0, 2 * (l - 1), k + 1) /\ Within(buf, 1, 0, 2 * (l - 1), k + 2)
         /\ ItemAt(buf, k) = Uint(ItemAt(buf, k).n) /\ ItemAt(buf, k).n \in 0 .. 255
         /\ \A f \in Fields :
              /\ k \notin Sent(cmd, buf, f)
              /\ k + 1 \in Sent(cmd, buf, f) <=> StringField(ItemAt(buf, k).n) = f
<1>1. cmd \in {"make", "get"} /\ WellFormed(buf) /\ Layout(buf) /\ Count(buf) \in Nat /\ Count(buf) >= 1
  BY Requested, Whole
<1>2. Owed(buf, k) = 2 * l /\ Within(buf, 1, 0, 2 * l, k)
  BY DEF Stands, Loops
<1>3. k \in 1 .. Count(buf) /\ k \in Keys(buf, 1)
  <2>1. 2 * l \in Nat /\ 2 * l > 0 /\ (2 * l - 0) % 2 = 0
    OBVIOUS
  <2> QED BY <1>1, <1>2, <2>1, KeyAhead
<1>4. /\ ItemAt(buf, k).n \in 0 .. 255 /\ ItemAt(buf, k) = Uint(ItemAt(buf, k).n)
      /\ Children(ItemAt(buf, k)) = 0
  BY <1>3, RequestKeys, NoChildren
<1>5. 1 \in 1 .. Count(buf)
  BY <1>1
<1>6. /\ k + 1 <= Count(buf) /\ Owed(buf, k + 1) = Owed(buf, k) - 1
  BY <1>1, <1>3, <1>4, <1>5, AfterKey
<1>7. k + 1 \in 1 .. Count(buf) /\ Owed(buf, k + 1) = 2 * l - 1
  BY <1>1, <1>2, <1>3, <1>6
<1>8. Within(buf, 1, 0, 2 * (l - 1), k + 1) /\ Within(buf, 1, 0, 2 * (l - 1), k + 2)
  <2>1. /\ 2 * l \in Int /\ 2 * (l - 1) \in Int /\ 2 * (l - 1) <= 2 * l
        /\ Owed(buf, k) > 2 * (l - 1) /\ Owed(buf, k + 1) > 2 * (l - 1)
    BY <1>2, <1>7
  <2> QED BY <1>1, <1>2, <1>3, <1>7, <2>1, WithinPair
<1>9. ASSUME NEW f \in Fields
      PROVE  /\ k \notin Sent(cmd, buf, f)
             /\ k + 1 \in Sent(cmd, buf, f) <=> StringField(ItemAt(buf, k).n) = f
  <2>1. Where(cmd, buf, f) \in SUBSET (1 .. Count(buf)) /\ Children(What(cmd, f)) = 0
    BY <1>1, WhereShape
  <2>2. /\ k \notin Sent(cmd, buf, f)
        /\ k + 1 \in Sent(cmd, buf, f) => 1 \in Where(cmd, buf, f) /\ ItemAt(buf, k) = What(cmd, f)
    BY <1>1, <1>3, <1>4, <1>5, <2>1, PairIsOnce DEF Sent
  <2>3. 1 \in Where(cmd, buf, f) /\ ItemAt(buf, k) = What(cmd, f) => k + 1 \in Sent(cmd, buf, f)
    BY <1>3, IntoUnder DEF Sent
  <2>4. ItemAt(buf, k).n \in Nat
    BY <1>4
  <2>5. 1 \in Where(cmd, buf, f) /\ What(cmd, f) = Uint(ItemAt(buf, k).n)
          <=> StringField(ItemAt(buf, k).n) = f
    BY <1>1, <2>4, FieldsOfRequest
  <2> QED BY <1>4, <2>2, <2>3, <2>5
<1> QED BY <1>2, <1>3, <1>4, <1>7, <1>8, <1>9

LEMMA OpenedValue ==
  ASSUME NEW m, WellFormed(m), NEW c \in {"make", "get"}, NEW n, NEW k, k \in Keys(m, 1),
         ItemAt(m, k) = Uint(n)
  PROVE  /\ k + 1 \in Given(m, n)
         /\ k + 1 \in Opened(c, m) => \/ c = "make" /\ n \in {2, 3} /\ ItemAt(m, k + 1).mt = 5
                                      \/ c = "get" /\ n = 3 /\ ItemAt(m, k + 1).mt = 4
<1>1. Layout(m) /\ Count(m) \in Nat /\ 1 \in 1 .. Count(m)
  BY Whole
<1>2. k + 1 \in Given(m, n)
  BY IntoUnder DEF Given
<1>3. k + 1 \in ChildrenOf(m, 1)
  BY <1>2, GivenShape
<1>4. ASSUME NEW i, k + 1 \in Given(m, i)
      PROVE  n = i
  BY <1>2, <1>4, GivenOnce
<1>5. k + 1 \notin Elements(m, Lists(m, Given(m, 3)))
  <2> SUFFICES ASSUME NEW v \in Lists(m, Given(m, 3)), k + 1 \in ChildrenOf(m, v)
               PROVE  FALSE
    BY DEF Elements
  <2>1. v \in 2 .. Count(m)
    BY GivenShape DEF Lists
  <2>2. v = 1
    BY <1>1, <1>3, <2>1, OneParent
  <2> QED BY <2>1, <2>2
<1> QED BY <1>2, <1>4, <1>5 DEF Opened, Maps, Lists, ItemAt

(* A string is kept. *)
LEMMA EntryString ==
  ASSUME IsRequest(cmd, buf), ItemAt(buf, 1).mt = 5, NEW l \in Nat, l > 0, NEW a,
         NEW T, NEW g \in [Fields -> T],
         NEW k \in 2 .. Count(buf) + 1, Stands(cmd, buf, l, 0, 0, 0, a, g, k),
         NEW f \in Fields, StringField(ItemAt(buf, k).n) = f, NEW b
  PROVE  /\ ItemAt(buf, k + 1).mt \in {2, 3} /\ k + 2 \in 2 .. Count(buf) + 1
         /\ Stands(cmd, buf, l - 1, 0, 0, 0, b, [g EXCEPT ![f] = Span(buf, k + 1)], k + 2)
<1>1. cmd \in {"make", "get"} /\ WellFormed(buf) /\ Layout(buf) /\ Count(buf) \in Nat
  BY Requested, Whole
<1>2. /\ k \in 1 .. Count(buf) /\ k + 1 \in 1 .. Count(buf) /\ k \in Keys(buf, 1)
      /\ Owed(buf, k + 1) = 2 * l - 1
      /\ Within(buf, 1, 0, 2 * (l - 1), k + 2)
      /\ \A i \in Fields : /\ k \notin Sent(cmd, buf, i)
                           /\ k + 1 \in Sent(cmd, buf, i) <=> f = i
  BY EntryAhead
<1>3. k + 1 \in Sent(cmd, buf, f)
  BY <1>2
<1>4. ItemAt(buf, k + 1).mt \in {2, 3}
  BY <1>3, RequestStrings
<1>5. Children(ItemAt(buf, k + 1)) = 0
  BY <1>4 DEF Children
<1>6. Owed(buf, (k + 1) + 1) = Owed(buf, k + 1) - 1 + Children(ItemAt(buf, k + 1))
  BY <1>1, <1>2, LaidItem
<1>7. (k + 1) + 1 = k + 2 /\ k + 2 \in 2 .. Count(buf) + 1
  BY <1>1, <1>2
<1>8. Owed(buf, k + 2) = 2 * (l - 1) + 0 + 2 * 0 + 0
  BY <1>2, <1>5, <1>6, <1>7
<1>9. GotUpTo(cmd, buf, g, k)
  BY DEF Stands, Loops
<1>10. GotUpTo(cmd, buf, [g EXCEPT ![f] = Span(buf, k + 1)], k + 2)
  BY <1>1, <1>2, <1>3, <1>9, GotString
<1> QED BY <1>2, <1>4, <1>7, <1>8, <1>10 DEF Stands, Loops

(* A map or a list is gone into. *)
LEMMA EntryOn ==
  ASSUME IsRequest(cmd, buf), ItemAt(buf, 1).mt = 5, NEW l \in Nat, l > 0, NEW a, NEW g,
         NEW k \in 2 .. Count(buf) + 1, Stands(cmd, buf, l, 0, 0, 0, a, g, k),
         StringField(ItemAt(buf, k).n) = "none"
  PROVE  /\ k + 1 \in 1 .. Count(buf) /\ k + 1 \in 2 .. Count(buf) + 1 /\ k + 2 \in 2 .. Count(buf) + 1
         /\ \A f \in Fields : k + 1 \notin Sent(cmd, buf, f)
         /\ GotUpTo(cmd, buf, g, k + 1) /\ GotUpTo(cmd, buf, g, k + 2)
         /\ \A low : Within(buf, k + 1, 2 * (l - 1), low, k + 2)
         /\ Owed(buf, k + 2) = 2 * (l - 1) + Children(ItemAt(buf, k + 1))
<1>1. cmd \in {"make", "get"} /\ WellFormed(buf) /\ Layout(buf) /\ Count(buf) \in Nat
  BY Requested, Whole
<1>2. /\ k \in 1 .. Count(buf) /\ k + 1 \in 1 .. Count(buf)
      /\ Owed(buf, k + 1) = 2 * l - 1
      /\ \A f \in Fields : /\ k \notin Sent(cmd, buf, f)
                           /\ k + 1 \in Sent(cmd, buf, f) <=> StringField(ItemAt(buf, k).n) = f
  BY EntryAhead
<1>3. (k + 1) + 1 = k + 2 /\ k + 1 \in 2 .. Count(buf) + 1 /\ k + 2 \in 2 .. Count(buf) + 1
  BY <1>1, <1>2
<1>4. \A f \in Fields : k + 1 \notin Sent(cmd, buf, f)
  BY <1>2 DEF Fields
<1>5. GotUpTo(cmd, buf, g, k + 1)
  BY <1>1, <1>2, GotOn DEF Stands, Loops
<1>6. GotUpTo(cmd, buf, g, (k + 1) + 1)
  BY <1>1, <1>2, <1>4, <1>5, GotOn
<1>7. Owed(buf, k + 1) = 2 * (l - 1) + 1
  BY <1>2
<1>8. ASSUME NEW low
      PROVE  Within(buf, k + 1, 2 * (l - 1), low, (k + 1) + 1)
  BY <1>1, <1>2, <1>7, WithinNew
<1>9. /\ Owed(buf, (k + 1) + 1) = Owed(buf, k + 1) - 1 + Children(ItemAt(buf, k + 1))
      /\ Children(ItemAt(buf, k + 1)) \in Nat
  BY <1>1, <1>2, LaidItem
<1>10. Owed(buf, k + 2) = 2 * (l - 1) + Children(ItemAt(buf, k + 1))
  BY <1>3, <1>7, <1>9
<1> QED BY <1>2, <1>3, <1>4, <1>5, <1>6, <1>8, <1>10

LEMMA EntryMap ==
  ASSUME IsRequest(cmd, buf), ItemAt(buf, 1).mt = 5, NEW l \in Nat, l > 0, NEW a, NEW g,
         NEW k \in 2 .. Count(buf) + 1, Stands(cmd, buf, l, 0, 0, 0, a, g, k),
         NEW n, n = ItemAt(buf, k).n, IsMap(n), ItemAt(buf, k + 1).mt = 5
  PROVE  /\ k + 1 \in 1 .. Count(buf) /\ k + 2 \in 2 .. Count(buf) + 1
         /\ ItemAt(buf, k + 1).n \in 0 .. 23
         /\ Stands(cmd, buf, l - 1, 0, ItemAt(buf, k + 1).n, 0, n, g, k + 2)
<1> DEFINE q == ItemAt(buf, k + 1).n
<1>1. cmd = "make" /\ n \in {2, 3} /\ StringField(n) = "none" /\ n \in ParamsWithMaps(cmd)
  BY DEF IsMap, StringField, ParamsWithMaps
<1>2. /\ k \in Keys(buf, 1) /\ ItemAt(buf, k) = Uint(n) /\ Within(buf, 1, 0, 2 * (l - 1), k + 2)
  BY EntryAhead
<1>3. /\ k + 1 \in 1 .. Count(buf) /\ k + 2 \in 2 .. Count(buf) + 1
      /\ GotUpTo(cmd, buf, g, k + 2)
      /\ \A low : Within(buf, k + 1, 2 * (l - 1), low, k + 2)
      /\ Owed(buf, k + 2) = 2 * (l - 1) + Children(ItemAt(buf, k + 1))
  BY <1>1, EntryOn
<1>4. k + 1 \in Given(buf, n)
  BY <1>2, Requested, OpenedValue
<1>5. k + 1 \in OpenMaps(cmd, buf, n)
  BY <1>1, <1>4 DEF OpenMaps, Maps, ItemAt
<1>6. q <= 23
  BY <1>1, <1>5, RequestMaps
<1>7. q \in Nat
  BY <1>3, Requested, Whole, LaidItem, ItemShape
<1>8. Children(ItemAt(buf, k + 1)) = 2 * q
  BY DEF Children
<1> HIDE DEF q
<1>9. Owed(buf, k + 2) = 2 * (l - 1) + 0 + 2 * q + 0 /\ 2 * (l - 1) + 0 = 2 * (l - 1)
  BY <1>3, <1>7, <1>8
<1>10. Within(buf, k + 1, 2 * (l - 1) + 0, 2 * (l - 1) + 0 + 2 * q, k + 2)
  BY <1>3, <1>9
<1>11. Stands(cmd, buf, l - 1, 0, q, 0, n, g, k + 2)
  BY <1>1, <1>2, <1>3, <1>5, <1>9, <1>10 DEF Stands, Loops
<1> QED BY <1>3, <1>6, <1>7, <1>11 DEF q

LEMMA EntryList ==
  ASSUME IsRequest(cmd, buf), ItemAt(buf, 1).mt = 5, NEW l \in Nat, l > 0, NEW a, NEW g,
         NEW k \in 2 .. Count(buf) + 1, Stands(cmd, buf, l, 0, 0, 0, a, g, k),
         NEW n, n = ItemAt(buf, k).n, IsList(n), ItemAt(buf, k + 1).mt = 4
  PROVE  /\ k + 1 \in 1 .. Count(buf) /\ k + 2 \in 2 .. Count(buf) + 1
         /\ ItemAt(buf, k + 1).n \in 0 .. 23
         /\ Stands(cmd, buf, l - 1, ItemAt(buf, k + 1).n, 0, 0, n, g, k + 2)
<1> DEFINE e == ItemAt(buf, k + 1).n
<1>1. cmd = "get" /\ n = 3 /\ StringField(n) = "none"
  BY DEF IsList, StringField
<1>2. /\ k \in Keys(buf, 1) /\ ItemAt(buf, k) = Uint(n) /\ Within(buf, 1, 0, 2 * (l - 1), k + 2)
  BY EntryAhead
<1>3. /\ k + 1 \in 1 .. Count(buf) /\ k + 2 \in 2 .. Count(buf) + 1
      /\ GotUpTo(cmd, buf, g, k + 2)
      /\ \A low : Within(buf, k + 1, 2 * (l - 1), low, k + 2)
      /\ Owed(buf, k + 2) = 2 * (l - 1) + Children(ItemAt(buf, k + 1))
  BY <1>1, EntryOn
<1>4. k + 1 \in Given(buf, n)
  BY <1>2, Requested, OpenedValue
<1>5. k + 1 \in Lists(buf, Given(buf, 3))
  BY <1>1, <1>4 DEF Lists, ItemAt
<1>6. e <= 23
  BY <1>1, <1>5, RequestLists
<1>7. e \in Nat
  BY <1>3, Requested, Whole, LaidItem, ItemShape
<1>8. Children(ItemAt(buf, k + 1)) = e
  BY DEF Children
<1> HIDE DEF e
<1>9. Owed(buf, k + 2) = 2 * (l - 1) + e + 2 * 0 + 0
  BY <1>3, <1>7, <1>8
<1>10. Within(buf, k + 1, 2 * (l - 1), 2 * (l - 1) + e, k + 2)
  BY <1>3
<1>11. Stands(cmd, buf, l - 1, e, 0, 0, n, g, k + 2)
  BY <1>1, <1>2, <1>3, <1>5, <1>9, <1>10 DEF Stands, Loops
<1> QED BY <1>3, <1>6, <1>7, <1>11 DEF e

(* What is neither is passed over. *)
LEMMA EntryPass ==
  ASSUME IsRequest(cmd, buf), ItemAt(buf, 1).mt = 5, NEW l \in Nat, l > 0, NEW a, NEW g,
         NEW k \in 2 .. Count(buf) + 1, Stands(cmd, buf, l, 0, 0, 0, a, g, k),
         NEW n, n = ItemAt(buf, k).n, StringField(n) = "none",
         ~(IsMap(n) /\ ItemAt(buf, k + 1).mt = 5), ~(IsList(n) /\ ItemAt(buf, k + 1).mt = 4)
  PROVE  /\ k + 1 \in 1 .. Count(buf) /\ k + 1 \in 2 .. Count(buf) + 1
         /\ Stands(cmd, buf, l - 1, 0, 0, 1, n, g, k + 1)
<1>1. cmd \in {"make", "get"} /\ WellFormed(buf) /\ Count(buf) \in Nat
  BY Requested, Whole
<1>2. /\ k \in Keys(buf, 1) /\ ItemAt(buf, k) = Uint(n) /\ Within(buf, 1, 0, 2 * (l - 1), k + 1)
      /\ Owed(buf, k + 1) = 2 * l - 1
  BY EntryAhead
<1>3. /\ k + 1 \in 1 .. Count(buf) /\ k + 1 \in 2 .. Count(buf) + 1
      /\ \A f \in Fields : k + 1 \notin Sent(cmd, buf, f)
      /\ GotUpTo(cmd, buf, g, k + 1)
  BY EntryOn
<1>4. k + 1 \notin Opened(cmd, buf)
  BY <1>1, <1>2, OpenedValue DEF IsMap, IsList
<1>5. /\ Owed(buf, k + 1) = 2 * (l - 1) + 0 + 2 * 0 + 1
      /\ Owed(buf, k + 1) = (2 * (l - 1) + 0 + 2 * 0) + 1
  BY <1>2
<1>6. k + 1 \in 2 .. k + 1 /\ \A j \in (k + 1) + 1 .. (k + 1) - 1 : FALSE
  BY <1>1, <1>3
<1>7. Passing(cmd, buf, k + 1, 2 * (l - 1) + 0 + 2 * 0, k + 1)
  BY <1>3, <1>4, <1>5, <1>6 DEF Passing
<1> QED BY <1>2, <1>3, <1>5, <1>6, <1>7 DEF Stands, Loops

-----------------------------------------------------------------------------
(* The rounds of the loops over an allow list and over a map. *)
LEMMA MapChild ==
  ASSUME NEW m, WellFormed(m), NEW c \in {"make", "get"}, NEW h \in 2 .. Count(m),
         ItemAt(m, h).mt = 5, NEW j, j \in ChildrenOf(m, h)
  PROVE  j \notin Opened(c, m)
<1>1. Layout(m) /\ Count(m) \in Nat /\ 1 \in 1 .. Count(m) /\ h \in 1 .. Count(m) /\ h # 1
  BY Whole
<1>2. j \notin Given(m, 2) \cup Given(m, 3)
  <2>1. j \notin ChildrenOf(m, 1)
    BY <1>1, OneParent
  <2> QED BY <2>1, GivenShape
<1>3. j \notin Elements(m, Lists(m, Given(m, 3)))
  <2> SUFFICES ASSUME NEW v \in Lists(m, Given(m, 3)), j \in ChildrenOf(m, v)
               PROVE  FALSE
    BY DEF Elements
  <2>1. v \in 2 .. Count(m) /\ ItemAt(m, v).mt = 4
    BY GivenShape DEF Lists, ItemAt
  <2>2. v \in 1 .. Count(m)
    BY <1>1, <2>1
  <2>3. v = h
    BY <1>1, <2>2, OneParent
  <2> QED BY <2>1, <2>3
<1> QED BY <1>2, <1>3 DEF Opened, Maps, Lists

LEMMA MemberAhead ==
  ASSUME IsRequest(cmd, buf), ItemAt(buf, 1).mt = 5,
         NEW l \in Nat, NEW e \in Nat, NEW q \in Nat, q > 0, NEW g,
         NEW k \in 2 .. Count(buf) + 1, Stands(cmd, buf, l, e, q, 0, param, g, k)
  PROVE  /\ k \in 1 .. Count(buf) /\ k + 1 \in 1 .. Count(buf) /\ ItemAt(buf, k).mt = 3
         /\ Owed(buf, k + 1) = 2 * l + e + 2 * (q - 1) + 1
         /\ Loops(cmd, buf, l, e, q - 1, param, k + 1) /\ Loops(cmd, buf, l, e, q - 1, param, k + 2)
         /\ k + 1 \notin Opened(cmd, buf)
         /\ \A f \in Fields :
              /\ k \notin Sent(cmd, buf, f)
              /\ k + 1 \in Sent(cmd, buf, f) <=> MemberField(ItemAt(buf, k).data) = f
<1> DEFINE d1 == 2 * l
           d2 == 2 * l + e
           d3 == 2 * l + e + 2 * q
           d4 == 2 * l + e + 2 * (q - 1)
<1>1. cmd \in {"make", "get"} /\ WellFormed(buf) /\ Layout(buf) /\ Count(buf) \in Nat /\ Count(buf) >= 1
  BY Requested, Whole
<1>2. /\ Owed(buf, k) = d3 /\ Within(buf, 1, 0, d1, k)
      /\ e > 0 => /\ cmd = "get" /\ param = 3
                  /\ \E v \in Lists(buf, Given(buf, 3)) : Within(buf, v, d1, d2, k)
      /\ param \in ParamsWithMaps(cmd) /\ \E h \in OpenMaps(cmd, buf, param) : Within(buf, h, d2, d3, k)
  BY DEF Stands, Loops
<1>3. PICK h \in OpenMaps(cmd, buf, param) : Within(buf, h, d2, d3, k)
  BY <1>2
<1>4. /\ h \in Opened(cmd, buf) /\ h \in 2 .. Count(buf) /\ h \in 1 .. Count(buf)
      /\ ItemAt(buf, h).mt = 5 /\ \A i \in Keys(buf, h) : ItemAt(buf, i).mt = 3
  BY <1>2, <1>3, RequestMaps DEF ParamsWithMaps
<1>5. /\ d1 \in Nat /\ d2 \in Nat /\ d3 \in Nat /\ d4 \in Nat /\ d3 = d4 + 2 /\ d4 >= d2 /\ d2 >= d1
      /\ d3 > d2 /\ (d3 - d2) % 2 = 0
  <2>1. d3 - d2 = 2 * q
    OBVIOUS
  <2> QED BY <2>1
<1>6. k \in 1 .. Count(buf) /\ k \in Keys(buf, h)
  <2> HIDE DEF d2, d3
  <2> QED BY <1>1, <1>2, <1>3, <1>5, KeyAhead
<1>7. ItemAt(buf, k).mt = 3 /\ Children(ItemAt(buf, k)) = 0
  BY <1>4, <1>6 DEF Children
<1>8. /\ k + 1 \in ChildrenOf(buf, h) /\ k + 1 <= Count(buf) /\ Owed(buf, k + 1) = Owed(buf, k) - 1
  BY <1>1, <1>4, <1>6, <1>7, AfterKey
<1>9. k + 1 \in 1 .. Count(buf) /\ Owed(buf, k + 1) = d4 + 1
  BY <1>1, <1>2, <1>5, <1>6, <1>8
<1> HIDE DEF d1, d2, d3, d4
<1>10. Within(buf, 1, 0, d1, k + 1) /\ Within(buf, 1, 0, d1, k + 2)
  BY <1>1, <1>2, <1>5, <1>6, <1>9, WithinPair
<1>11. ASSUME NEW v, Within(buf, v, d1, d2, k)
       PROVE  Within(buf, v, d1, d2, k + 1) /\ Within(buf, v, d1, d2, k + 2)
  BY <1>1, <1>2, <1>5, <1>6, <1>9, <1>11, WithinPair
<1>12. Within(buf, h, d2, d4, k + 1) /\ Within(buf, h, d2, d4, k + 2)
  BY <1>1, <1>2, <1>3, <1>5, <1>6, <1>9, WithinPair
<1>13. Loops(cmd, buf, l, e, q - 1, param, k + 1) /\ Loops(cmd, buf, l, e, q - 1, param, k + 2)
  BY <1>2, <1>3, <1>10, <1>11, <1>12 DEF Loops, d1, d2, d3, d4
<1>14. k + 1 \notin Opened(cmd, buf)
  BY <1>1, <1>4, <1>8, MapChild
<1>15. ASSUME NEW f \in Fields
       PROVE  /\ k \notin Sent(cmd, buf, f)
              /\ k + 1 \in Sent(cmd, buf, f) <=> MemberField(ItemAt(buf, k).data) = f
  <2>1. Where(cmd, buf, f) \in SUBSET (1 .. Count(buf)) /\ Children(What(cmd, f)) = 0
    BY <1>1, WhereShape
  <2>2. /\ k \notin Sent(cmd, buf, f)
        /\ k + 1 \in Sent(cmd, buf, f) => h \in Where(cmd, buf, f) /\ ItemAt(buf, k) = What(cmd, f)
    BY <1>1, <1>4, <1>6, <1>7, <2>1, PairIsOnce DEF Sent
  <2>3. h \in Where(cmd, buf, f) /\ ItemAt(buf, k) = What(cmd, f) => k + 1 \in Sent(cmd, buf, f)
    BY <1>6, IntoUnder DEF Sent
  <2>4. ItemAt(buf, k) = Text(ItemAt(buf, k).data)
    <3>1. ItemAt(buf, k) \in Item /\ ItemAt(buf, k).n = Len(ItemAt(buf, k).data)
      BY <1>1, <1>6, <1>7, LaidItem DEF Sound
    <3>2. \A x \in Item : x = [mt |-> x.mt, n |-> x.n, data |-> x.data]
      BY DEF Item
    <3> QED BY <1>7, <3>1, <3>2, Zenon DEF Text
  <2>5. h \in Where(cmd, buf, f) /\ What(cmd, f) = Text(ItemAt(buf, k).data)
          <=> MemberField(ItemAt(buf, k).data) = f
    BY <1>1, <1>2, <1>3, FieldsOfMaps
  <2> QED BY <2>2, <2>3, <2>4, <2>5
<1>16. Owed(buf, k + 1) = 2 * l + e + 2 * (q - 1) + 1
  BY <1>9 DEF d4
<1> QED BY <1>6, <1>7, <1>9, <1>13, <1>14, <1>15, <1>16

LEMMA MemberString ==
  ASSUME IsRequest(cmd, buf), ItemAt(buf, 1).mt = 5,
         NEW l \in Nat, NEW e \in Nat, NEW q \in Nat, q > 0, NEW T, NEW g \in [Fields -> T],
         NEW k \in 2 .. Count(buf) + 1, Stands(cmd, buf, l, e, q, 0, param, g, k),
         NEW f \in Fields, MemberField(ItemAt(buf, k).data) = f
  PROVE  /\ ItemAt(buf, k + 1).mt \in {2, 3} /\ k + 2 \in 2 .. Count(buf) + 1
         /\ Stands(cmd, buf, l, e, q - 1, 0, param, [g EXCEPT ![f] = Span(buf, k + 1)], k + 2)
<1>1. cmd \in {"make", "get"} /\ WellFormed(buf) /\ Layout(buf) /\ Count(buf) \in Nat
  BY Requested, Whole
<1>2. /\ k \in 1 .. Count(buf) /\ k + 1 \in 1 .. Count(buf)
      /\ Owed(buf, k + 1) = 2 * l + e + 2 * (q - 1) + 1
      /\ Loops(cmd, buf, l, e, q - 1, param, k + 2)
      /\ \A i \in Fields : /\ k \notin Sent(cmd, buf, i)
                           /\ k + 1 \in Sent(cmd, buf, i) <=> f = i
  BY MemberAhead
<1>3. k + 1 \in Sent(cmd, buf, f)
  BY <1>2
<1>4. ItemAt(buf, k + 1).mt \in {2, 3}
  BY <1>3, RequestStrings
<1>5. Children(ItemAt(buf, k + 1)) = 0
  BY <1>4 DEF Children
<1>6. Owed(buf, (k + 1) + 1) = Owed(buf, k + 1) - 1 + Children(ItemAt(buf, k + 1))
  BY <1>1, <1>2, LaidItem
<1>7. (k + 1) + 1 = k + 2 /\ k + 2 \in 2 .. Count(buf) + 1
  BY <1>1, <1>2
<1>8. Owed(buf, k + 2) = 2 * l + e + 2 * (q - 1) + 0
  BY <1>2, <1>5, <1>6, <1>7
<1>9. GotUpTo(cmd, buf, g, k)
  BY DEF Stands, Loops
<1>10. GotUpTo(cmd, buf, [g EXCEPT ![f] = Span(buf, k + 1)], k + 2)
  BY <1>1, <1>2, <1>3, <1>9, GotString
<1> QED BY <1>2, <1>4, <1>7, <1>8, <1>10 DEF Stands, Loops

LEMMA MemberPass ==
  ASSUME IsRequest(cmd, buf), ItemAt(buf, 1).mt = 5,
         NEW l \in Nat, NEW e \in Nat, NEW q \in Nat, q > 0, NEW g,
         NEW k \in 2 .. Count(buf) + 1, Stands(cmd, buf, l, e, q, 0, param, g, k),
         MemberField(ItemAt(buf, k).data) = "none"
  PROVE  /\ k + 1 \in 2 .. Count(buf) + 1
         /\ Stands(cmd, buf, l, e, q - 1, 1, param, g, k + 1)
<1>1. cmd \in {"make", "get"} /\ WellFormed(buf) /\ Count(buf) \in Nat
  BY Requested, Whole
<1>2. /\ k \in 1 .. Count(buf) /\ k + 1 \in 1 .. Count(buf)
      /\ Owed(buf, k + 1) = 2 * l + e + 2 * (q - 1) + 1
      /\ Loops(cmd, buf, l, e, q - 1, param, k + 1) /\ k + 1 \notin Opened(cmd, buf)
      /\ \A f \in Fields :
           /\ k \notin Sent(cmd, buf, f)
           /\ k + 1 \in Sent(cmd, buf, f) <=> MemberField(ItemAt(buf, k).data) = f
  BY MemberAhead
<1>3. \A f \in Fields : k + 1 \notin Sent(cmd, buf, f)
  BY <1>2 DEF Fields
<1>4. GotUpTo(cmd, buf, g, k + 1)
  BY <1>1, <1>2, GotOn DEF Stands, Loops
<1>5. /\ k + 1 \in 2 .. Count(buf) + 1 /\ k + 1 \in 2 .. k + 1
      /\ \A j \in (k + 1) + 1 .. (k + 1) - 1 : FALSE
  BY <1>1, <1>2
<1>6. Passing(cmd, buf, k + 1, 2 * l + e + 2 * (q - 1), k + 1)
  BY <1>2, <1>3, <1>5 DEF Passing
<1> QED BY <1>2, <1>4, <1>5, <1>6 DEF Stands, Loops

LEMMA ElementAhead ==
  ASSUME IsRequest(cmd, buf), ItemAt(buf, 1).mt = 5, NEW l \in Nat, NEW e \in Nat, e > 0, NEW g,
         NEW k \in 2 .. Count(buf) + 1, Stands(cmd, buf, l, e, 0, 0, param, g, k)
  PROVE  /\ k \in 1 .. Count(buf) /\ cmd = "get" /\ param = 3 /\ Owed(buf, k) = 2 * l + (e - 1) + 1
         /\ k \in Elements(buf, Lists(buf, Given(buf, 3)))
         /\ Loops(cmd, buf, l, e - 1, 0, param, k) /\ Loops(cmd, buf, l, e - 1, 0, param, k + 1)
         /\ ItemAt(buf, k).mt # 5 => k \notin Opened(cmd, buf)
         /\ \A f \in Fields : k \notin Sent(cmd, buf, f)
<1> DEFINE d1 == 2 * l
           d2 == 2 * l + e
           d3 == 2 * l + (e - 1)
<1>1. WellFormed(buf) /\ Layout(buf) /\ Count(buf) \in Nat /\ Count(buf) >= 1
  BY Requested, Whole
<1>2. /\ Owed(buf, k) = d2 /\ Within(buf, 1, 0, d1, k) /\ cmd = "get" /\ param = 3
      /\ \E v \in Lists(buf, Given(buf, 3)) : Within(buf, v, d1, d2, k)
  BY DEF Stands, Loops
<1>3. PICK v \in Lists(buf, Given(buf, 3)) : Within(buf, v, d1, d2, k)
  BY <1>2
<1>4. /\ v \in Opened("get", buf) /\ v \in 2 .. Count(buf) /\ v \in 1 .. Count(buf)
      /\ ItemAt(buf, v).mt = 4
  BY <1>2, RequestLists
<1>5. k \in 1 .. Count(buf)
  BY <1>1, StandsLater
<1>6. /\ d1 \in Int /\ d2 \in Int /\ d3 \in Int /\ d2 > d1 /\ d2 > d3 /\ d1 <= d3 /\ d3 <= d2
  OBVIOUS
<1> HIDE DEF d1, d2, d3
<1>7. k \in ChildrenOf(buf, v)
  BY <1>1, <1>2, <1>3, <1>5, <1>6, WithinChild
<1>8. Within(buf, 1, 0, d1, k + 1)
  BY <1>1, <1>2, <1>5, <1>6, WithinOn
<1>9. Within(buf, v, d1, d3, k + 1)
  BY <1>1, <1>2, <1>3, <1>5, <1>6, WithinOn
<1>10. Within(buf, v, d1, d3, k)
  <2>1. \A j \in v + 1 .. k - 1 : Owed(buf, j) \in Int
    BY <1>1, <1>4, <1>5, LaidItem
  <2> QED BY <1>3, <1>6, <2>1 DEF Within
<1>11. Loops(cmd, buf, l, e - 1, 0, param, k) /\ Loops(cmd, buf, l, e - 1, 0, param, k + 1)
  BY <1>2, <1>3, <1>8, <1>9, <1>10 DEF Loops, d1, d3
<1>12. ASSUME NEW h \in 1 .. Count(buf), k \in ChildrenOf(buf, h)
       PROVE  h = v
  BY <1>1, <1>4, <1>7, <1>12, OneParent
<1>13. ASSUME ItemAt(buf, k).mt # 5
       PROVE  k \notin Opened(cmd, buf)
  <2>1. k \notin ChildrenOf(buf, 1)
    BY <1>1, <1>4, <1>12
  <2>2. k \notin Given(buf, 3)
    BY <1>1, <2>1, GivenShape
  <2> QED BY <1>2, <1>13, <2>2 DEF Opened, Lists, Maps, ItemAt
<1>14. ASSUME NEW f \in Fields, k \in Sent(cmd, buf, f)
       PROVE  FALSE
  <2>1. PICK h \in Where(cmd, buf, f) : k \in ChildrenOf(buf, h) /\ h \in 1 .. Count(buf)
    BY <1>1, <1>2, <1>14, SentShape
  <2>2. v \in Where(cmd, buf, f)
    BY <1>12, <2>1
  <2>3. v = 1 \/ ItemAt(buf, v).mt = 5
    BY <1>2, <2>2 DEF Where, Maps, ItemAt, Fields
  <2> QED BY <1>4, <2>3
<1>15. k \in Elements(buf, Lists(buf, Given(buf, 3)))
  BY <1>3, <1>7 DEF Elements
<1>16. Owed(buf, k) = 2 * l + (e - 1) + 1
  BY <1>2 DEF d2
<1> QED BY <1>2, <1>5, <1>11, <1>13, <1>14, <1>15, <1>16

LEMMA ElementMap ==
  ASSUME IsRequest(cmd, buf), ItemAt(buf, 1).mt = 5, NEW l \in Nat, NEW e \in Nat, e > 0, NEW g,
         NEW k \in 2 .. Count(buf) + 1, Stands(cmd, buf, l, e, 0, 0, param, g, k),
         ItemAt(buf, k).mt = 5
  PROVE  /\ k + 1 \in 2 .. Count(buf) + 1 /\ ItemAt(buf, k).n \in 0 .. 23
         /\ Stands(cmd, buf, l, e - 1, ItemAt(buf, k).n, 0, param, g, k + 1)
<1> DEFINE q == ItemAt(buf, k).n
<1>1. /\ k \in 1 .. Count(buf) /\ cmd = "get" /\ param = 3 /\ Owed(buf, k) = 2 * l + (e - 1) + 1
      /\ k \in Elements(buf, Lists(buf, Given(buf, 3)))
      /\ Loops(cmd, buf, l, e - 1, 0, param, k + 1)
      /\ \A f \in Fields : k \notin Sent(cmd, buf, f)
  BY ElementAhead
<1>2. WellFormed(buf) /\ Layout(buf) /\ Count(buf) \in Nat
  BY Requested, Whole
<1>3. k + 1 \in 2 .. Count(buf) + 1
  BY <1>1, <1>2
<1>4. k \in OpenMaps(cmd, buf, param) /\ param \in ParamsWithMaps(cmd)
  BY <1>1 DEF OpenMaps, Maps, ItemAt, ParamsWithMaps
<1>5. q <= 23
  BY <1>4, RequestMaps DEF ParamsWithMaps
<1>6. q \in Nat
  BY <1>1, <1>2, LaidItem, ItemShape
<1>7. Children(ItemAt(buf, k)) = 2 * q
  BY DEF Children
<1>8. Owed(buf, k + 1) = Owed(buf, k) - 1 + Children(ItemAt(buf, k))
  BY <1>1, <1>2, LaidItem
<1>9. \A low : Within(buf, k, 2 * l + (e - 1), low, k + 1)
  BY <1>1, <1>2, WithinNew
<1>10. GotUpTo(cmd, buf, g, k + 1)
  BY <1>1, <1>2, GotOn DEF Stands, Loops
<1> HIDE DEF q
<1>11. Owed(buf, k + 1) = 2 * l + (e - 1) + 2 * q + 0
  BY <1>1, <1>6, <1>7, <1>8
<1>12. Stands(cmd, buf, l, e - 1, q, 0, param, g, k + 1)
  BY <1>1, <1>4, <1>9, <1>10, <1>11 DEF Stands, Loops
<1> QED BY <1>3, <1>5, <1>6, <1>12 DEF q

LEMMA ElementPass ==
  ASSUME IsRequest(cmd, buf), ItemAt(buf, 1).mt = 5, NEW l \in Nat, NEW e \in Nat, e > 0, NEW g,
         NEW k \in 2 .. Count(buf) + 1, Stands(cmd, buf, l, e, 0, 0, param, g, k),
         ItemAt(buf, k).mt # 5
  PROVE  Stands(cmd, buf, l, e - 1, 0, 1, param, g, k)
<1>1. /\ k \in 1 .. Count(buf) /\ cmd = "get" /\ param = 3 /\ Owed(buf, k) = 2 * l + (e - 1) + 1
      /\ Loops(cmd, buf, l, e - 1, 0, param, k) /\ k \notin Opened(cmd, buf)
      /\ \A f \in Fields : k \notin Sent(cmd, buf, f)
  BY ElementAhead
<1>2. Count(buf) \in Nat
  BY Requested, Whole
<1>3. k \in 2 .. k /\ \A j \in k + 1 .. k - 1 : FALSE
  BY <1>1, <1>2
<1>4. Owed(buf, k) = 2 * l + (e - 1) + 2 * 0 + 1 /\ Owed(buf, k) = (2 * l + (e - 1) + 2 * 0) + 1
  BY <1>1
<1>5. Passing(cmd, buf, k, 2 * l + (e - 1) + 2 * 0, k)
  BY <1>1, <1>3, <1>4 DEF Passing
<1>6. GotUpTo(cmd, buf, g, k)
  BY DEF Stands, Loops
<1> QED BY <1>1, <1>3, <1>4, <1>5, <1>6 DEF Stands, Loops

-----------------------------------------------------------------------------
(* The inductive invariant of the parser. *)
NothingOpen == left = 0 /\ elements = 0 /\ pairs = 0 /\ pending = 0
NothingGot == got = [f \in Fields |-> Null]

ParserInv ==
  /\ status \in {"start", "unexpected_type", "parsing", "good", "missing_parameter"} =>
       /\ auth = << >> /\ out = NoMessage
       /\ IsRequest(cmd, buf) \/ (cmd = "info" /\ status = "start")
  /\ status = "start" => NothingOpen /\ NothingGot /\ pos = 0
  /\ status = "parsing" =>
       ItemAt(buf, 1).mt = 5 /\ \E k \in 2 .. Count(buf) + 1 :
         pos = Start(buf, k) /\ Stands(cmd, buf, left, elements, pairs, pending, param, got, k)
  /\ status \in {"good", "missing_parameter"} =>
       /\ ItemAt(buf, 1).mt = 5 /\ GotUpTo(cmd, buf, got, Count(buf) + 1)
       /\ (status = "good") = (got["hash"] # Null /\ got["rp"] # Null /\ got["hash"].len = HASH_LEN)

-----------------------------------------------------------------------------
(* The inductive invariant of the writer, and of the reading of what it    *)
(* has written.                                                            *)
Length(s) == Len(s)
RegistrationHead(b) ==
  /\ b[33] = 65 /\ b[34] = 0 /\ b[35] = 0 /\ b[36] = 0 /\ b[37] = 0 /\ b[54] = 0 /\ b[55] = 32

KeyFrom(m) ==
  /\ cmd = "make" /\ auth = << >> /\ response = CoseKey
  /\ Start(m, 1) = 87 /\ RegistrationHead(m.bytes)
  /\ Total(m) <= 87 + 34 * Count(m)
MakeFrom(m) ==
  /\ cmd = "make" /\ auth \in Seq(Byte) /\ Length(auth) \in 87 .. 461
  /\ response = MakeResponse(auth)
  /\ RegistrationHead(auth)
  /\ Start(m, 1) = 1 /\ Total(m) <= 1 + 9 * Count(m) + (IF Count(m) = 7 THEN 457 ELSE 0)
GetFrom(m) ==
  /\ cmd = "get"
  /\ \E user \in Users, count \in Counts, sig_len \in SigLengths :
       signed = count /\ auth = AuthData(1, count) /\ response = GetResponse(user, auth, sig_len)
  /\ Start(m, 1) = 1
  /\ Total(m) <= IF Count(m) <= 8 THEN 1 + 34 * Count(m) ELSE 273 + 75 * (Count(m) - 8)
InfoFrom(m) ==
  /\ cmd = "info" /\ auth = << >> /\ response = InfoResponse
  /\ Start(m, 1) = 1 /\ Total(m) <= 1 + 17 * Count(m)

Composed(m) ==
  /\ Layout(m) /\ Count(m) <= Len(response)
  /\ \A k \in 1 .. Count(m) : ItemAt(m, k) = response[k]
  /\ KeyFrom(m) \/ MakeFrom(m) \/ GetFrom(m) \/ InfoFrom(m)

WriterInv ==
  /\ status \in {"writing", "reading"} =>
       left = 0 /\ elements = 0 /\ pairs = 0 /\ param = 0 /\ NothingGot /\ Composed(out)
  /\ status = "writing" => buf = NoMessage /\ pos = 0 /\ pending = 0
  /\ status = "reading" =>
       /\ Count(out) = Len(response) /\ buf = out
       /\ \E k \in 1 .. Count(buf) + 1 : pos = Start(buf, k) /\ Owed(buf, k) = pending

CborIInv == CborTypeOK /\ ParserInv /\ WriterInv
-----------------------------------------------------------------------------
(* The parser keeps the invariant. *)

(* One item is skipped. *)
LEMMA SkipRead ==
  ASSUME NEW m, Layout(m), NEW k \in 1 .. Count(m),
         NEW b, b = m.bytes, NEW p, p = Start(m, k), NEW x, x = ItemAt(m, k),
         NEW mt, mt = MajorType(b, p), NEW a, a = SkipArgument(b, p)
  PROVE  /\ p < Len(b) /\ Items(mt, a.n) = Children(x)
         /\ (CASE mt \in {0, 1, 4, 5} -> a.end [] mt \in {2, 3} -> a.end + a.n [] OTHER -> p + 1)
              = Start(m, k + 1)
<1>1. /\ Sound(x) /\ Lies(b, p, x) /\ p \in Nat /\ b \in Seq(Byte)
      /\ Start(m, k + 1) = p + Size(x)
  BY Laid, LaidItem
<1>2. /\ p < Len(b) /\ mt = x.mt
      /\ x.n <= 23 => HeadSize(x) = 1
      /\ TwoBytes(x.n) => a = [n |-> x.n, end |-> p + HeadSize(x)]
      /\ a.end = p + HeadSize(x)
  BY <1>1, HeadRead
<1>3. /\ HeadSize(x) \in Nat /\ DataSize(x) \in Nat /\ Size(x) = HeadSize(x) + DataSize(x)
      /\ x.mt \notin {2, 3} => DataSize(x) = 0
      /\ x.mt \in {2, 3} => x.n = DataSize(x) /\ TwoBytes(x.n)
      /\ x.mt \in MajorTypes
  BY <1>1, SizeShape, ItemShape
<1>4. (x.mt \in 2 .. 5 => TwoBytes(x.n)) /\ (x.mt = 7 => x.n <= 23)
  BY <1>1 DEF Sound
<1>5. x.mt \in {4, 5} => a.n = x.n
  BY <1>2, <1>4
<1>6. Items(mt, a.n) = Children(x)
  BY <1>2, <1>5 DEF Items, Children
<1>7. CASE x.mt \in {0, 1, 4, 5}
  BY <1>1, <1>2, <1>3, <1>6, <1>7
<1>8. CASE x.mt \in {2, 3}
  <2>1. a.n = x.n
    BY <1>2, <1>3, <1>8
  <2>2. a.end + a.n = Start(m, k + 1)
    BY <1>1, <1>2, <1>3, <1>8, <2>1
  <2> QED BY <1>2, <1>6, <1>8, <2>2
<1>9. CASE x.mt = 7
  <2>1. p + 1 = Start(m, k + 1)
    BY <1>1, <1>2, <1>3, <1>4, <1>9
  <2> QED BY <1>2, <1>6, <1>9, <2>1
<1> QED BY <1>3, <1>7, <1>8, <1>9 DEF MajorTypes

(* What a round of a loop has to show. *)
Pointer == [at : Nat, len : Nat, end : 0 .. Total(buf)]

LEMMA InParser ==
  ASSUME CborIInv, status = "parsing"
  PROVE  /\ IsRequest(cmd, buf) /\ WellFormed(buf) /\ Layout(buf) /\ Count(buf) \in Nat
         /\ cmd \in {"make", "get"} /\ ItemAt(buf, 1).mt = 5
         /\ left \in 0 .. 31 /\ elements \in 0 .. 31 /\ pairs \in 0 .. 31 /\ pending \in Nat
         /\ param \in Byte /\ got \in [Fields -> Pointer]
         /\ \E k \in 2 .. Count(buf) + 1 :
              pos = Start(buf, k) /\ Stands(cmd, buf, left, elements, pairs, pending, param, got, k)
<1>1. IsRequest(cmd, buf)
  BY DEF CborIInv, ParserInv
<1> QED BY <1>1, Requested, Whole DEF CborIInv, CborTypeOK, ParserInv, Pointer, Total

LEMMA RoundKeeps ==
  ASSUME CborIInv, status = "parsing", UNCHANGED <<cmd, buf, status, writeVars>>,
         left' \in 0 .. 31, elements' \in 0 .. 31, pairs' \in 0 .. 31, pending' \in Nat,
         param' \in Byte, got' \in [Fields -> Pointer],
         NEW k \in 2 .. Count(buf) + 1, pos' = Start(buf, k),
         Stands(cmd, buf, left', elements', pairs', pending', param', got', k)
  PROVE  CborIInv'
<1>1. IsRequest(cmd, buf) /\ Layout(buf) /\ Count(buf) \in Nat /\ ItemAt(buf, 1).mt = 5
  BY InParser
<1>2. pos' \in 0 .. Len(buf.bytes)
  <2>1. k \in 1 .. Count(buf) + 1
    BY <1>1
  <2>2. pos' \in Nat /\ pos' <= Total(buf) /\ Total(buf) \in Nat
    BY <1>1, <2>1, Laid
  <2> QED BY <2>2 DEF Total
<1>3. CborTypeOK'
  BY <1>2 DEF CborIInv, CborTypeOK, Pointer, Total, writeVars
<1>4. ParserInv'
  BY <1>1 DEF CborIInv, ParserInv, writeVars
<1>5. WriterInv'
  BY DEF WriterInv
<1> QED BY <1>3, <1>4, <1>5 DEF CborIInv

LEMMA SkipItemReads ==
  ASSUME Layout(buf), NEW k \in 1 .. Count(buf), pos = Start(buf, k), SkipItem
  PROVE  /\ pos < Len(buf.bytes)
         /\ pending' = pending - 1 + Children(ItemAt(buf, k)) /\ pos' = Start(buf, k + 1)
<1> DEFINE b == buf.bytes
           mt == MajorType(b, pos)
           a == SkipArgument(b, pos)
<1>1. /\ pos < Len(b) /\ Items(mt, a.n) = Children(ItemAt(buf, k))
      /\ (CASE mt \in {0, 1, 4, 5} -> a.end [] mt \in {2, 3} -> a.end + a.n [] OTHER -> pos + 1)
           = Start(buf, k + 1)
  BY SkipRead
<1>2. pos \in Nat /\ Len(b) \in Nat
  BY Laid, LaidItem DEF Total
<1>3. ~(pos >= Len(b))
  BY <1>1, <1>2
<1>4. /\ pending' = pending - 1 + Items(mt, a.n)
      /\ pos' = CASE mt \in {0, 1, 4, 5} -> a.end [] mt \in {2, 3} -> a.end + a.n [] OTHER -> pos + 1
  BY <1>3 DEF SkipItem
<1> HIDE DEF b, mt, a
<1> QED BY <1>1, <1>4 DEF b

LEMMA SkipItemParsing ==
  ASSUME CborIInv, status = "parsing", SkipItem
  PROVE  CborIInv'
<1>1. PICK k \in 2 .. Count(buf) + 1 :
         pos = Start(buf, k) /\ Stands(cmd, buf, left, elements, pairs, pending, param, got, k)
  BY InParser
<1>2. /\ IsRequest(cmd, buf) /\ WellFormed(buf) /\ Layout(buf) /\ Count(buf) \in Nat
      /\ left \in 0 .. 31 /\ elements \in 0 .. 31 /\ pairs \in 0 .. 31 /\ pending \in Nat
      /\ param \in Byte /\ got \in [Fields -> Pointer] /\ pending > 0
  BY InParser DEF SkipItem
<1>3. k \in 1 .. Count(buf)
  BY <1>1, <1>2, StandsLater
<1> DEFINE x == ItemAt(buf, k)
<1>4. /\ pos < Len(buf.bytes)
      /\ pending' = pending - 1 + Children(x) /\ pos' = Start(buf, k + 1)
  BY <1>1, <1>2, <1>3, SkipItemReads
<1>5. Stands(cmd, buf, left, elements, pairs, pending - 1 + Children(x), param, got, k + 1)
  BY <1>1, <1>2, StandsPassing
<1>6. Children(x) \in Nat
  BY <1>2, <1>3, LaidItem
<1> HIDE DEF x
<1>7. pending' \in Nat /\ k + 1 \in 2 .. Count(buf) + 1
  BY <1>2, <1>3, <1>4, <1>6
<1>8. UNCHANGED <<cmd, buf, left, elements, pairs, param, got, status, writeVars>>
  BY DEF SkipItem
<1>9. /\ left' \in 0 .. 31 /\ elements' \in 0 .. 31 /\ pairs' \in 0 .. 31
      /\ param' \in Byte /\ got' \in [Fields -> Pointer]
      /\ Stands(cmd, buf, left', elements', pairs', pending', param', got', k + 1)
  BY <1>2, <1>4, <1>5, <1>8
<1> QED BY <1>4, <1>7, <1>8, <1>9, RoundKeeps

LEMMA BeginKeeps == CborIInv /\ Begin => CborIInv'
<1> SUFFICES ASSUME CborIInv, Begin
             PROVE  CborIInv'
  OBVIOUS
<1>1. /\ status = "start" /\ cmd # "info" /\ IsRequest(cmd, buf) /\ NothingOpen /\ NothingGot
      /\ pos = 0 /\ auth = << >> /\ out = NoMessage
  BY DEF CborIInv, ParserInv, Begin
<1>2. /\ cmd \in {"make", "get"} /\ WellFormed(buf) /\ Layout(buf) /\ Count(buf) \in Nat
      /\ Start(buf, 1) = 0 /\ 1 \in 1 .. Count(buf)
  BY <1>1, Requested, Whole
<1> DEFINE x == ItemAt(buf, 1)
<1>3. /\ 0 < Len(buf.bytes) /\ MajorType(buf.bytes, 0) = x.mt /\ LowBits(buf.bytes, 0) \in 0 .. 31
      /\ x.n <= 23 => LowBits(buf.bytes, 0) = x.n
      /\ x.n <= 23 /\ x.mt \notin {2, 3} => Start(buf, 1 + 1) = 0 + 1
  BY <1>2, ItemRead
<1>4. /\ left' \in 0 .. 31 /\ pos' = 1 /\ left' = LowBits(buf.bytes, 0)
      /\ UNCHANGED <<cmd, buf, elements, pairs, pending, param, got, writeVars>>
      /\ status' = IF x.mt = 5 THEN "parsing" ELSE "unexpected_type"
  BY <1>3 DEF Begin
<1>5. 1 \in 0 .. Len(buf.bytes)
  BY <1>2, <1>3, Laid DEF Total
<1>6. CborTypeOK'
  BY <1>4, <1>5 DEF CborIInv, CborTypeOK, writeVars
<1>7. WriterInv'
  BY <1>4 DEF WriterInv
<1>8. CASE x.mt = 5
  <2>1. x.n <= 23
    BY <1>1, <1>8, RequestTyped DEF Short, ItemAt
  <2>2. x.n \in Nat /\ Children(x) = 2 * x.n
    BY <1>2, <1>8, LaidItem, ItemShape DEF Children
  <2>3. left' = x.n /\ pos' = Start(buf, 2)
    BY <1>3, <1>4, <1>8, <2>1
  <2>4. Owed(buf, 1) = 1 /\ Owed(buf, 1 + 1) = Owed(buf, 1) - 1 + Children(x)
    BY <1>2, Laid, LaidItem
  <2>5. Owed(buf, 2) = 2 * x.n + 0 + 2 * 0 + 0
    BY <2>2, <2>4
  <2>6. Within(buf, 1, 0, 2 * x.n, 1 + 1)
    BY <1>2, <2>4, WithinNew
  <2>7. GotUpTo(cmd, buf, got, 2)
    <3> SUFFICES ASSUME NEW f \in Fields
                 PROVE  got[f] = Null /\ \A j \in Sent(cmd, buf, f) : j >= 2
      BY DEF GotUpTo
    <3>1. got[f] = Null
      BY <1>1 DEF NothingGot
    <3>2. \A j \in Sent(cmd, buf, f) : j \in 2 .. Count(buf)
      BY <1>2, SentShape
    <3> QED BY <1>2, <3>1, <3>2
  <2>8. Stands(cmd, buf, left', 0, 0, 0, param', got, 2)
    BY <2>3, <2>5, <2>6, <2>7 DEF Stands, Loops
  <2>9. elements' = 0 /\ pairs' = 0 /\ pending' = 0 /\ got' = got
    BY <1>1, <1>4 DEF NothingOpen
  <2>10. 2 \in 2 .. Count(buf) + 1
    BY <1>2
  <2>11. ParserInv'
    BY <1>1, <1>4, <1>8, <2>3, <2>8, <2>9, <2>10 DEF ParserInv, writeVars
  <2> QED BY <1>6, <1>7, <2>11 DEF CborIInv
<1>9. CASE x.mt # 5
  <2>1. ParserInv'
    BY <1>1, <1>4, <1>9 DEF ParserInv, writeVars
  <2> QED BY <1>6, <1>7, <2>1 DEF CborIInv
<1> QED BY <1>8, <1>9

(* A string is kept where it lies. *)
LEMMA TakesString ==
  ASSUME Layout(buf), got \in [Fields -> Pointer], NEW f \in Fields, NEW k \in 1 .. Count(buf),
         NEW p, p = Start(buf, k), ItemAt(buf, k).mt \in {2, 3}, Takes(f, p)
  PROVE  /\ pos' = Start(buf, k + 1) /\ got' = [got EXCEPT ![f] = Span(buf, k)]
         /\ got' \in [Fields -> Pointer]
<1>1. ReadBytes(buf.bytes, p) = Span(buf, k)
  BY ItemRead
<1>2. Span(buf, k) \in Pointer /\ Span(buf, k).end = Start(buf, k + 1)
  BY SpanShape DEF Pointer
<1>3. pos' = Start(buf, k + 1) /\ got' = [got EXCEPT ![f] = Span(buf, k)]
  BY <1>1, <1>2 DEF Takes, Overwritten
<1> QED BY <1>2, <1>3

LEMMA EntryReads ==
  ASSUME CborIInv, Entry
  PROVE  /\ status = "parsing" /\ left \in Nat /\ left > 0 /\ left' = left - 1 /\ left' \in 0 .. 31
         /\ elements = 0 /\ pairs = 0 /\ pending = 0 /\ param' = NextKey.n /\ param' \in Byte
         /\ UNCHANGED <<cmd, buf, status, writeVars>>
         /\ \E k \in 2 .. Count(buf) + 1 :
              /\ Stands(cmd, buf, left, 0, 0, 0, param, got, k)
              /\ NextKey = [n |-> ItemAt(buf, k).n, end |-> Start(buf, k + 1)]
              /\ k + 1 \in 1 .. Count(buf)
<1>1. /\ status = "parsing" /\ pending = 0 /\ pairs = 0 /\ elements = 0 /\ left > 0
      /\ left' = left - 1 /\ param' = NextKey.n /\ UNCHANGED <<cmd, buf, status, writeVars>>
  BY DEF Entry
<1>2. /\ IsRequest(cmd, buf) /\ Layout(buf) /\ ItemAt(buf, 1).mt = 5 /\ left \in 0 .. 31
  BY <1>1, InParser
<1>3. PICK k \in 2 .. Count(buf) + 1 :
         pos = Start(buf, k) /\ Stands(cmd, buf, left, 0, 0, 0, param, got, k)
  BY <1>1, InParser
<1>4. /\ k \in 1 .. Count(buf) /\ k + 1 \in 1 .. Count(buf) /\ k \in Keys(buf, 1)
      /\ ItemAt(buf, k).n \in 0 .. 255
  BY <1>1, <1>2, <1>3, EntryAhead
<1>5. ItemAt(buf, k).mt \notin {2, 3} /\ ItemAt(buf, k).n <= 255
  BY <1>2, <1>4, RequestKeys
<1>6. NextKey = [n |-> ItemAt(buf, k).n, end |-> Start(buf, k + 1)]
  BY <1>2, <1>3, <1>4, <1>5, ItemRead DEF NextKey
<1>7. param' \in Byte
  BY <1>1, <1>4, <1>6 DEF Byte
<1>8. left \in Nat /\ left' \in 0 .. 31
  BY <1>1, <1>2
<1> QED BY <1>1, <1>3, <1>4, <1>6, <1>7, <1>8

LEMMA TakeStringKeeps == CborIInv /\ TakeString => CborIInv'
<1> SUFFICES ASSUME CborIInv, TakeString
             PROVE  CborIInv'
  OBVIOUS
<1>1. /\ Entry /\ StringField(NextKey.n) # "none" /\ Takes(StringField(NextKey.n), NextKey.end)
      /\ UNCHANGED <<elements, pairs, pending>>
  BY DEF TakeString
<1>2. /\ status = "parsing" /\ left \in Nat /\ left > 0 /\ left' = left - 1 /\ left' \in 0 .. 31
      /\ elements = 0 /\ pairs = 0 /\ pending = 0 /\ param' \in Byte
      /\ UNCHANGED <<cmd, buf, status, writeVars>>
  BY <1>1, EntryReads
<1>3. PICK k \in 2 .. Count(buf) + 1 :
              /\ Stands(cmd, buf, left, 0, 0, 0, param, got, k)
              /\ NextKey = [n |-> ItemAt(buf, k).n, end |-> Start(buf, k + 1)]
              /\ k + 1 \in 1 .. Count(buf)
  BY <1>1, EntryReads
<1>4. /\ IsRequest(cmd, buf) /\ Layout(buf) /\ ItemAt(buf, 1).mt = 5 /\ Count(buf) \in Nat
      /\ got \in [Fields -> Pointer]
  BY <1>2, InParser
<1> DEFINE f == StringField(ItemAt(buf, k).n)
<1>5. f \in Fields /\ Takes(f, Start(buf, k + 1))
  BY <1>1, <1>3 DEF StringField, Fields
<1> HIDE DEF f
<1>6. /\ ItemAt(buf, k + 1).mt \in {2, 3} /\ k + 2 \in 2 .. Count(buf) + 1
      /\ Stands(cmd, buf, left - 1, 0, 0, 0, param', [got EXCEPT ![f] = Span(buf, k + 1)], k + 2)
  BY <1>2, <1>3, <1>4, <1>5, EntryString DEF f
<1>7. /\ pos' = Start(buf, (k + 1) + 1) /\ got' = [got EXCEPT ![f] = Span(buf, k + 1)]
      /\ got' \in [Fields -> Pointer]
  BY <1>3, <1>4, <1>5, <1>6, TakesString
<1>8. (k + 1) + 1 = k + 2
  BY <1>4
<1>9. /\ elements' = 0 /\ pairs' = 0 /\ pending' = 0 /\ pos' = Start(buf, k + 2)
      /\ elements' \in 0 .. 31 /\ pairs' \in 0 .. 31 /\ pending' \in Nat
      /\ Stands(cmd, buf, left', elements', pairs', pending', param', got', k + 2)
  BY <1>1, <1>2, <1>6, <1>7, <1>8
<1> QED BY <1>2, <1>6, <1>7, <1>9, RoundKeeps

(* Going into a map or a list, the parser takes its length.                *)
LEMMA HeadTaken ==
  ASSUME Layout(buf), NEW k \in 1 .. Count(buf), NEW p, p = Start(buf, k),
         ItemAt(buf, k).mt \in {4, 5}, ItemAt(buf, k).n \in 0 .. 23
  PROVE  p + 1 = Start(buf, k + 1) /\ LowBits(buf.bytes, p) = ItemAt(buf, k).n
<1> DEFINE x == ItemAt(buf, k)
<1>1. /\ x.n <= 23 => LowBits(buf.bytes, p) = x.n
      /\ x.n <= 23 /\ x.mt \notin {2, 3} => Start(buf, k + 1) = p + 1
  BY ItemRead
<1>2. x.n <= 23 /\ x.mt \notin {2, 3}
  OBVIOUS
<1> HIDE DEF x
<1> QED BY <1>1, <1>2 DEF x

LEMMA TypeRead ==
  ASSUME Layout(buf), NEW k \in 1 .. Count(buf), NEW p, p = Start(buf, k)
  PROVE  MajorType(buf.bytes, p) = ItemAt(buf, k).mt
BY ItemRead

LEMMA EnterMapKeeps == CborIInv /\ EnterMap => CborIInv'
<1> SUFFICES ASSUME CborIInv, EnterMap
             PROVE  CborIInv'
  OBVIOUS
<1>1. /\ Entry /\ IsMap(NextKey.n) /\ MajorType(buf.bytes, NextKey.end) = 5
      /\ Enters(NextKey.end) /\ pairs' = LowBits(buf.bytes, NextKey.end)
      /\ UNCHANGED <<elements, pending>>
  BY DEF EnterMap
<1>2. /\ status = "parsing" /\ left \in Nat /\ left > 0 /\ left' = left - 1 /\ left' \in 0 .. 31
      /\ elements = 0 /\ pairs = 0 /\ pending = 0 /\ param' = NextKey.n /\ param' \in Byte
      /\ UNCHANGED <<cmd, buf, status, writeVars>>
  BY <1>1, EntryReads
<1>3. PICK k \in 2 .. Count(buf) + 1 :
              /\ Stands(cmd, buf, left, 0, 0, 0, param, got, k)
              /\ NextKey = [n |-> ItemAt(buf, k).n, end |-> Start(buf, k + 1)]
              /\ k + 1 \in 1 .. Count(buf)
  BY <1>1, EntryReads
<1>4. /\ IsRequest(cmd, buf) /\ Layout(buf) /\ ItemAt(buf, 1).mt = 5 /\ Count(buf) \in Nat
      /\ got \in [Fields -> Pointer]
  BY <1>2, InParser
<1>5. ItemAt(buf, k + 1).mt = 5
  BY <1>1, <1>3, <1>4, TypeRead
<1>6. /\ k + 2 \in 2 .. Count(buf) + 1 /\ ItemAt(buf, k + 1).n \in 0 .. 23
      /\ Stands(cmd, buf, left - 1, 0, ItemAt(buf, k + 1).n, 0, NextKey.n, got, k + 2)
  BY <1>1, <1>2, <1>3, <1>4, <1>5, EntryMap
<1>7. NextKey.end + 1 = Start(buf, (k + 1) + 1) /\ LowBits(buf.bytes, NextKey.end) = ItemAt(buf, k + 1).n
  BY <1>3, <1>4, <1>5, <1>6, HeadTaken
<1>8. (k + 1) + 1 = k + 2
  BY <1>4
<1>9. pos' = Start(buf, k + 2) /\ got' = got /\ pairs' = ItemAt(buf, k + 1).n
  BY <1>1, <1>7, <1>8 DEF Enters
<1>10. elements' = 0 /\ pending' = 0 /\ elements' \in 0 .. 31 /\ pending' \in Nat /\ pairs' \in 0 .. 31
  BY <1>1, <1>2, <1>6, <1>9
<1>11. Stands(cmd, buf, left', elements', pairs', pending', param', got', k + 2)
  BY <1>2, <1>6, <1>9, <1>10
<1> QED BY <1>2, <1>4, <1>6, <1>9, <1>10, <1>11, RoundKeeps

LEMMA EnterListKeeps == CborIInv /\ EnterList => CborIInv'
<1> SUFFICES ASSUME CborIInv, EnterList
             PROVE  CborIInv'
  OBVIOUS
<1>1. /\ Entry /\ IsList(NextKey.n) /\ MajorType(buf.bytes, NextKey.end) = 4
      /\ Enters(NextKey.end) /\ elements' = LowBits(buf.bytes, NextKey.end)
      /\ UNCHANGED <<pairs, pending>>
  BY DEF EnterList
<1>2. /\ status = "parsing" /\ left \in Nat /\ left > 0 /\ left' = left - 1 /\ left' \in 0 .. 31
      /\ elements = 0 /\ pairs = 0 /\ pending = 0 /\ param' = NextKey.n /\ param' \in Byte
      /\ UNCHANGED <<cmd, buf, status, writeVars>>
  BY <1>1, EntryReads
<1>3. PICK k \in 2 .. Count(buf) + 1 :
              /\ Stands(cmd, buf, left, 0, 0, 0, param, got, k)
              /\ NextKey = [n |-> ItemAt(buf, k).n, end |-> Start(buf, k + 1)]
              /\ k + 1 \in 1 .. Count(buf)
  BY <1>1, EntryReads
<1>4. /\ IsRequest(cmd, buf) /\ Layout(buf) /\ ItemAt(buf, 1).mt = 5 /\ Count(buf) \in Nat
      /\ got \in [Fields -> Pointer]
  BY <1>2, InParser
<1>5. ItemAt(buf, k + 1).mt = 4
  BY <1>1, <1>3, <1>4, TypeRead
<1>6. /\ k + 2 \in 2 .. Count(buf) + 1 /\ ItemAt(buf, k + 1).n \in 0 .. 23
      /\ Stands(cmd, buf, left - 1, ItemAt(buf, k + 1).n, 0, 0, NextKey.n, got, k + 2)
  BY <1>1, <1>2, <1>3, <1>4, <1>5, EntryList
<1>7. NextKey.end + 1 = Start(buf, (k + 1) + 1) /\ LowBits(buf.bytes, NextKey.end) = ItemAt(buf, k + 1).n
  BY <1>3, <1>4, <1>5, <1>6, HeadTaken
<1>8. (k + 1) + 1 = k + 2
  BY <1>4
<1>9. pos' = Start(buf, k + 2) /\ got' = got /\ elements' = ItemAt(buf, k + 1).n
  BY <1>1, <1>7, <1>8 DEF Enters
<1>10. pairs' = 0 /\ pending' = 0 /\ elements' \in 0 .. 31 /\ pending' \in Nat /\ pairs' \in 0 .. 31
  BY <1>1, <1>2, <1>6, <1>9
<1>11. Stands(cmd, buf, left', elements', pairs', pending', param', got', k + 2)
  BY <1>2, <1>6, <1>9, <1>10
<1> QED BY <1>2, <1>4, <1>6, <1>9, <1>10, <1>11, RoundKeeps

LEMMA PassParameterKeeps == CborIInv /\ PassParameter => CborIInv'
<1> SUFFICES ASSUME CborIInv, PassParameter
             PROVE  CborIInv'
  OBVIOUS
<1>1. /\ Entry /\ StringField(NextKey.n) = "none"
      /\ ~(IsMap(NextKey.n) /\ MajorType(buf.bytes, NextKey.end) = 5)
      /\ ~(IsList(NextKey.n) /\ MajorType(buf.bytes, NextKey.end) = 4)
      /\ Passes(NextKey.end) /\ UNCHANGED <<elements, pairs>>
  BY DEF PassParameter
<1>2. /\ status = "parsing" /\ left \in Nat /\ left > 0 /\ left' = left - 1 /\ left' \in 0 .. 31
      /\ elements = 0 /\ pairs = 0 /\ pending = 0 /\ param' = NextKey.n /\ param' \in Byte
      /\ UNCHANGED <<cmd, buf, status, writeVars>>
  BY <1>1, EntryReads
<1>3. PICK k \in 2 .. Count(buf) + 1 :
              /\ Stands(cmd, buf, left, 0, 0, 0, param, got, k)
              /\ NextKey = [n |-> ItemAt(buf, k).n, end |-> Start(buf, k + 1)]
              /\ k + 1 \in 1 .. Count(buf)
  BY <1>1, EntryReads
<1>4. /\ IsRequest(cmd, buf) /\ Layout(buf) /\ ItemAt(buf, 1).mt = 5
      /\ got \in [Fields -> Pointer]
  BY <1>2, InParser
<1>5. MajorType(buf.bytes, NextKey.end) = ItemAt(buf, k + 1).mt
  BY <1>3, <1>4, TypeRead
<1>6. /\ k + 1 \in 2 .. Count(buf) + 1
      /\ Stands(cmd, buf, left - 1, 0, 0, 1, NextKey.n, got, k + 1)
  BY <1>1, <1>2, <1>3, <1>4, <1>5, EntryPass
<1>7. pos' = Start(buf, k + 1) /\ got' = got /\ pending' = 1
  BY <1>1, <1>3 DEF Passes
<1>8. /\ elements' = 0 /\ pairs' = 0 /\ elements' \in 0 .. 31 /\ pairs' \in 0 .. 31 /\ pending' \in Nat
      /\ Stands(cmd, buf, left', elements', pairs', pending', param', got', k + 1)
  BY <1>1, <1>2, <1>6, <1>7
<1> QED BY <1>2, <1>4, <1>6, <1>7, <1>8, RoundKeeps

LEMMA MemberKeeps == CborIInv /\ Member => CborIInv'
<1> SUFFICES ASSUME CborIInv, Member
             PROVE  CborIInv'
  OBVIOUS
<1> DEFINE s == ReadBytes(buf.bytes, pos)
           f == MemberField(Content(buf.bytes, s))
<1>1. /\ status = "parsing" /\ pending = 0 /\ pairs > 0 /\ pairs' = pairs - 1
      /\ f # "none" => Takes(f, s.end) /\ UNCHANGED pending
      /\ f = "none" => Passes(s.end)
      /\ UNCHANGED <<cmd, buf, left, elements, param, status, writeVars>>
  BY DEF Member
<1>2. /\ IsRequest(cmd, buf) /\ Layout(buf) /\ ItemAt(buf, 1).mt = 5 /\ Count(buf) \in Nat
      /\ left \in 0 .. 31 /\ elements \in 0 .. 31 /\ pairs \in 0 .. 31 /\ param \in Byte
      /\ got \in [Fields -> Pointer]
  BY <1>1, InParser
<1>3. PICK k \in 2 .. Count(buf) + 1 :
         pos = Start(buf, k) /\ Stands(cmd, buf, left, elements, pairs, 0, param, got, k)
  BY <1>1, InParser
<1>4. /\ left \in Nat /\ elements \in Nat /\ pairs \in Nat /\ pairs' \in 0 .. 31
      /\ left' \in 0 .. 31 /\ elements' \in 0 .. 31 /\ param' \in Byte
      /\ UNCHANGED <<cmd, buf, status, writeVars>>
  BY <1>1, <1>2
<1>5. k \in 1 .. Count(buf) /\ k + 1 \in 1 .. Count(buf) /\ ItemAt(buf, k).mt = 3
  BY <1>1, <1>2, <1>3, <1>4, MemberAhead
<1>6. s = Span(buf, k) /\ Content(buf.bytes, s) = ItemAt(buf, k).data
  BY <1>2, <1>3, <1>5, ItemRead
<1>7. s.end = Start(buf, k + 1) /\ f = MemberField(ItemAt(buf, k).data)
  BY <1>2, <1>5, <1>6, SpanShape
<1> HIDE DEF s, f
<1>8. CASE f # "none"
  <2>1. f \in Fields
    BY <1>7, <1>8 DEF MemberField, Fields
  <2>2. /\ ItemAt(buf, k + 1).mt \in {2, 3} /\ k + 2 \in 2 .. Count(buf) + 1
        /\ Stands(cmd, buf, left, elements, pairs - 1, 0, param, [got EXCEPT ![f] = Span(buf, k + 1)], k + 2)
    BY <1>1, <1>2, <1>3, <1>4, <1>7, <2>1, MemberString
  <2>3. /\ pos' = Start(buf, (k + 1) + 1) /\ got' = [got EXCEPT ![f] = Span(buf, k + 1)]
        /\ got' \in [Fields -> Pointer]
    BY <1>1, <1>2, <1>5, <1>7, <1>8, <2>1, <2>2, TakesString
  <2>4. (k + 1) + 1 = k + 2
    BY <1>2
  <2>5. /\ pending' = 0 /\ pending' \in Nat /\ pos' = Start(buf, k + 2)
        /\ Stands(cmd, buf, left', elements', pairs', pending', param', got', k + 2)
    BY <1>1, <1>8, <2>2, <2>3, <2>4
  <2> QED BY <1>1, <1>4, <2>2, <2>3, <2>5, RoundKeeps
<1>9. CASE f = "none"
  <2>1. /\ k + 1 \in 2 .. Count(buf) + 1
        /\ Stands(cmd, buf, left, elements, pairs - 1, 1, param, got, k + 1)
    BY <1>1, <1>2, <1>3, <1>4, <1>7, <1>9, MemberPass
  <2>2. pos' = Start(buf, k + 1) /\ got' = got /\ pending' = 1
    BY <1>1, <1>7, <1>9 DEF Passes
  <2>3. /\ pending' \in Nat /\ got' \in [Fields -> Pointer]
        /\ Stands(cmd, buf, left', elements', pairs', pending', param', got', k + 1)
    BY <1>1, <1>2, <2>1, <2>2
  <2> QED BY <1>1, <1>4, <2>1, <2>2, <2>3, RoundKeeps
<1> QED BY <1>8, <1>9

LEMMA ElementKeeps == CborIInv /\ Element => CborIInv'
<1> SUFFICES ASSUME CborIInv, Element
             PROVE  CborIInv'
  OBVIOUS
<1>1. /\ status = "parsing" /\ pending = 0 /\ pairs = 0 /\ elements > 0 /\ elements' = elements - 1
      /\ MajorType(buf.bytes, pos) = 5 =>
           Enters(pos) /\ pairs' = LowBits(buf.bytes, pos) /\ UNCHANGED pending
      /\ MajorType(buf.bytes, pos) # 5 => Passes(pos) /\ UNCHANGED pairs
      /\ UNCHANGED <<cmd, buf, left, param, status, writeVars>>
  BY DEF Element
<1>2. /\ IsRequest(cmd, buf) /\ Layout(buf) /\ ItemAt(buf, 1).mt = 5 /\ Count(buf) \in Nat
      /\ left \in 0 .. 31 /\ elements \in 0 .. 31 /\ param \in Byte /\ got \in [Fields -> Pointer]
  BY <1>1, InParser
<1>3. PICK k \in 2 .. Count(buf) + 1 :
         pos = Start(buf, k) /\ Stands(cmd, buf, left, elements, 0, 0, param, got, k)
  BY <1>1, InParser
<1>4. /\ left \in Nat /\ elements \in Nat /\ elements' \in 0 .. 31
      /\ left' \in 0 .. 31 /\ param' \in Byte
      /\ UNCHANGED <<cmd, buf, status, writeVars>>
  BY <1>1, <1>2
<1>5. k \in 1 .. Count(buf)
  BY <1>1, <1>2, <1>3, <1>4, ElementAhead
<1>6. MajorType(buf.bytes, pos) = ItemAt(buf, k).mt
  BY <1>2, <1>3, <1>5, TypeRead
<1>7. CASE ItemAt(buf, k).mt = 5
  <2>1. /\ k + 1 \in 2 .. Count(buf) + 1 /\ ItemAt(buf, k).n \in 0 .. 23
        /\ Stands(cmd, buf, left, elements - 1, ItemAt(buf, k).n, 0, param, got, k + 1)
    BY <1>1, <1>2, <1>3, <1>4, <1>7, ElementMap
  <2>2. pos + 1 = Start(buf, k + 1) /\ LowBits(buf.bytes, pos) = ItemAt(buf, k).n
    BY <1>2, <1>3, <1>5, <1>7, <2>1, HeadTaken
  <2>3. pos' = Start(buf, k + 1) /\ got' = got /\ pairs' = ItemAt(buf, k).n /\ pending' = 0
    BY <1>1, <1>6, <1>7, <2>2 DEF Enters
  <2>4. /\ pairs' \in 0 .. 31 /\ pending' \in Nat /\ got' \in [Fields -> Pointer]
        /\ Stands(cmd, buf, left', elements', pairs', pending', param', got', k + 1)
    BY <1>1, <1>2, <2>1, <2>3
  <2> QED BY <1>1, <1>4, <2>1, <2>3, <2>4, RoundKeeps
<1>8. CASE ItemAt(buf, k).mt # 5
  <2>1. Stands(cmd, buf, left, elements - 1, 0, 1, param, got, k)
    BY <1>1, <1>2, <1>3, <1>4, <1>8, ElementPass
  <2>2. pos' = Start(buf, k) /\ got' = got /\ pairs' = 0 /\ pending' = 1
    BY <1>1, <1>3, <1>6, <1>8 DEF Passes
  <2>3. /\ pairs' \in 0 .. 31 /\ pending' \in Nat /\ got' \in [Fields -> Pointer]
        /\ Stands(cmd, buf, left', elements', pairs', pending', param', got', k)
    BY <1>1, <1>2, <2>1, <2>2
  <2> QED BY <1>1, <1>4, <2>2, <2>3, RoundKeeps
<1> QED BY <1>7, <1>8

LEMMA FinishKeeps == CborIInv /\ Finish => CborIInv'
<1> SUFFICES ASSUME CborIInv, Finish
             PROVE  CborIInv'
  OBVIOUS
<1>1. /\ status = "parsing" /\ pending = 0 /\ pairs = 0 /\ elements = 0
      /\ left = 0 \/ pos >= Len(buf.bytes)
      /\ status' = IF got["hash"] = Null \/ got["rp"] = Null \/ got["hash"].len # HASH_LEN
                   THEN "missing_parameter" ELSE "good"
      /\ UNCHANGED <<cmd, buf, pos, readVars, got, writeVars>>
  BY DEF Finish
<1>2. /\ IsRequest(cmd, buf) /\ WellFormed(buf) /\ Layout(buf) /\ ItemAt(buf, 1).mt = 5
      /\ Count(buf) \in Nat /\ left \in 0 .. 31
  BY <1>1, InParser
<1>3. PICK k \in 2 .. Count(buf) + 1 :
         pos = Start(buf, k) /\ Stands(cmd, buf, left, 0, 0, 0, param, got, k)
  BY <1>1, InParser
<1>4. k = Count(buf) + 1
  <2>1. CASE left = 0
    BY <1>2, <1>3, <2>1, StandsAtEnd
  <2>2. CASE pos >= Len(buf.bytes)
    <3>1. ASSUME k \in 1 .. Count(buf)
          PROVE  FALSE
      <4>1. Start(buf, k) < Total(buf) /\ Start(buf, k) \in Nat /\ Total(buf) \in Nat
        BY <1>2, <3>1, Laid, LaidItem
      <4> QED BY <1>3, <2>2, <4>1 DEF Total
    <3> QED BY <1>2, <3>1
  <2> QED BY <1>1, <2>1, <2>2
<1>5. GotUpTo(cmd, buf, got, Count(buf) + 1)
  BY <1>3, <1>4 DEF Stands
<1>6. status' \in {"missing_parameter", "good"}
      /\ (status' = "good") = (got["hash"] # Null /\ got["rp"] # Null /\ got["hash"].len = HASH_LEN)
  BY <1>1
<1>7. CborTypeOK'
  BY <1>1, <1>6 DEF CborIInv, CborTypeOK, readVars, writeVars
<1>8. ParserInv'
  BY <1>1, <1>2, <1>5, <1>6 DEF CborIInv, ParserInv, writeVars
<1>9. WriterInv'
  BY <1>6 DEF WriterInv
<1> QED BY <1>7, <1>8, <1>9 DEF CborIInv

-----------------------------------------------------------------------------
(* Writing. *)
Join(a, b) == a \o b

LEMMA Joined ==
  ASSUME NEW a \in Seq(Byte), NEW b \in Seq(Byte)
  PROVE  /\ Join(a, b) \in Seq(Byte) /\ Length(a) \in Nat /\ Length(b) \in Nat
         /\ Length(Join(a, b)) = Length(a) + Length(b)
         /\ \A i \in 1 .. Length(a) : Join(a, b)[i] = a[i]
         /\ \A i \in 1 .. Length(b) : Join(a, b)[Length(a) + i] = b[i]
BY DEF Length, Join

(* An empty buffer, and one with bytes in it already. *)
LEMMA StartedLaid ==
  ASSUME NEW b \in Seq(Byte), NEW m, m = Started(b)
  PROVE  Layout(m) /\ Count(m) = 0 /\ Start(m, 1) = Length(b) /\ Total(m) = Length(b) /\ m.bytes = b
<1>1. m.items = << >> /\ m.at = <<Len(b)>> /\ m.owed = <<1>> /\ m.bytes = b
  BY DEF Started
<1>2. Len(b) \in Nat
  OBVIOUS
<1>3. /\ << >> \in Seq(Item) /\ Len(<< >>) = 0
      /\ \A n \in Nat : <<n>> \in Seq(Nat) /\ <<n>> \in Seq(Int) /\ Len(<<n>>) = 1 /\ <<n>>[1] = n
  OBVIOUS
<1>4. /\ m.items \in Seq(Item) /\ m.at \in Seq(Nat) /\ m.owed \in Seq(Int) /\ m.bytes \in Seq(Byte)
      /\ Len(m.items) = 0 /\ Len(m.at) = 1 /\ Len(m.owed) = 1 /\ m.owed[1] = 1 /\ m.at[1] = Len(m.bytes)
  BY <1>1, <1>2, <1>3
<1>5. Layout(m)
  BY <1>4 DEF Layout
<1> QED BY <1>1, <1>4, <1>5 DEF Count, Start, Total, Length

(* An item is written behind those in the buffer. *)
LEMMA WrittenParts ==
  ASSUME NEW m, Layout(m), NEW x, Sound(x), NEW w, w = Written(m, x)
  PROVE  /\ w.items \in Seq(Item) /\ w.at \in Seq(Nat) /\ w.owed \in Seq(Int) /\ w.bytes \in Seq(Byte)
         /\ Count(w) = Count(m) + 1 /\ Length(w.at) = Count(w) + 1 /\ Length(w.owed) = Count(w) + 1
         /\ \A k \in 1 .. Count(m) : ItemAt(w, k) = ItemAt(m, k)
         /\ ItemAt(w, Count(m) + 1) = x
         /\ \A k \in 1 .. Count(m) + 1 : Start(w, k) = Start(m, k) /\ Owed(w, k) = Owed(m, k)
         /\ Start(w, Count(m) + 2) = Total(m) + Size(x)
         /\ Owed(w, Count(m) + 2) = Owed(m, Count(m) + 1) - 1 + Children(x)
         /\ Total(w) = Total(m) + Size(x)
         /\ \A i \in 1 .. Total(m) : w.bytes[i] = m.bytes[i]
         /\ \A i \in 1 .. Size(x) : w.bytes[Total(m) + i] = Encoded(x)[i]
<1>1. /\ m.items \in Seq(Item) /\ m.at \in Seq(Nat) /\ m.owed \in Seq(Int) /\ m.bytes \in Seq(Byte)
      /\ Length(m.at) = Count(m) + 1 /\ Length(m.owed) = Count(m) + 1
      /\ Count(m) \in Nat /\ Total(m) \in Nat
  BY Laid DEF Layout, Length, Count
<1>2. x \in Item /\ Encoded(x) \in Seq(Byte) /\ Size(x) \in Nat /\ Children(x) \in Nat
  BY EncodedBytes, SizeShape, ItemShape DEF Sound
<1>3. Owed(m, Count(m) + 1) \in Int /\ m.owed[Len(m.owed)] = Owed(m, Count(m) + 1)
  <2>1. Count(m) + 1 \in 1 .. Count(m) + 1
    BY <1>1
  <2> QED BY <1>1, <2>1, Laid DEF Owed, Length
<1> DEFINE start == Total(m) + Size(x)
           owed == Owed(m, Count(m) + 1) - 1 + Children(x)
<1>4. start \in Nat /\ owed \in Int
  BY <1>1, <1>2, <1>3
<1>5. /\ w.items = Append(m.items, x) /\ w.at = Append(m.at, start)
      /\ w.owed = Append(m.owed, owed) /\ w.bytes = m.bytes \o Encoded(x)
  BY <1>3 DEF Written, Total, Size
<1> HIDE DEF start, owed
<1>6. /\ w.items \in Seq(Item) /\ Length(w.items) = Length(m.items) + 1
      /\ \A k \in 1 .. Length(m.items) : w.items[k] = m.items[k]
      /\ w.items[Length(m.items) + 1] = x
  <2>1. \A a \in Seq(Item) : \A e \in Item : \A c : c = Append(a, e) =>
          /\ c \in Seq(Item) /\ Length(c) = Length(a) + 1
          /\ \A k \in 1 .. Length(a) : c[k] = a[k]
          /\ c[Length(a) + 1] = e
    BY DEF Length
  <2> QED BY <1>1, <1>2, <1>5, <2>1
<1>7. /\ w.at \in Seq(Nat) /\ Length(w.at) = Length(m.at) + 1
      /\ \A k \in 1 .. Length(m.at) : w.at[k] = m.at[k]
      /\ w.at[Length(m.at) + 1] = start
  <2>1. \A a \in Seq(Nat) : \A e \in Nat : \A c : c = Append(a, e) =>
          /\ c \in Seq(Nat) /\ Length(c) = Length(a) + 1
          /\ \A k \in 1 .. Length(a) : c[k] = a[k]
          /\ c[Length(a) + 1] = e
    BY DEF Length
  <2>2. m.at \in Seq(Nat) /\ start \in Nat /\ w.at = Append(m.at, start)
    BY <1>1, <1>4, <1>5
  <2> QED BY <2>1, <2>2
<1>8. /\ w.owed \in Seq(Int) /\ Length(w.owed) = Length(m.owed) + 1
      /\ \A k \in 1 .. Length(m.owed) : w.owed[k] = m.owed[k]
      /\ w.owed[Length(m.owed) + 1] = owed
  <2>1. \A a \in Seq(Int) : \A e \in Int : \A c : c = Append(a, e) =>
          /\ c \in Seq(Int) /\ Length(c) = Length(a) + 1
          /\ \A k \in 1 .. Length(a) : c[k] = a[k]
          /\ c[Length(a) + 1] = e
    BY DEF Length
  <2> QED BY <1>1, <1>4, <1>5, <2>1
<1>9. /\ w.bytes \in Seq(Byte) /\ Length(w.bytes) = Length(m.bytes) + Length(Encoded(x))
      /\ \A i \in 1 .. Length(m.bytes) : w.bytes[i] = m.bytes[i]
      /\ \A i \in 1 .. Length(Encoded(x)) : w.bytes[Length(m.bytes) + i] = Encoded(x)[i]
  <2>1. \A a \in Seq(Byte) : \A b \in Seq(Byte) : \A c : c = a \o b =>
          /\ c \in Seq(Byte) /\ Length(c) = Length(a) + Length(b)
          /\ \A k \in 1 .. Length(a) : c[k] = a[k]
          /\ \A k \in 1 .. Length(b) : c[Length(a) + k] = b[k]
    BY DEF Length
  <2> QED BY <1>1, <1>2, <1>5, <2>1
<1>10. /\ Count(m) = Length(m.items) /\ Count(w) = Length(w.items) /\ Total(m) = Length(m.bytes)
       /\ Total(w) = Length(w.bytes) /\ Size(x) = Length(Encoded(x))
  BY DEF Count, Total, Size, Length
<1>11. (Count(m) + 1) + 1 = Count(m) + 2
  BY <1>1
<1>12. /\ Count(w) = Count(m) + 1 /\ Length(w.at) = Count(w) + 1 /\ Length(w.owed) = Count(w) + 1
  BY <1>1, <1>6, <1>7, <1>8, <1>10
<1>13. /\ \A k \in 1 .. Count(m) : ItemAt(w, k) = ItemAt(m, k)
       /\ ItemAt(w, Count(m) + 1) = x
  BY <1>6, <1>10 DEF ItemAt
<1>14. \A k \in 1 .. Count(m) + 1 : Start(w, k) = Start(m, k) /\ Owed(w, k) = Owed(m, k)
  BY <1>1, <1>7, <1>8 DEF Start, Owed
<1>15. Start(w, Count(m) + 2) = start /\ Owed(w, Count(m) + 2) = owed
  BY <1>1, <1>7, <1>8, <1>11 DEF Start, Owed
<1> QED BY <1>6, <1>7, <1>8, <1>9, <1>10, <1>12, <1>13, <1>14, <1>15 DEF start, owed

LEMMA WrittenLaid ==
  ASSUME NEW m, Layout(m), NEW x, Sound(x), NEW w, w = Written(m, x)
  PROVE  Layout(w)
<1>1. /\ w.items \in Seq(Item) /\ w.at \in Seq(Nat) /\ w.owed \in Seq(Int) /\ w.bytes \in Seq(Byte)
      /\ Count(w) = Count(m) + 1 /\ Length(w.at) = Count(w) + 1 /\ Length(w.owed) = Count(w) + 1
      /\ \A k \in 1 .. Count(m) : ItemAt(w, k) = ItemAt(m, k)
      /\ ItemAt(w, Count(m) + 1) = x
      /\ \A k \in 1 .. Count(m) + 1 : Start(w, k) = Start(m, k) /\ Owed(w, k) = Owed(m, k)
      /\ Start(w, Count(m) + 2) = Total(m) + Size(x)
      /\ Owed(w, Count(m) + 2) = Owed(m, Count(m) + 1) - 1 + Children(x)
      /\ Total(w) = Total(m) + Size(x)
      /\ \A i \in 1 .. Total(m) : w.bytes[i] = m.bytes[i]
      /\ \A i \in 1 .. Size(x) : w.bytes[Total(m) + i] = Encoded(x)[i]
  BY WrittenParts
<1>2. /\ Count(m) \in Nat /\ Total(m) \in Nat /\ Size(x) \in Nat /\ Start(m, Count(m) + 1) = Total(m)
      /\ Owed(m, 1) = 1 /\ (Count(m) + 1) + 1 = Count(m) + 2
  BY Laid, SizeShape
<1>3. Owed(w, 1) = 1 /\ Start(w, Count(w) + 1) = Total(w)
  BY <1>1, <1>2
<1>4. ASSUME NEW k \in 1 .. Count(w)
      PROVE  /\ Sound(ItemAt(w, k)) /\ Owed(w, k + 1) = Owed(w, k) - 1 + Children(ItemAt(w, k))
             /\ Start(w, k + 1) = Start(w, k) + Size(ItemAt(w, k)) /\ Start(w, k + 1) <= Total(w)
             /\ \A i \in 1 .. Size(ItemAt(w, k)) : w.bytes[Start(w, k) + i] = Encoded(ItemAt(w, k))[i]
  <2>1. CASE k \in 1 .. Count(m)
    <3> DEFINE y == ItemAt(m, k)
    <3>1. /\ Sound(y) /\ Lies(m.bytes, Start(m, k), y)
          /\ Start(m, k) \in Nat /\ Start(m, k + 1) = Start(m, k) + Size(y) /\ Start(m, k + 1) <= Total(m)
          /\ Owed(m, k + 1) = Owed(m, k) - 1 + Children(y) /\ Start(m, k + 1) \in Nat
      BY <2>1, LaidItem
    <3>2. ItemAt(w, k) = y /\ Start(w, k) = Start(m, k) /\ Owed(w, k) = Owed(m, k)
      BY <1>1, <1>2, <2>1
    <3>3. Start(w, k + 1) = Start(m, k + 1) /\ Owed(w, k + 1) = Owed(m, k + 1)
      <4>1. k + 1 \in 1 .. Count(m) + 1
        BY <1>2, <2>1
      <4> QED BY <1>1, <4>1
    <3> HIDE DEF y
    <3>4. Start(w, k + 1) <= Total(w)
      BY <1>1, <1>2, <3>1, <3>3
    <3>5. ASSUME NEW i \in 1 .. Size(y)
          PROVE  w.bytes[Start(w, k) + i] = Encoded(y)[i]
      <4>1. m.bytes[Start(m, k) + i] = Encoded(y)[i]
        BY <3>1 DEF Lies
      <4>2. Size(y) \in Nat
        BY <3>1, SizeShape
      <4>3. Start(m, k) + i \in 1 .. Total(m)
        BY <1>2, <3>1, <4>2
      <4> QED BY <1>1, <3>2, <4>1, <4>3
    <3> QED BY <3>1, <3>2, <3>3, <3>4, <3>5
  <2>2. CASE k = Count(m) + 1
    <3>1. /\ ItemAt(w, k) = x /\ Start(w, k) = Total(m) /\ Owed(w, k) = Owed(m, Count(m) + 1)
          /\ Start(w, k + 1) = Total(m) + Size(x)
          /\ Owed(w, k + 1) = Owed(m, Count(m) + 1) - 1 + Children(x)
      <4>1. k \in 1 .. Count(m) + 1 /\ k + 1 = Count(m) + 2
        BY <1>2, <2>2
      <4> QED BY <1>1, <1>2, <2>2, <4>1
    <3>2. Start(w, k + 1) <= Total(w)
      BY <1>1, <1>2, <3>1
    <3> QED BY <1>1, <3>1, <3>2
  <2>3. k \in 1 .. Count(m) \/ k = Count(m) + 1
    BY <1>1, <1>2
  <2> QED BY <2>1, <2>2, <2>3
<1>5. /\ Len(w.at) = Len(w.items) + 1 /\ Len(w.owed) = Len(w.items) + 1
      /\ w.owed[1] = 1 /\ w.at[Len(w.at)] = Len(w.bytes)
  BY <1>1, <1>3 DEF Length, Count, Owed, Start, Total
<1>6. \A k \in 1 .. Len(w.items) :
       /\ Sound(w.items[k])
       /\ w.owed[k + 1] = w.owed[k] - 1 + Children(w.items[k])
       /\ w.at[k + 1] = w.at[k] + Len(Encoded(w.items[k])) /\ w.at[k + 1] <= Len(w.bytes)
       /\ \A i \in 1 .. Len(Encoded(w.items[k])) : w.bytes[w.at[k] + i] = Encoded(w.items[k])[i]
  BY <1>4 DEF Count, ItemAt, Owed, Start, Size, Total
<1> QED BY <1>1, <1>5, <1>6 DEF Layout

(* What the items of a response take. *)
Fits(x, size) == Sound(x) /\ Size(x) <= size

LEMMA HeadSizes ==
  ASSUME NEW x, Sound(x)
  PROVE  /\ x.n <= 23 => HeadSize(x) = 1
         /\ x.n <= 255 => HeadSize(x) <= 2
         /\ TwoBytes(x.n) => HeadSize(x) <= 3
<1>1. x.mt \in MajorTypes /\ FourBytes(x.n) /\ x.n \in Nat
  BY ItemShape
<1>2. \A k \in MajorTypes : \A l : FourBytes(l) =>
        /\ l <= 23 => Len(CborHead(k, l)) = 1
        /\ l \in 24 .. 255 => Len(CborHead(k, l)) = 2
        /\ l > 255 /\ TwoBytes(l) => Len(CborHead(k, l)) = 3
  BY HeadShape
<1>3. /\ x.n <= 23 => HeadSize(x) = 1
      /\ x.n \in 24 .. 255 => HeadSize(x) = 2
      /\ x.n > 255 /\ TwoBytes(x.n) => HeadSize(x) = 3
  BY <1>1, <1>2 DEF HeadSize
<1>4. HeadSize(x) \in Nat
  BY SizeShape
<1> QED BY <1>1, <1>3, <1>4

LEMMA SmallFits ==
  ASSUME NEW n \in 0 .. 23, NEW mt \in {0, 1, 4, 5, 7}, NEW x, x = [mt |-> mt, n |-> n, data |-> << >>]
  PROVE  Fits(x, 1)
<1>1. x.mt = mt /\ x.n = n /\ x.data = << >> /\ mt \in MajorTypes /\ mt \notin {2, 3} /\ n \in Nat
  BY DEF MajorTypes
<1>2. << >> \in Seq(Byte) /\ TwoBytes(n)
  BY DEF TwoBytes, Byte
<1>3. FourBytes(n)
  BY SMT DEF FourBytes, Byte
<1>4. x \in Item
  BY <1>1, <1>2 DEF Item
<1>5. Sound(x)
  BY <1>1, <1>2, <1>3, <1>4 DEF Sound
<1>6. HeadSize(x) = 1 /\ DataSize(x) = 0
  BY <1>1, <1>5, HeadSizes, ItemShape
<1>7. Size(x) <= 1
  BY <1>5, <1>6, SizeShape
<1> QED BY <1>5, <1>7 DEF Fits

LEMMA StringFits ==
  ASSUME NEW data \in Seq(Byte), Length(data) <= 65535, NEW x \in {Bytes(data), Text(data)}
  PROVE  /\ Sound(x) /\ x.n = Length(data) /\ x.data = data /\ Length(data) \in Nat
         /\ Length(data) <= 23 => Size(x) = Length(data) + 1
         /\ Length(data) <= 255 => Size(x) <= Length(data) + 2
         /\ Size(x) <= Length(data) + 3
<1>1. /\ x.mt \in {2, 3} /\ x.n = Length(data) /\ x.data = data /\ x.mt \in MajorTypes
      /\ Length(data) \in Nat /\ DataSize(x) = Length(data) /\ x.n = Len(x.data)
  BY DEF MajorTypes, Length, DataSize, Bytes, Text
<1>2. \A n \in Nat : n <= 65535 => TwoBytes(n)
  BY SMT DEF TwoBytes, Byte
<1>3. \A n \in Nat : n <= 65535 => FourBytes(n)
  BY SMT DEF FourBytes, Byte
<1>4. x \in Item
  BY <1>1 DEF Item, Bytes, Text
<1>5. Sound(x)
  BY <1>1, <1>2, <1>3, <1>4 DEF Sound
<1>6. /\ HeadSize(x) <= 3 /\ HeadSize(x) \in Nat /\ Size(x) = HeadSize(x) + DataSize(x)
      /\ x.n <= 23 => HeadSize(x) = 1
      /\ x.n <= 255 => HeadSize(x) <= 2
  BY <1>1, <1>2, <1>5, HeadSizes, SizeShape
<1> DEFINE n == Length(data)
<1>7. /\ HeadSize(x) <= 3 /\ HeadSize(x) \in Nat /\ Size(x) = HeadSize(x) + n /\ n \in Nat
      /\ n <= 23 => HeadSize(x) = 1
      /\ n <= 255 => HeadSize(x) <= 2
  <2>1. x.n = n /\ DataSize(x) = n /\ n \in Nat
    BY <1>1
  <2> HIDE DEF n
  <2> QED BY <1>6, <2>1
<1> HIDE DEF n
<1>8. /\ n <= 23 => Size(x) = n + 1
      /\ n <= 255 => Size(x) <= n + 2
      /\ Size(x) <= n + 3
  BY <1>7
<1> QED BY <1>1, <1>5, <1>8 DEF n

LEMMA FitsMore ==
  ASSUME NEW x, NEW s \in Int, NEW t \in Int, s <= t, Fits(x, s)
  PROVE  Fits(x, t)
BY SizeShape DEF Fits

LEMMA FillFits ==
  ASSUME NEW n \in 0 .. 32
  PROVE  /\ Fill(n) \in Seq(Byte) /\ Length(Fill(n)) = n
         /\ Fits(Bytes(Fill(n)), 34)
         /\ n <= 16 => Fits(Bytes(Fill(n)), 17)
<1>1. Fill(n) \in Seq(Byte) /\ Length(Fill(n)) = n
  BY DEF Fill, Byte, Length
<1> DEFINE d == Fill(n)
<1>0. Bytes(d) \in {Bytes(d), Text(d)}
  OBVIOUS
<1> HIDE DEF d
<1>2. /\ Sound(Bytes(d)) /\ (n <= 255 => Size(Bytes(d)) <= n + 2)
      /\ (n <= 23 => Size(Bytes(d)) = n + 1)
  BY <1>0, <1>1, StringFits DEF d
<1>3. Size(Bytes(d)) \in Nat
  BY <1>2, SizeShape
<1> QED BY <1>1, <1>2, <1>3 DEF Fits, d

LEMMA TextFits ==
  /\ \A n \in 0 .. 10 : Fits(OtherText(n), n + 1)
  /\ Fits(Text(Id), 3) /\ Fits(Text(Name), 5) /\ Fits(Text(AuthDataName), 9)
<1>1. ASSUME NEW n \in 0 .. 10
      PROVE  Fits(OtherText(n), n + 1)
  <2> DEFINE d == [k \in 1 .. n |-> 120]
  <2>1. d \in Seq(Byte) /\ Length(d) = n
    BY DEF Byte, Length
  <2> HIDE DEF d
  <2>2. Sound(Text(d)) /\ Size(Text(d)) = n + 1
    <3>1. Text(d) \in {Bytes(d), Text(d)}
      OBVIOUS
    <3> QED BY <2>1, <3>1, StringFits
  <2> QED BY <2>2 DEF Fits, OtherText, d
<1>2. /\ Id \in Seq(Byte) /\ Length(Id) = 2 /\ Name \in Seq(Byte) /\ Length(Name) = 4
      /\ AuthDataName \in Seq(Byte) /\ Length(AuthDataName) = 8
  BY DEF Id, Name, AuthDataName, Byte, Length
<1>3. /\ Sound(Text(Id)) /\ Size(Text(Id)) = 3
      /\ Sound(Text(Name)) /\ Size(Text(Name)) = 5
      /\ Sound(Text(AuthDataName)) /\ Size(Text(AuthDataName)) = 9
  <2>1. \A d \in Seq(Byte) : Length(d) <= 23 => Sound(Text(d)) /\ Size(Text(d)) = Length(d) + 1
    <3> TAKE d \in Seq(Byte)
    <3>1. Text(d) \in {Bytes(d), Text(d)} /\ Length(d) \in Nat
      BY DEF Length
    <3> QED BY <3>1, StringFits
  <2> QED BY <1>2, <2>1
<1> QED BY <1>1, <1>3 DEF Fits

LEMMA HeadsFit ==
  /\ \A n \in 0 .. 23 : Fits(Uint(n), 1) /\ Fits(Negative(n), 1) /\ Fits(MapOf(n), 1) /\ Fits(ListOf(n), 1)
  /\ Fits(Truth(TRUE), 1) /\ Fits(Truth(FALSE), 1)
<1>1. \A n \in 0 .. 23 : \A mt \in {0, 1, 4, 5, 7} : \A x :
        x = [mt |-> mt, n |-> n, data |-> << >>] => Fits(x, 1)
  BY SmallFits
<1>2. ASSUME NEW n \in 0 .. 23
      PROVE  Fits(Uint(n), 1) /\ Fits(Negative(n), 1) /\ Fits(MapOf(n), 1) /\ Fits(ListOf(n), 1)
  BY <1>1 DEF Uint, Negative, MapOf, ListOf
<1>3. Fits(Truth(TRUE), 1) /\ Fits(Truth(FALSE), 1)
  <2>1. /\ Truth(TRUE) = [mt |-> 7, n |-> 21, data |-> << >>]
        /\ Truth(FALSE) = [mt |-> 7, n |-> 20, data |-> << >>]
    BY DEF Truth
  <2>2. 21 \in 0 .. 23 /\ 20 \in 0 .. 23 /\ 7 \in {0, 1, 4, 5, 7}
    OBVIOUS
  <2> QED BY <1>1, <2>1, <2>2, Zenon
<1> QED BY <1>2, <1>3

LEMMA ChildrenWritten ==
  /\ \A n : /\ Children(Uint(n)) = 0 /\ Children(Negative(n)) = 0
            /\ Children(MapOf(n)) = 2 * n /\ Children(ListOf(n)) = n
  /\ \A t : Children(Bytes(t)) = 0 /\ Children(Text(t)) = 0
  /\ \A n : Children(OtherText(n)) = 0
  /\ \A b : Children(Truth(b)) = 0
BY DEF Children, Uint, Negative, MapOf, ListOf, Bytes, Text, OtherText, Truth

(* A response: its items, what each takes, and the items inside each.      *)
LEMMA CoseKeyShape ==
  /\ Length(CoseKey) = 11
  /\ \A k \in 1 .. 11 : Fits(CoseKey[k], 34) /\ Children(CoseKey[k]) = IF k = 1 THEN 10 ELSE 0
<1> DEFINE r == CoseKey
<1>1. /\ Length(r) = 11
      /\ r[1] = MapOf(5) /\ r[2] = Uint(1) /\ r[3] = Uint(2) /\ r[4] = Uint(3) /\ r[5] = Negative(6)
      /\ r[6] = Negative(0) /\ r[7] = Uint(1) /\ r[8] = Negative(1) /\ r[9] = Bytes(Fill(32))
      /\ r[10] = Negative(2) /\ r[11] = Bytes(Fill(32))
  BY DEF CoseKey, Length
<1> HIDE DEF r
<1>2. \A n \in 0 .. 23 : Fits(Uint(n), 34) /\ Fits(Negative(n), 34) /\ Fits(MapOf(n), 34)
  BY HeadsFit, FitsMore
<1>3. Fits(Bytes(Fill(32)), 34)
  BY FillFits
<1>4. /\ Fits(r[1], 34) /\ Fits(r[2], 34) /\ Fits(r[3], 34) /\ Fits(r[4], 34) /\ Fits(r[5], 34)
      /\ Fits(r[6], 34) /\ Fits(r[7], 34) /\ Fits(r[8], 34) /\ Fits(r[9], 34) /\ Fits(r[10], 34)
      /\ Fits(r[11], 34)
  BY <1>1, <1>2, <1>3
<1>5. /\ Children(r[1]) = 10 /\ Children(r[2]) = 0 /\ Children(r[3]) = 0 /\ Children(r[4]) = 0
      /\ Children(r[5]) = 0 /\ Children(r[6]) = 0 /\ Children(r[7]) = 0 /\ Children(r[8]) = 0
      /\ Children(r[9]) = 0 /\ Children(r[10]) = 0 /\ Children(r[11]) = 0
  BY <1>1, ChildrenWritten
<1>6. ASSUME NEW k \in 1 .. 11
      PROVE  Fits(r[k], 34) /\ Children(r[k]) = IF k = 1 THEN 10 ELSE 0
  <2>1. \/ k = 1 \/ k = 2 \/ k = 3 \/ k = 4 \/ k = 5 \/ k = 6 \/ k = 7 \/ k = 8 \/ k = 9 \/ k = 10 \/ k = 11
    OBVIOUS
  <2> QED BY <1>4, <1>5, <2>1
<1> QED BY <1>1, <1>6 DEF r

LEMMA MakeResponseShape ==
  ASSUME NEW data \in Seq(Byte), Length(data) <= 461, NEW r, r = MakeResponse(data)
  PROVE  /\ Length(r) = 7 /\ r[6] = Text(AuthDataName) /\ r[7] = Bytes(data)
         /\ \A k \in 1 .. 7 : /\ Fits(r[k], IF k = 7 THEN 464 ELSE 9)
                              /\ Children(r[k]) = IF k = 1 THEN 6 ELSE 0
<1>1. /\ Length(r) = 7
      /\ r[1] = MapOf(3) /\ r[2] = OtherText(3) /\ r[3] = OtherText(4) /\ r[4] = OtherText(7)
      /\ r[5] = MapOf(0) /\ r[6] = Text(AuthDataName) /\ r[7] = Bytes(data)
  BY DEF MakeResponse, Length
<1>2. Fits(MapOf(3), 9) /\ Fits(MapOf(0), 9)
  BY HeadsFit, FitsMore
<1>3. \A n \in 0 .. 8 : Fits(OtherText(n), 9)
  <2> TAKE n \in 0 .. 8
  <2>1. Fits(OtherText(n), n + 1)
    BY TextFits
  <2> QED BY <2>1, FitsMore
<1>4. Fits(Text(AuthDataName), 9)
  BY TextFits
<1>5. Fits(Bytes(data), 464)
  <2>1. Bytes(data) \in {Bytes(data), Text(data)} /\ Length(data) <= 65535 /\ Length(data) \in Nat
    BY DEF Length
  <2>2. Sound(Bytes(data)) /\ Size(Bytes(data)) <= Length(data) + 3
    BY <2>1, StringFits
  <2>3. Size(Bytes(data)) \in Nat
    BY <2>2, SizeShape
  <2> QED BY <2>1, <2>2, <2>3 DEF Fits
<1>6. /\ Fits(r[1], 9) /\ Fits(r[2], 9) /\ Fits(r[3], 9) /\ Fits(r[4], 9) /\ Fits(r[5], 9)
      /\ Fits(r[6], 9) /\ Fits(r[7], 464)
  BY <1>1, <1>2, <1>3, <1>4, <1>5
<1>7. /\ Children(r[1]) = 6 /\ Children(r[2]) = 0 /\ Children(r[3]) = 0 /\ Children(r[4]) = 0
      /\ Children(r[5]) = 0 /\ Children(r[6]) = 0 /\ Children(r[7]) = 0
  BY <1>1, ChildrenWritten
<1>8. ASSUME NEW k \in 1 .. 7
      PROVE  Fits(r[k], IF k = 7 THEN 464 ELSE 9) /\ Children(r[k]) = IF k = 1 THEN 6 ELSE 0
  <2>1. k = 1 \/ k = 2 \/ k = 3 \/ k = 4 \/ k = 5 \/ k = 6 \/ k = 7
    OBVIOUS
  <2> QED BY <1>6, <1>7, <2>1
<1> QED BY <1>1, <1>8

LEMMA StringFits75 ==
  ASSUME NEW data \in Seq(Byte), Length(data) <= 72
  PROVE  Fits(Bytes(data), 75) /\ Fits(Text(data), 75)
<1>1. /\ Bytes(data) \in {Bytes(data), Text(data)} /\ Text(data) \in {Bytes(data), Text(data)}
      /\ Length(data) <= 65535 /\ Length(data) \in Nat
  BY DEF Length
<1>2. /\ Sound(Bytes(data)) /\ Size(Bytes(data)) <= Length(data) + 3
      /\ Sound(Text(data)) /\ Size(Text(data)) <= Length(data) + 3
  BY <1>1, StringFits
<1>3. Size(Bytes(data)) \in Nat /\ Size(Text(data)) \in Nat
  BY <1>2, SizeShape
<1> QED BY <1>1, <1>2, <1>3 DEF Fits

(* A string of C is no longer than its buffer. *)
LEMMA CStringShape ==
  ASSUME NEW s \in Seq(Byte)
  PROVE  CString(s) \in Seq(Byte) /\ Length(CString(s)) <= Length(s)
<1> DEFINE before == {i \in DOMAIN s : \A j \in 1 .. i : s[j] # 0}
<1>1. Len(s) \in Nat /\ DOMAIN s = 1 .. Len(s)
  OBVIOUS
<1>2. IsFiniteSet(1 .. Len(s)) /\ Cardinality(1 .. Len(s)) = Len(s)
  BY <1>1, FS_Interval
<1>3. before \in SUBSET (1 .. Len(s))
  BY <1>1
<1>4. IsFiniteSet(before) /\ Cardinality(before) <= Len(s)
  BY <1>2, <1>3, FS_Subset, Zenon
<1>5. Cardinality(before) \in Nat
  BY <1>4, FS_CardinalityType, Zenon
<1>6. CString(s) = SubSeq(s, 1, Cardinality(before))
  BY DEF CString
<1> HIDE DEF before
<1>7. CString(s) \in Seq(Byte) /\ Len(CString(s)) = Cardinality(before)
  BY <1>1, <1>4, <1>5, <1>6
<1> QED BY <1>4, <1>7, Zenon DEF Length

LEMMA GetResponseShape ==
  ASSUME NEW user \in Users, NEW sig_len \in SigLengths, NEW data \in Seq(Byte), Length(data) <= 72,
         NEW r, r = GetResponse(user, data, sig_len)
  PROVE  /\ Length(r) = 17 /\ r[8] = Uint(2) /\ r[9] = Bytes(data)
         /\ \A k \in 1 .. 17 :
              /\ Fits(r[k], IF k <= 8 THEN 34 ELSE 75)
              /\ Children(r[k]) = IF k = 1 THEN 8 ELSE IF k = 3 \/ k = 13 THEN 4 ELSE 0
<1> DEFINE sig == Fill(sig_len)
           id == user.id
           name == CString(user.name)
<1>1. /\ Length(r) = 17
      /\ r[1] = MapOf(4) /\ r[2] = Uint(1) /\ r[3] = MapOf(2) /\ r[4] = Text(Id)
      /\ r[5] = Bytes(Fill(32)) /\ r[6] = OtherText(4) /\ r[7] = OtherText(10)
      /\ r[8] = Uint(2) /\ r[9] = Bytes(data) /\ r[10] = Uint(3) /\ r[11] = Bytes(sig)
      /\ r[12] = Uint(4) /\ r[13] = MapOf(2) /\ r[14] = Text(Id) /\ r[15] = Bytes(id)
      /\ r[16] = Text(Name) /\ r[17] = Text(name)
  BY DEF GetResponse, Length, CREDENTIAL_ID_LEN
<1>2. /\ \A n \in 0 .. 23 : Fits(MapOf(n), 34) /\ Fits(Uint(n), 34) /\ Fits(MapOf(n), 75) /\ Fits(Uint(n), 75)
      /\ \A n \in 0 .. 10 : Fits(OtherText(n), 34)
      /\ Fits(Text(Id), 34) /\ Fits(Text(Id), 75) /\ Fits(Text(Name), 75)
  <2>1. \A n \in 0 .. 10 : Fits(OtherText(n), n + 1)
    BY TextFits
  <2>2. \A n \in 0 .. 10 : Fits(OtherText(n), 34)
    BY <2>1, FitsMore
  <2>3. Fits(Text(Id), 34) /\ Fits(Text(Id), 75) /\ Fits(Text(Name), 75)
    BY TextFits, FitsMore
  <2> QED BY <2>2, <2>3, HeadsFit, FitsMore
<1>3. Fits(Bytes(Fill(32)), 34)
  BY FillFits
<1>4. Fits(Bytes(data), 75)
  BY StringFits75
<1>5. Fits(Bytes(sig), 75)
  <2>1. sig_len \in 0 .. 72
    BY SizesAssumption DEF SIG_BUF
  <2>2. sig \in Seq(Byte) /\ Length(sig) = sig_len
    BY <2>1 DEF Fill, Byte, Length
  <2> HIDE DEF sig
  <2> QED BY <2>1, <2>2, StringFits75
<1>6. Fits(Bytes(id), 75) /\ Fits(Text(name), 75)
  <2>1. /\ id \in Seq(Byte) /\ name \in Seq(Byte) /\ Length(id) <= 64 /\ Length(name) < 64
    <3>1. /\ user.id \in Seq(Byte) /\ Length(user.id) <= 64
          /\ user.name \in Seq(Byte) /\ Length(user.name) < 64
      BY UsersAssumption DEF Length, MAX_USER_ID_LEN, MAX_USER_NAME_LEN
    <3>2. name \in Seq(Byte) /\ Length(name) <= Length(user.name)
      BY <3>1, CStringShape
    <3>3. Length(name) \in Nat /\ Length(user.name) \in Nat
      BY <3>1, <3>2 DEF Length
    <3> HIDE DEF name
    <3> QED BY <3>1, <3>2, <3>3
  <2>2. Length(id) \in Nat /\ Length(name) \in Nat
    BY <2>1 DEF Length
  <2> HIDE DEF id, name
  <2>3. Length(id) <= 72 /\ Length(name) <= 72
    BY <2>1, <2>2
  <2> QED BY <2>1, <2>3, StringFits75
<1> HIDE DEF sig, id, name
<1>7. /\ Fits(r[1], 34) /\ Fits(r[2], 34) /\ Fits(r[3], 34) /\ Fits(r[4], 34) /\ Fits(r[5], 34)
      /\ Fits(r[6], 34) /\ Fits(r[7], 34) /\ Fits(r[8], 34)
  BY <1>1, <1>2, <1>3
<1>8. /\ Fits(r[9], 75) /\ Fits(r[10], 75) /\ Fits(r[11], 75) /\ Fits(r[12], 75) /\ Fits(r[13], 75)
      /\ Fits(r[14], 75) /\ Fits(r[15], 75) /\ Fits(r[16], 75) /\ Fits(r[17], 75)
  BY <1>1, <1>2, <1>4, <1>5, <1>6
<1>9. /\ Children(r[1]) = 8 /\ Children(r[2]) = 0 /\ Children(r[3]) = 4 /\ Children(r[4]) = 0
      /\ Children(r[5]) = 0 /\ Children(r[6]) = 0 /\ Children(r[7]) = 0 /\ Children(r[8]) = 0
  BY <1>1, ChildrenWritten
<1>10. /\ Children(r[9]) = 0 /\ Children(r[10]) = 0 /\ Children(r[11]) = 0 /\ Children(r[12]) = 0
       /\ Children(r[13]) = 4 /\ Children(r[14]) = 0 /\ Children(r[15]) = 0 /\ Children(r[16]) = 0
       /\ Children(r[17]) = 0
  BY <1>1, ChildrenWritten
<1>11. ASSUME NEW k \in 1 .. 17
       PROVE  /\ Fits(r[k], IF k <= 8 THEN 34 ELSE 75)
              /\ Children(r[k]) = IF k = 1 THEN 8 ELSE IF k = 3 \/ k = 13 THEN 4 ELSE 0
  <2>1. CASE k <= 8
    <3>1. k = 1 \/ k = 2 \/ k = 3 \/ k = 4 \/ k = 5 \/ k = 6 \/ k = 7 \/ k = 8
      BY <2>1
    <3> QED BY <1>7, <1>9, <3>1
  <2>2. CASE ~(k <= 8)
    <3>1. \/ k = 9 \/ k = 10 \/ k = 11 \/ k = 12 \/ k = 13 \/ k = 14 \/ k = 15 \/ k = 16 \/ k = 17
      BY <2>2
    <3> QED BY <1>8, <1>10, <3>1
  <2> QED BY <2>1, <2>2
<1> QED BY <1>1, <1>11

LEMMA InfoResponseShape ==
  /\ Length(InfoResponse) = 16
  /\ \A k \in 1 .. 16 :
       /\ Fits(InfoResponse[k], 17)
       /\ Children(InfoResponse[k]) = IF k = 1 THEN 8 ELSE IF k = 3 THEN 1 ELSE IF k = 10 THEN 6 ELSE 0
<1> DEFINE r == InfoResponse
<1>1. /\ Length(r) = 16
      /\ r[1] = MapOf(4) /\ r[2] = Uint(1) /\ r[3] = ListOf(1) /\ r[4] = OtherText(8)
      /\ r[5] = Uint(2) /\ r[6] = ListOf(0) /\ r[7] = Uint(3) /\ r[8] = Bytes(Fill(16))
      /\ r[9] = Uint(4) /\ r[10] = MapOf(3) /\ r[11] = OtherText(2) /\ r[12] = Truth(TRUE)
      /\ r[13] = OtherText(2) /\ r[14] = Truth(TRUE) /\ r[15] = OtherText(2) /\ r[16] = Truth(FALSE)
  BY DEF InfoResponse, Length, AAGUID_LEN
<1> HIDE DEF r
<1>2. \A n \in 0 .. 23 : Fits(Uint(n), 17) /\ Fits(ListOf(n), 17) /\ Fits(MapOf(n), 17)
  BY HeadsFit, FitsMore
<1>3. \A n \in 0 .. 10 : Fits(OtherText(n), 17)
  <2> TAKE n \in 0 .. 10
  <2>1. Fits(OtherText(n), n + 1)
    BY TextFits
  <2> QED BY <2>1, FitsMore
<1>4. Fits(Bytes(Fill(16)), 17) /\ Fits(Truth(TRUE), 17) /\ Fits(Truth(FALSE), 17)
  <2>1. Fits(Bytes(Fill(16)), 17)
    BY FillFits
  <2>2. \A x : Fits(x, 1) => Fits(x, 17)
    BY FitsMore
  <2> QED BY <2>1, <2>2, HeadsFit, Zenon
<1>5. /\ Fits(r[1], 17) /\ Fits(r[2], 17) /\ Fits(r[3], 17) /\ Fits(r[4], 17) /\ Fits(r[5], 17)
      /\ Fits(r[6], 17) /\ Fits(r[7], 17) /\ Fits(r[8], 17)
  BY <1>1, <1>2, <1>3, <1>4
<1>6. /\ Fits(r[9], 17) /\ Fits(r[10], 17) /\ Fits(r[11], 17) /\ Fits(r[12], 17) /\ Fits(r[13], 17)
      /\ Fits(r[14], 17) /\ Fits(r[15], 17) /\ Fits(r[16], 17)
  <2>1. Fits(r[12], 17) /\ Fits(r[14], 17) /\ Fits(r[16], 17)
    BY <1>1, <1>4, Zenon
  <2>2. Fits(r[9], 17) /\ Fits(r[10], 17) /\ Fits(r[11], 17) /\ Fits(r[13], 17) /\ Fits(r[15], 17)
    BY <1>1, <1>2, <1>3
  <2> QED BY <2>1, <2>2
<1>7. /\ Children(r[1]) = 8 /\ Children(r[2]) = 0 /\ Children(r[3]) = 1 /\ Children(r[4]) = 0
      /\ Children(r[5]) = 0 /\ Children(r[6]) = 0 /\ Children(r[7]) = 0 /\ Children(r[8]) = 0
  BY <1>1, ChildrenWritten
<1>8. /\ Children(r[9]) = 0 /\ Children(r[10]) = 6 /\ Children(r[11]) = 0 /\ Children(r[12]) = 0
      /\ Children(r[13]) = 0 /\ Children(r[14]) = 0 /\ Children(r[15]) = 0 /\ Children(r[16]) = 0
  <2>1. Children(r[12]) = 0 /\ Children(r[14]) = 0 /\ Children(r[16]) = 0
    BY <1>1, ChildrenWritten, Zenon
  <2>2. /\ Children(r[9]) = 0 /\ Children(r[10]) = 6 /\ Children(r[11]) = 0
        /\ Children(r[13]) = 0 /\ Children(r[15]) = 0
    BY <1>1, ChildrenWritten
  <2> QED BY <2>1, <2>2
<1>9. ASSUME NEW k \in 1 .. 16
      PROVE  /\ Fits(r[k], 17)
             /\ Children(r[k]) = IF k = 1 THEN 8 ELSE IF k = 3 THEN 1 ELSE IF k = 10 THEN 6 ELSE 0
  <2>1. CASE k <= 8
    <3>1. k = 1 \/ k = 2 \/ k = 3 \/ k = 4 \/ k = 5 \/ k = 6 \/ k = 7 \/ k = 8
      BY <2>1
    <3> QED BY <1>5, <1>7, <3>1
  <2>2. CASE ~(k <= 8)
    <3>1. k = 9 \/ k = 10 \/ k = 11 \/ k = 12 \/ k = 13 \/ k = 14 \/ k = 15 \/ k = 16
      BY <2>2
    <3> QED BY <1>6, <1>8, <3>1
  <2> QED BY <2>1, <2>2
<1> QED BY <1>1, <1>9 DEF r

(* What is written so far goes on as the response does.                    *)
LEMMA AuthDataShape ==
  ASSUME NEW flags \in Byte, NEW n, FourBytes(n), NEW d, d = AuthData(flags, n)
  PROVE  /\ d \in Seq(Byte) /\ Length(d) = 37 /\ d[33] = flags
         /\ d[34] = n \div 16777216 /\ d[35] = (n \div 65536) % 256
         /\ d[36] = (n \div 256) % 256 /\ d[37] = n % 256
<1>1. n \in Nat /\ n \div 16777216 \in Byte
  BY DEF FourBytes
<1>2. (n \div 65536) % 256 \in Byte /\ (n \div 256) % 256 \in Byte /\ n % 256 \in Byte
  BY <1>1, SMT DEF Byte
<1> DEFINE b1 == n \div 16777216
           b2 == (n \div 65536) % 256
           b3 == (n \div 256) % 256
           b4 == n % 256
           h == Fill(32)
           f == <<flags>>
           b == BigEndian(n)
<1>3. h \in Seq(Byte) /\ Length(h) = 32
  BY FillFits
<1>4. f \in Seq(Byte) /\ Length(f) = 1 /\ f[1] = flags
  BY DEF Length
<1>5. b = <<b1, b2, b3, b4>>
  BY SMT DEF BigEndian
<1>6. b1 \in Byte /\ b2 \in Byte /\ b3 \in Byte /\ b4 \in Byte
  BY <1>1, <1>2
<1> HIDE DEF b1, b2, b3, b4
<1>7. b \in Seq(Byte) /\ Length(b) = 4 /\ b[1] = b1 /\ b[2] = b2 /\ b[3] = b3 /\ b[4] = b4
  <2> HIDE DEF b
  <2> QED BY <1>5, <1>6 DEF Length
<1>8. d = Join(Join(h, f), b)
  BY DEF AuthData, Join
<1> HIDE DEF h, f, b
<1> DEFINE g == Join(h, f)
<1>g. g = Join(h, f)
  OBVIOUS
<1>10. d = Join(g, b)
  BY <1>8
<1> HIDE DEF g
<1>9. /\ g \in Seq(Byte) /\ Length(g) = Length(h) + Length(f)
      /\ \A i \in 1 .. Length(f) : g[Length(h) + i] = f[i]
  BY <1>g, <1>3, <1>4, Joined
<1>11. Length(g) = 33 /\ g[33] = flags
  <2>1. 1 \in 1 .. Length(f) /\ Length(h) + 1 = 33
    BY <1>3, <1>4
  <2> QED BY <1>3, <1>4, <1>9, <2>1
<1>12. /\ d \in Seq(Byte) /\ Length(d) = Length(g) + Length(b)
       /\ \A i \in 1 .. Length(g) : d[i] = g[i]
       /\ \A i \in 1 .. Length(b) : d[Length(g) + i] = b[i]
  <2>1. b \in Seq(Byte) /\ g \in Seq(Byte)
    BY <1>7, <1>9
  <2>2. /\ Join(g, b) \in Seq(Byte) /\ Length(Join(g, b)) = Length(g) + Length(b)
        /\ \A i \in 1 .. Length(g) : Join(g, b)[i] = g[i]
        /\ \A i \in 1 .. Length(b) : Join(g, b)[Length(g) + i] = b[i]
    BY <2>1, Joined
  <2> QED BY <1>10, <2>2, Zenon
<1>13. d[33] = flags /\ Length(d) = 37
  <2>1. 33 \in 1 .. Length(g) /\ Length(g) + Length(b) = 37
    BY <1>7, <1>11
  <2> QED BY <1>11, <1>12, <2>1
<1>14. d[34] = b1 /\ d[35] = b2 /\ d[36] = b3 /\ d[37] = b4
  <2>1. /\ 1 \in 1 .. Length(b) /\ 2 \in 1 .. Length(b) /\ 3 \in 1 .. Length(b) /\ 4 \in 1 .. Length(b)
        /\ Length(g) + 1 = 34 /\ Length(g) + 2 = 35 /\ Length(g) + 3 = 36 /\ Length(g) + 4 = 37
    BY <1>7, <1>11
  <2> QED BY <1>7, <1>12, <2>1
<1> QED BY <1>12, <1>13, <1>14 DEF b1, b2, b3, b4

LEMMA RegistrationStart ==
  ASSUME NEW d, d = AuthData(65, 0) \o Attested
  PROVE  d \in Seq(Byte) /\ Length(d) = 87 /\ RegistrationHead(d)
<1> DEFINE a == AuthData(65, 0)
           g == [k \in 1 .. 16 |-> 0]
           i == <<0, 32>>
           f == Fill(32)
<1>1. 65 \in Byte /\ FourBytes(0)
  BY SMT DEF Byte, FourBytes
<1>2. /\ a \in Seq(Byte) /\ Length(a) = 37 /\ a[33] = 65
      /\ a[34] = 0 \div 16777216 /\ a[35] = (0 \div 65536) % 256
      /\ a[36] = (0 \div 256) % 256 /\ a[37] = 0 % 256
  BY <1>1, AuthDataShape, SMT
<1>3. 0 \div 16777216 = 0 /\ (0 \div 65536) % 256 = 0 /\ (0 \div 256) % 256 = 0 /\ 0 % 256 = 0
  BY SMT
<1>4. a \in Seq(Byte) /\ Length(a) = 37 /\ a[33] = 65 /\ a[34] = 0 /\ a[35] = 0 /\ a[36] = 0 /\ a[37] = 0
  BY <1>2, <1>3, SMT
<1>5. g \in Seq(Byte) /\ Length(g) = 16
  BY DEF Byte, Length
<1>6. i \in Seq(Byte) /\ Length(i) = 2 /\ i[1] = 0 /\ i[2] = 32
  BY DEF Byte, Length
<1>7. f \in Seq(Byte) /\ Length(f) = 32
  BY FillFits
<1>8. d = Join(a, Join(Join(g, i), f))
  BY DEF Attested, AAGUID_LEN, CREDENTIAL_ID_LEN, Join
<1> HIDE DEF a, g, i, f
<1> DEFINE gi == Join(g, i)
           t == Join(gi, f)
<1>t. t = Join(gi, f) /\ gi = Join(g, i) /\ d = Join(a, t)
  BY <1>8
<1> HIDE DEF gi, t
<1>9. /\ gi \in Seq(Byte) /\ Length(gi) = Length(g) + Length(i)
      /\ \A k \in 1 .. Length(i) : gi[Length(g) + k] = i[k]
  <2>1. g \in Seq(Byte) /\ i \in Seq(Byte)
    BY <1>5, <1>6
  <2> QED BY <1>t, <2>1, Joined
<1>10. Length(gi) = 18 /\ gi[17] = 0 /\ gi[18] = 32
  <2>1. 1 \in 1 .. Length(i) /\ 2 \in 1 .. Length(i) /\ Length(g) + 1 = 17 /\ Length(g) + 2 = 18
    BY <1>5, <1>6
  <2> QED BY <1>5, <1>6, <1>9, <2>1
<1>11. /\ t \in Seq(Byte) /\ Length(t) = Length(gi) + Length(f)
       /\ \A k \in 1 .. Length(gi) : t[k] = gi[k]
  BY <1>t, <1>7, <1>9, Joined
<1>13. Length(t) = 50 /\ t[17] = 0 /\ t[18] = 32
  <2>1. 17 \in 1 .. Length(gi) /\ 18 \in 1 .. Length(gi) /\ Length(gi) + Length(f) = 50
    BY <1>7, <1>10
  <2> QED BY <1>10, <1>11, <2>1
<1>14. /\ d \in Seq(Byte) /\ Length(d) = Length(a) + Length(t)
       /\ \A k \in 1 .. Length(a) : d[k] = a[k]
       /\ \A k \in 1 .. Length(t) : d[Length(a) + k] = t[k]
  <2>1. a \in Seq(Byte) /\ t \in Seq(Byte)
    BY <1>4, <1>11
  <2>2. /\ Join(a, t) \in Seq(Byte) /\ Length(Join(a, t)) = Length(a) + Length(t)
        /\ \A k \in 1 .. Length(a) : Join(a, t)[k] = a[k]
        /\ \A k \in 1 .. Length(t) : Join(a, t)[Length(a) + k] = t[k]
    BY <2>1, Joined
  <2> QED BY <1>t, <2>2, Zenon
<1>15. d[33] = 65 /\ d[34] = 0 /\ d[35] = 0 /\ d[36] = 0 /\ d[37] = 0 /\ Length(d) = 87
  <2>1. \A k \in 33 .. 37 : k \in 1 .. Length(a)
    BY <1>4
  <2>2. \A k \in 33 .. 37 : d[k] = a[k]
    BY <1>14, <2>1
  <2>3. Length(a) + Length(t) = 87
    BY <1>4, <1>13
  <2>4. d[33] = a[33] /\ d[34] = a[34] /\ d[35] = a[35] /\ d[36] = a[36] /\ d[37] = a[37]
    <3>1. 33 \in 33 .. 37 /\ 34 \in 33 .. 37 /\ 35 \in 33 .. 37 /\ 36 \in 33 .. 37 /\ 37 \in 33 .. 37
      OBVIOUS
    <3> QED BY <2>2, <3>1, Zenon
  <2> QED BY <1>4, <1>14, <2>3, <2>4
<1>16. d[54] = 0 /\ d[55] = 32
  <2>1. 17 \in 1 .. Length(t) /\ 18 \in 1 .. Length(t) /\ Length(a) + 17 = 54 /\ Length(a) + 18 = 55
    BY <1>4, <1>13
  <2>2. d[Length(a) + 17] = t[17] /\ d[Length(a) + 18] = t[18]
    BY <1>14, <2>1
  <2> QED BY <1>13, <2>1, <2>2
<1> QED BY <1>14, <1>15, <1>16 DEF RegistrationHead

(* What the items of the response and the bytes before it add up to. *)
LEMMA ComposedItems ==
  ASSUME NEW m, Composed(m)
  PROVE  /\ Layout(m) /\ Count(m) \in Nat /\ Count(m) <= Length(response) /\ Length(response) \in Nat
         /\ Total(m) \in Nat /\ Total(m) <= 1024
         /\ KeyFrom(m) => Length(response) = 11 /\ Total(m) >= 87 /\ Total(m) <= 461
         /\ MakeFrom(m) => Length(response) = 7
         /\ GetFrom(m) => Length(response) = 17
         /\ InfoFrom(m) => Length(response) = 16
<1>1. Layout(m) /\ Count(m) <= Length(response)
  BY DEF Composed, Length
<1>2. Count(m) \in Nat /\ Total(m) \in Nat /\ Start(m, 1) <= Total(m)
  <2>1. Count(m) \in Nat /\ Total(m) \in Nat
    BY <1>1, Laid
  <2>2. 1 \in 1 .. Count(m) + 1
    BY <2>1
  <2> QED BY <1>1, <2>1, <2>2, Laid
<1>3. CASE KeyFrom(m)
  <2>1. Length(response) = 11
    BY <1>3, CoseKeyShape DEF KeyFrom
  <2>2. Total(m) >= 87 /\ Total(m) <= 87 + 34 * Count(m)
    BY <1>2, <1>3 DEF KeyFrom
  <2>3. ~MakeFrom(m) /\ ~GetFrom(m) /\ ~InfoFrom(m)
    BY <1>3 DEF KeyFrom, MakeFrom, GetFrom, InfoFrom
  <2> QED BY <1>1, <1>2, <2>1, <2>2, <2>3
<1>4. CASE MakeFrom(m)
  <2>1. Length(response) = 7
    <3>1. auth \in Seq(Byte) /\ Length(auth) <= 461 /\ response = MakeResponse(auth)
      <4>1. \A n \in 87 .. 461 : n <= 461
        OBVIOUS
      <4> QED BY <1>4, <4>1, Zenon DEF MakeFrom
    <3> QED BY <3>1, MakeResponseShape
  <2>2. Total(m) <= 1 + 9 * Count(m) + (IF Count(m) = 7 THEN 457 ELSE 0)
    BY <1>4 DEF MakeFrom
  <2>3. ~KeyFrom(m) /\ ~GetFrom(m) /\ ~InfoFrom(m)
    BY <1>4 DEF KeyFrom, MakeFrom, GetFrom, InfoFrom
  <2> QED BY <1>1, <1>2, <2>1, <2>2, <2>3
<1>5. CASE GetFrom(m)
  <2>1. Length(response) = 17
    <3>1. PICK user \in Users, count \in Counts, sig_len \in SigLengths :
            auth = AuthData(1, count) /\ response = GetResponse(user, auth, sig_len)
      BY <1>5 DEF GetFrom
    <3>2. FourBytes(count) /\ 1 \in Byte
      BY SizesAssumption DEF Byte
    <3>3. auth \in Seq(Byte) /\ Length(auth) = 37
      BY <3>1, <3>2, AuthDataShape
    <3> QED BY <3>1, <3>3, GetResponseShape
  <2>2. Total(m) <= IF Count(m) <= 8 THEN 1 + 34 * Count(m) ELSE 273 + 75 * (Count(m) - 8)
    BY <1>5 DEF GetFrom
  <2>3. ~KeyFrom(m) /\ ~MakeFrom(m) /\ ~InfoFrom(m)
    BY <1>5 DEF KeyFrom, MakeFrom, GetFrom, InfoFrom
  <2> QED BY <1>1, <1>2, <2>1, <2>2, <2>3
<1>6. CASE InfoFrom(m)
  <2>1. Length(response) = 16
    BY <1>6, InfoResponseShape DEF InfoFrom
  <2>2. Total(m) <= 1 + 17 * Count(m)
    BY <1>6 DEF InfoFrom
  <2>3. ~KeyFrom(m) /\ ~MakeFrom(m) /\ ~GetFrom(m)
    BY <1>6 DEF KeyFrom, MakeFrom, GetFrom, InfoFrom
  <2> QED BY <1>1, <1>2, <2>1, <2>2, <2>3
<1> QED BY <1>3, <1>4, <1>5, <1>6 DEF Composed

(* The next item is written. *)
LEMMA ItemsFit ==
  ASSUME NEW m, Composed(m), NEW k \in 1 .. Length(response)
  PROVE  /\ Sound(response[k]) /\ Size(response[k]) \in Nat
         /\ KeyFrom(m) => Size(response[k]) <= 34
         /\ MakeFrom(m) => Size(response[k]) <= IF k = 7 THEN 464 ELSE 9
         /\ GetFrom(m) => Size(response[k]) <= IF k <= 8 THEN 34 ELSE 75
         /\ InfoFrom(m) => Size(response[k]) <= 17
<1>1. /\ KeyFrom(m) => Length(response) = 11
      /\ MakeFrom(m) => Length(response) = 7
      /\ GetFrom(m) => Length(response) = 17
      /\ InfoFrom(m) => Length(response) = 16
  BY ComposedItems
<1>2. ASSUME KeyFrom(m)
      PROVE  Fits(response[k], 34)
  BY <1>1, <1>2, CoseKeyShape DEF KeyFrom
<1>3. ASSUME MakeFrom(m)
      PROVE  Fits(response[k], IF k = 7 THEN 464 ELSE 9)
  <2>1. \A n \in 87 .. 461 : n <= 461
    OBVIOUS
  <2>2. auth \in Seq(Byte) /\ Length(auth) <= 461 /\ response = MakeResponse(auth)
    BY <1>3, <2>1, Zenon DEF MakeFrom
  <2>3. k \in 1 .. 7
    BY <1>1, <1>3
  <2> QED BY <2>2, <2>3, MakeResponseShape
<1>4. ASSUME GetFrom(m)
      PROVE  Fits(response[k], IF k <= 8 THEN 34 ELSE 75)
  <2>1. PICK user \in Users, count \in Counts, sig_len \in SigLengths :
          auth = AuthData(1, count) /\ response = GetResponse(user, auth, sig_len)
    BY <1>4 DEF GetFrom
  <2>2. FourBytes(count) /\ 1 \in Byte
    BY SizesAssumption DEF Byte
  <2>3. auth \in Seq(Byte) /\ Length(auth) = 37
    BY <2>1, <2>2, AuthDataShape
  <2>4. k \in 1 .. 17 /\ Length(auth) <= 72
    BY <1>1, <1>4, <2>3
  <2> QED BY <2>1, <2>3, <2>4, GetResponseShape
<1>5. ASSUME InfoFrom(m)
      PROVE  Fits(response[k], 17)
  BY <1>1, <1>5, InfoResponseShape DEF InfoFrom
<1>6. Sound(response[k])
  BY <1>2, <1>3, <1>4, <1>5 DEF Fits, Composed
<1> QED BY <1>2, <1>3, <1>4, <1>5, <1>6, SizeShape DEF Fits

LEMMA WrittenOn ==
  ASSUME NEW m, Composed(m), Count(m) < Length(response), NEW x, x = response[Count(m) + 1],
         NEW w, w = Written(m, x)
  PROVE  Composed(w)
<1>1. /\ Layout(m) /\ Count(m) \in Nat /\ Length(response) \in Nat /\ Total(m) \in Nat
      /\ KeyFrom(m) => Length(response) = 11 /\ Total(m) >= 87
      /\ MakeFrom(m) => Length(response) = 7
      /\ GetFrom(m) => Length(response) = 17
  BY ComposedItems
<1>2. Count(m) + 1 \in 1 .. Length(response)
  BY <1>1
<1>3. /\ Sound(x) /\ Size(x) \in Nat
      /\ KeyFrom(m) => Size(x) <= 34
      /\ MakeFrom(m) => Size(x) <= IF Count(m) + 1 = 7 THEN 464 ELSE 9
      /\ GetFrom(m) => Size(x) <= IF Count(m) + 1 <= 8 THEN 34 ELSE 75
      /\ InfoFrom(m) => Size(x) <= 17
  BY <1>2, ItemsFit
<1>4. Layout(w)
  BY <1>1, <1>3, WrittenLaid
<1>5. /\ Count(w) = Count(m) + 1 /\ Total(w) = Total(m) + Size(x)
      /\ \A k \in 1 .. Count(m) : ItemAt(w, k) = ItemAt(m, k)
      /\ ItemAt(w, Count(m) + 1) = x
      /\ \A k \in 1 .. Count(m) + 1 : Start(w, k) = Start(m, k)
      /\ \A i \in 1 .. Total(m) : w.bytes[i] = m.bytes[i]
  BY <1>1, <1>3, WrittenParts
<1>6. Count(w) <= Length(response)
  BY <1>1, <1>5
<1>7. \A k \in 1 .. Count(w) : ItemAt(w, k) = response[k]
  <2> TAKE k \in 1 .. Count(w)
  <2>1. CASE k = Count(m) + 1
    BY <1>5, <2>1
  <2>2. CASE k # Count(m) + 1
    <3>1. k \in 1 .. Count(m)
      BY <1>1, <1>5, <2>2
    <3> QED BY <1>5, <3>1 DEF Composed
  <2> QED BY <2>1, <2>2
<1>8. Start(w, 1) = Start(m, 1)
  <2>1. 1 \in 1 .. Count(m) + 1
    BY <1>1
  <2> QED BY <1>5, <2>1
<1>9. ASSUME KeyFrom(m)
      PROVE  KeyFrom(w)
  <2>1. RegistrationHead(w.bytes)
    <3>1. \A i \in 33 .. 55 : i \in 1 .. Total(m)
      BY <1>1, <1>9
    <3>2. \A i \in 33 .. 55 : w.bytes[i] = m.bytes[i]
      BY <1>5, <3>1
    <3>3. \A i \in {33, 34, 35, 36, 37, 54, 55} : i \in 33 .. 55
      OBVIOUS
    <3>4. \A i \in {33, 34, 35, 36, 37, 54, 55} : w.bytes[i] = m.bytes[i]
      BY <3>2, <3>3
    <3>5. RegistrationHead(m.bytes)
      BY <1>9 DEF KeyFrom
    <3> QED BY <3>4, <3>5, Zenon DEF RegistrationHead
  <2>2. Total(w) <= 87 + 34 * Count(w)
    <3>1. Total(m) <= 87 + 34 * Count(m)
      BY <1>9 DEF KeyFrom
    <3> QED BY <1>1, <1>3, <1>5, <1>9, <3>1
  <2> QED BY <1>8, <1>9, <2>1, <2>2 DEF KeyFrom
<1>10. ASSUME MakeFrom(m)
       PROVE  MakeFrom(w)
  <2>1. Total(w) <= 1 + 9 * Count(w) + (IF Count(w) = 7 THEN 457 ELSE 0)
    <3>1. Total(m) <= 1 + 9 * Count(m) + (IF Count(m) = 7 THEN 457 ELSE 0)
      BY <1>10 DEF MakeFrom
    <3> QED BY <1>1, <1>3, <1>5, <1>10, <3>1
  <2> QED BY <1>8, <1>10, <2>1, Zenon DEF MakeFrom
<1>11. ASSUME GetFrom(m)
       PROVE  GetFrom(w)
  <2>1. Total(w) <= IF Count(w) <= 8 THEN 1 + 34 * Count(w) ELSE 273 + 75 * (Count(w) - 8)
    <3>1. Total(m) <= IF Count(m) <= 8 THEN 1 + 34 * Count(m) ELSE 273 + 75 * (Count(m) - 8)
      BY <1>11 DEF GetFrom
    <3> QED BY <1>1, <1>3, <1>5, <1>11, <3>1
  <2> QED BY <1>8, <1>11, <2>1, Zenon DEF GetFrom
<1>12. ASSUME InfoFrom(m)
       PROVE  InfoFrom(w)
  <2>1. Total(w) <= 1 + 17 * Count(w)
    <3>1. Total(m) <= 1 + 17 * Count(m)
      BY <1>12 DEF InfoFrom
    <3> QED BY <1>1, <1>3, <1>5, <1>12, <3>1
  <2> QED BY <1>8, <1>12, <2>1, Zenon DEF InfoFrom
<1> QED BY <1>4, <1>6, <1>7, <1>9, <1>10, <1>11, <1>12 DEF Composed, Length

(* A response that is written to its end is one item and all inside of it. *)
LEMMA ResponseComplete ==
  ASSUME NEW m, Composed(m), Count(m) = Length(response)
  PROVE  /\ WellFormed(m)
         /\ MakeFrom(m) => 7 \in Under(m, {1}, Text(AuthDataName)) /\ ItemAt(m, 7) = Bytes(auth)
         /\ GetFrom(m) => 9 \in Under(m, {1}, Uint(2)) /\ ItemAt(m, 9) = Bytes(auth)
<1>1. /\ Layout(m) /\ Count(m) \in Nat
      /\ KeyFrom(m) => Count(m) = 11
      /\ MakeFrom(m) => Count(m) = 7
      /\ GetFrom(m) => Count(m) = 17
      /\ InfoFrom(m) => Count(m) = 16
  BY ComposedItems
<1>2. ASSUME NEW k \in 1 .. Count(m)
      PROVE  /\ ItemAt(m, k) = response[k] /\ Owed(m, k) \in Int
             /\ Owed(m, k + 1) = Owed(m, k) - 1 + Children(response[k])
  BY <1>1, LaidItem DEF Composed
<1>3. Owed(m, 1) = 1
  BY <1>1, Laid
<1>4. ASSUME Count(m) >= 1, Owed(m, Count(m) + 1) = 0, \A k \in 1 .. Count(m) : Owed(m, k) >= 1
      PROVE  WellFormed(m)
  <2>1. Len(m.items) >= 1 /\ m.owed[Len(m.owed)] = 0 /\ \A k \in 1 .. Len(m.items) : m.owed[k] >= 1
    BY <1>1, <1>4 DEF Count, Owed, Layout
  <2> QED BY <1>1, <2>1 DEF WellFormed, Complete
<1>5. CASE KeyFrom(m)
  <2>1. /\ Count(m) = 11
        /\ \A k \in 1 .. 11 : Owed(m, k + 1) = Owed(m, k) - 1 + IF k = 1 THEN 10 ELSE 0
    BY <1>1, <1>2, <1>5, CoseKeyShape DEF KeyFrom
  <2>2. /\ Owed(m, 2) = 10 /\ Owed(m, 3) = 9 /\ Owed(m, 4) = 8 /\ Owed(m, 5) = 7 /\ Owed(m, 6) = 6
        /\ Owed(m, 7) = 5 /\ Owed(m, 8) = 4 /\ Owed(m, 9) = 3 /\ Owed(m, 10) = 2 /\ Owed(m, 11) = 1
        /\ Owed(m, 12) = 0
    BY <1>3, <2>1
  <2>3. WellFormed(m)
    <3>1. \A k \in 1 .. 11 : \/ k = 1 \/ k = 2 \/ k = 3 \/ k = 4 \/ k = 5 \/ k = 6 \/ k = 7 \/ k = 8
                             \/ k = 9 \/ k = 10 \/ k = 11
      OBVIOUS
    <3>2. \A k \in 1 .. Count(m) : Owed(m, k) >= 1
      BY <1>3, <2>1, <2>2, <3>1
    <3> QED BY <1>4, <2>1, <2>2, <3>2
  <2>4. auth = << >> /\ cmd = "make"
    BY <1>5 DEF KeyFrom
  <2>5. ~MakeFrom(m) /\ ~GetFrom(m)
    BY <2>4 DEF MakeFrom, GetFrom, Length
  <2> QED BY <2>3, <2>5
<1>6. CASE MakeFrom(m)
  <2>1. /\ Count(m) = 7 /\ response[6] = Text(AuthDataName) /\ response[7] = Bytes(auth)
        /\ \A k \in 1 .. 7 : Owed(m, k + 1) = Owed(m, k) - 1 + IF k = 1 THEN 6 ELSE 0
    <3>1. \A n \in 87 .. 461 : n <= 461
      OBVIOUS
    <3>2. auth \in Seq(Byte) /\ Length(auth) <= 461 /\ response = MakeResponse(auth)
      BY <1>6, <3>1, Zenon DEF MakeFrom
    <3>3. /\ response[6] = Text(AuthDataName) /\ response[7] = Bytes(auth)
          /\ \A k \in 1 .. 7 : Children(response[k]) = IF k = 1 THEN 6 ELSE 0
      BY <3>2, MakeResponseShape
    <3> QED BY <1>1, <1>2, <1>6, <3>3
  <2>2. /\ Owed(m, 2) = 6 /\ Owed(m, 3) = 5 /\ Owed(m, 4) = 4 /\ Owed(m, 5) = 3 /\ Owed(m, 6) = 2
        /\ Owed(m, 7) = 1 /\ Owed(m, 8) = 0
    BY <1>3, <2>1
  <2>3. WellFormed(m)
    BY <1>3, <1>4, <2>1, <2>2
  <2>4. ItemAt(m, 6) = Text(AuthDataName) /\ ItemAt(m, 7) = Bytes(auth)
    BY <1>2, <2>1
  <2>5. 6 \in Keys(m, 1)
    <3>1. \A j \in 1 + 1 .. 6 - 1 : j = 2 \/ j = 3 \/ j = 4 \/ j = 5
      OBVIOUS
    <3>2. \A j \in 1 + 1 .. 6 - 1 : Owed(m, j) > Owed(m, 6)
      BY <2>2, <3>1
    <3>3. /\ 6 \in 1 + 1 .. Count(m) /\ Owed(m, 6) >= Owed(m, 1)
          /\ (Owed(m, 6) - Owed(m, 1) + 1) % 2 = 0
      BY <1>3, <2>1, <2>2
    <3> QED BY <3>2, <3>3, InKeys, InChildren
  <2>6. 6 + 1 \in Under(m, {1}, ItemAt(m, 6))
    BY <2>5, IntoUnder
  <2>7. 7 \in Under(m, {1}, Text(AuthDataName))
    BY <2>4, <2>6
  <2> QED BY <1>6, <2>3, <2>4, <2>7 DEF MakeFrom, GetFrom
<1>7. CASE GetFrom(m)
  <2>1. /\ Count(m) = 17 /\ response[8] = Uint(2) /\ response[9] = Bytes(auth)
        /\ \A k \in 1 .. 17 : Owed(m, k + 1) = Owed(m, k) - 1
             + IF k = 1 THEN 8 ELSE IF k = 3 \/ k = 13 THEN 4 ELSE 0
    <3>1. PICK user \in Users, count \in Counts, sig_len \in SigLengths :
            auth = AuthData(1, count) /\ response = GetResponse(user, auth, sig_len)
      BY <1>7 DEF GetFrom
    <3>2. FourBytes(count) /\ 1 \in Byte
      BY SizesAssumption DEF Byte
    <3>3. auth \in Seq(Byte) /\ Length(auth) = 37
      BY <3>1, <3>2, AuthDataShape
    <3>4. Length(auth) <= 72
      BY <3>3
    <3>5. /\ response[8] = Uint(2) /\ response[9] = Bytes(auth)
          /\ \A k \in 1 .. 17 : Children(response[k]) = IF k = 1 THEN 8 ELSE IF k = 3 \/ k = 13 THEN 4 ELSE 0
      BY <3>1, <3>3, <3>4, GetResponseShape
    <3> QED BY <1>1, <1>2, <1>7, <3>5
  <2>2. /\ Owed(m, 2) = 8 /\ Owed(m, 3) = 7 /\ Owed(m, 4) = 10 /\ Owed(m, 5) = 9 /\ Owed(m, 6) = 8
        /\ Owed(m, 7) = 7 /\ Owed(m, 8) = 6 /\ Owed(m, 9) = 5 /\ Owed(m, 10) = 4
    BY <1>3, <2>1
  <2>3. /\ Owed(m, 11) = 3 /\ Owed(m, 12) = 2 /\ Owed(m, 13) = 1 /\ Owed(m, 14) = 4
        /\ Owed(m, 15) = 3 /\ Owed(m, 16) = 2 /\ Owed(m, 17) = 1 /\ Owed(m, 18) = 0
    BY <2>1, <2>2
  <2>4. WellFormed(m)
    <3>1. \A k \in 1 .. 17 : \/ k = 1 \/ k = 2 \/ k = 3 \/ k = 4 \/ k = 5 \/ k = 6 \/ k = 7 \/ k = 8 \/ k = 9
                             \/ k = 10 \/ k = 11 \/ k = 12 \/ k = 13 \/ k = 14 \/ k = 15 \/ k = 16 \/ k = 17
      OBVIOUS
    <3>2. \A k \in 1 .. Count(m) : Owed(m, k) >= 1
      BY <1>3, <2>1, <2>2, <2>3, <3>1
    <3> QED BY <1>4, <2>1, <2>3, <3>2
  <2>5. ItemAt(m, 8) = Uint(2) /\ ItemAt(m, 9) = Bytes(auth)
    BY <1>2, <2>1
  <2>6. 8 \in Keys(m, 1)
    <3>1. \A j \in 1 + 1 .. 8 - 1 : j = 2 \/ j = 3 \/ j = 4 \/ j = 5 \/ j = 6 \/ j = 7
      OBVIOUS
    <3>2. \A j \in 1 + 1 .. 8 - 1 : Owed(m, j) > Owed(m, 8)
      BY <2>2, <3>1
    <3>3. /\ 8 \in 1 + 1 .. Count(m) /\ Owed(m, 8) >= Owed(m, 1)
          /\ (Owed(m, 8) - Owed(m, 1) + 1) % 2 = 0
      BY <1>3, <2>1, <2>2
    <3> QED BY <3>2, <3>3, InKeys, InChildren
  <2>7. 8 + 1 \in Under(m, {1}, ItemAt(m, 8))
    BY <2>6, IntoUnder
  <2>8. 9 \in Under(m, {1}, Uint(2))
    BY <2>5, <2>7
  <2> QED BY <1>7, <2>4, <2>5, <2>8 DEF MakeFrom, GetFrom
<1>8. CASE InfoFrom(m)
  <2>1. /\ Count(m) = 16
        /\ \A k \in 1 .. 16 : Owed(m, k + 1) = Owed(m, k) - 1
             + IF k = 1 THEN 8 ELSE IF k = 3 THEN 1 ELSE IF k = 10 THEN 6 ELSE 0
    BY <1>1, <1>2, <1>8, InfoResponseShape DEF InfoFrom
  <2>2. /\ Owed(m, 2) = 8 /\ Owed(m, 3) = 7 /\ Owed(m, 4) = 7 /\ Owed(m, 5) = 6 /\ Owed(m, 6) = 5
        /\ Owed(m, 7) = 4 /\ Owed(m, 8) = 3 /\ Owed(m, 9) = 2 /\ Owed(m, 10) = 1
    BY <1>3, <2>1
  <2>3. /\ Owed(m, 11) = 6 /\ Owed(m, 12) = 5 /\ Owed(m, 13) = 4 /\ Owed(m, 14) = 3
        /\ Owed(m, 15) = 2 /\ Owed(m, 16) = 1 /\ Owed(m, 17) = 0
    BY <2>1, <2>2
  <2>4. WellFormed(m)
    <3>1. \A k \in 1 .. 16 : \/ k = 1 \/ k = 2 \/ k = 3 \/ k = 4 \/ k = 5 \/ k = 6 \/ k = 7 \/ k = 8
                             \/ k = 9 \/ k = 10 \/ k = 11 \/ k = 12 \/ k = 13 \/ k = 14 \/ k = 15 \/ k = 16
      OBVIOUS
    <3>2. \A k \in 1 .. Count(m) : Owed(m, k) >= 1
      BY <1>3, <2>1, <2>2, <2>3, <3>1
    <3> QED BY <1>4, <2>1, <2>3, <3>2
  <2> QED BY <1>8, <2>4 DEF InfoFrom, MakeFrom, GetFrom
<1> QED BY <1>5, <1>6, <1>7, <1>8 DEF Composed

-----------------------------------------------------------------------------
(* The writer and its reader keep the invariant. *)
LEMMA NothingInNoMessage == Layout(NoMessage) /\ NoMessage.bytes = << >> /\ Total(NoMessage) = 0
<1>1. << >> \in Seq(Byte) /\ Length(<< >>) = 0
  BY DEF Length
<1> QED BY <1>1, StartedLaid DEF NoMessage

LEMMA WritesKeeps ==
  ASSUME CborIInv, NEW data, NEW before \in Seq(Byte), NEW items, Writes(data, before, items),
         Length(data) \in 0 .. 512, Length(before) \in 0 .. 1024, Length(items) \in Nat,
         (KeyFrom(out) \/ MakeFrom(out) \/ GetFrom(out) \/ InfoFrom(out))'
  PROVE  CborIInv'
<1>1. /\ status' = "writing" /\ auth' = data /\ out' = Started(before) /\ response' = items
      /\ buf' = NoMessage /\ pos' = 0 /\ got' = [f \in Fields |-> Null]
      /\ left' = 0 /\ elements' = 0 /\ pairs' = 0 /\ pending' = 0 /\ param' = 0 /\ cmd' = cmd
  BY DEF Writes, NothingRead
<1>2. Layout(out') /\ Count(out') = 0 /\ Total(out') = Length(before)
  BY <1>1, StartedLaid
<1>3. CborTypeOK'
  <2>1. pos' \in 0 .. Len(buf'.bytes)
    <3>1. Len(buf'.bytes) = 0
      BY <1>1, NothingInNoMessage DEF Total
    <3> QED BY <1>1, <3>1
  <2>2. got' \in [Fields -> [at : Nat, len : Nat, end : 0 .. Len(buf'.bytes)]]
    <3>1. 0 \in 0 .. Len(buf'.bytes)
      BY <1>1, <2>1
    <3> QED BY <1>1, <3>1 DEF Null
  <2>3. Len(auth') \in 0 .. AUTH_BUF /\ Len(out'.bytes) \in 0 .. OUT_BUF
    <3>1. auth' = data /\ Total(out') = Length(before)
      BY <1>1, <1>2, Zenon
    <3>2. Length(auth') \in 0 .. 512 /\ Total(out') \in 0 .. 1024
      BY <3>1
    <3> QED BY <3>2, Zenon DEF Length, Total, AUTH_BUF, OUT_BUF
  <2>4. 0 \in 0 .. 31 /\ 0 \in Nat /\ 0 \in Byte
    BY DEF Byte
  <2> QED BY <1>1, <2>1, <2>2, <2>3, <2>4 DEF CborIInv, CborTypeOK
<1>4. ParserInv'
  BY <1>1 DEF ParserInv
<1>5. Composed(out)'
  <2>1. Count(out') <= Len(response')
    <3>1. \A n \in Nat : 0 <= n
      OBVIOUS
    <3>2. Count(out') <= Length(response')
      BY <1>1, <1>2, <3>1, Zenon
    <3> QED BY <3>2, Zenon DEF Length
  <2>2. \A k \in 1 .. Count(out') : FALSE
    BY <1>2
  <2> QED BY <1>2, <2>1, <2>2 DEF Composed
<1>6. WriterInv'
  BY <1>1, <1>5 DEF WriterInv, NothingGot
<1> QED BY <1>3, <1>4, <1>6 DEF CborIInv

LEMMA StatusByte == <<OK>> \in Seq(Byte) /\ Length(<<OK>>) = 1
BY DEF OK, Byte, Length

LEMMA BuildAuthDataKeeps == CborIInv /\ BuildAuthData => CborIInv'
<1> SUFFICES ASSUME CborIInv, BuildAuthData
             PROVE  CborIInv'
  OBVIOUS
<1> DEFINE before == AuthData(65, 0) \o Attested
<1>1. cmd = "make" /\ Writes(<< >>, before, CoseKey)
  BY DEF BuildAuthData
<1>2. before \in Seq(Byte) /\ Length(before) = 87 /\ RegistrationHead(before)
  BY RegistrationStart
<1> HIDE DEF before
<1>3. cmd' = "make" /\ auth' = << >> /\ response' = CoseKey /\ out' = Started(before)
  BY <1>1 DEF Writes
<1>4. Count(out') = 0 /\ Start(out', 1) = 87 /\ Total(out') = 87 /\ out'.bytes = before
  BY <1>2, <1>3, StartedLaid
<1>5. KeyFrom(out)'
  <2>1. Total(out') <= 87 + 34 * Count(out')
    BY <1>4
  <2> QED BY <1>2, <1>3, <1>4, <2>1 DEF KeyFrom
<1>6. Length(<< >>) \in 0 .. 512 /\ Length(before) \in 0 .. 1024 /\ Length(CoseKey) \in Nat
  <2>1. Length(<< >>) = 0
    BY DEF Length
  <2> QED BY <1>2, <2>1, CoseKeyShape
<1> QED BY <1>1, <1>2, <1>5, <1>6, WritesKeeps

LEMMA InReader ==
  ASSUME CborIInv, status = "reading"
  PROVE  /\ Composed(out) /\ Count(out) = Length(response) /\ buf = out /\ WellFormed(buf) /\ Layout(buf)
         /\ Count(buf) \in Nat /\ pending \in Nat
         /\ \E k \in 1 .. Count(buf) + 1 : pos = Start(buf, k) /\ Owed(buf, k) = pending
<1>1. Composed(out) /\ Count(out) = Length(response) /\ buf = out
  BY DEF CborIInv, WriterInv, Length
<1>2. WellFormed(buf)
  BY <1>1, ResponseComplete
<1> QED BY <1>1, <1>2, Whole DEF CborIInv, WriterInv, CborTypeOK

LEMMA AnswerMakeKeeps == CborIInv /\ AnswerMake => CborIInv'
<1> SUFFICES ASSUME CborIInv, AnswerMake
             PROVE  CborIInv'
  OBVIOUS
<1> DEFINE data == buf.bytes
<1>1. /\ status = "reading" /\ cmd = "make" /\ auth = << >>
      /\ Writes(data, <<OK>>, MakeResponse(data))
  BY DEF AnswerMake
<1>2. Composed(out) /\ buf = out /\ Layout(buf)
  BY <1>1, InReader
<1>3. KeyFrom(out)
  <2>1. ~MakeFrom(out)
    <3>1. Length(<< >>) = 0 /\ ~(0 \in 87 .. 461)
      BY DEF Length
    <3> QED BY <1>1, <3>1, Zenon DEF MakeFrom
  <2>2. ~GetFrom(out) /\ ~InfoFrom(out)
    BY <1>1 DEF GetFrom, InfoFrom
  <2> QED BY <1>2, <2>1, <2>2 DEF Composed
<1>4. /\ data \in Seq(Byte) /\ Length(data) \in 87 .. 461 /\ RegistrationHead(data)
  <2>1. Total(out) \in Nat /\ Total(out) >= 87 /\ Total(out) <= 461
    BY <1>2, <1>3, ComposedItems
  <2>2. Length(data) = Total(out)
    BY <1>2 DEF Length, Total
  <2>3. RegistrationHead(data)
    BY <1>2, <1>3, Zenon DEF KeyFrom
  <2>4. data \in Seq(Byte)
    BY <1>2, Laid
  <2>5. Total(out) \in 87 .. 461
    BY <2>1
  <2> QED BY <2>2, <2>3, <2>4, <2>5, Zenon
<1> HIDE DEF data
<1>5. cmd' = "make" /\ auth' = data /\ response' = MakeResponse(data) /\ out' = Started(<<OK>>)
  BY <1>1 DEF Writes
<1>6. Count(out') = 0 /\ Start(out', 1) = 1 /\ Total(out') = 1
  BY <1>5, StatusByte, StartedLaid
<1>7. MakeFrom(out)'
  <2>1. Total(out') <= 1 + 9 * Count(out') + (IF Count(out') = 7 THEN 457 ELSE 0)
    BY <1>6
  <2> QED BY <1>4, <1>5, <1>6, <2>1, Zenon DEF MakeFrom
<1>8. Length(data) \in 0 .. 512 /\ Length(<<OK>>) \in 0 .. 1024 /\ Length(MakeResponse(data)) \in Nat
  <2>1. Length(data) <= 461 /\ Length(data) \in 0 .. 512
    <3>1. Length(data) \in 87 .. 461
      BY <1>4, Zenon
    <3> QED BY <3>1
  <2>2. Length(MakeResponse(data)) = 7
    BY <1>4, <2>1, MakeResponseShape
  <2> QED BY <2>1, <2>2, StatusByte
<1> QED BY <1>1, <1>7, <1>8, StatusByte, WritesKeeps

LEMMA AnswerGetKeeps == CborIInv /\ AnswerGet => CborIInv'
<1> SUFFICES ASSUME CborIInv, AnswerGet
             PROVE  CborIInv'
  OBVIOUS
<1>1. cmd = "get" /\ \E user \in Users, count \in Counts, sig_len \in SigLengths :
        /\ Writes(AuthData(1, count), <<OK>>, GetResponse(user, AuthData(1, count), sig_len))
        /\ signed' = count
  BY DEF AnswerGet
<1>2. PICK user \in Users, count \in Counts, sig_len \in SigLengths :
        /\ Writes(AuthData(1, count), <<OK>>, GetResponse(user, AuthData(1, count), sig_len))
        /\ signed' = count
  BY <1>1
<1> DEFINE data == AuthData(1, count)
           items == GetResponse(user, data, sig_len)
<1>3. data \in Seq(Byte) /\ Length(data) = 37
  <2>1. FourBytes(count) /\ 1 \in Byte
    BY SizesAssumption DEF Byte
  <2> QED BY <2>1, AuthDataShape
<1>4. /\ cmd' = "get" /\ signed' = count
      /\ auth' = data /\ response' = items /\ out' = Started(<<OK>>)
  BY <1>1, <1>2 DEF Writes
<1>5. Count(out') = 0 /\ Start(out', 1) = 1 /\ Total(out') = 1
  BY <1>4, StatusByte, StartedLaid
<1>6. GetFrom(out)'
  <2>1. Total(out') <= IF Count(out') <= 8 THEN 1 + 34 * Count(out') ELSE 273 + 75 * (Count(out') - 8)
    BY <1>5
  <2> QED BY <1>4, <1>5, <2>1, Zenon DEF GetFrom
<1>7. Length(data) \in 0 .. 512 /\ Length(<<OK>>) \in 0 .. 1024 /\ Length(items) \in Nat
  <2>1. Length(data) <= 72
    BY <1>3
  <2>2. Length(items) = 17
    BY <1>3, <2>1, GetResponseShape
  <2> HIDE DEF data, items
  <2> QED BY <1>3, <2>2, StatusByte
<1> HIDE DEF data, items
<1>8. Writes(data, <<OK>>, items)
  BY <1>2 DEF data, items
<1> QED BY <1>6, <1>7, <1>8, StatusByte, WritesKeeps

LEMMA AnswerInfoKeeps == CborIInv /\ AnswerInfo => CborIInv'
<1> SUFFICES ASSUME CborIInv, AnswerInfo
             PROVE  CborIInv'
  OBVIOUS
<1>1. cmd = "info" /\ Writes(<< >>, <<OK>>, InfoResponse)
  BY DEF AnswerInfo
<1>2. cmd' = "info" /\ auth' = << >> /\ response' = InfoResponse /\ out' = Started(<<OK>>)
  BY <1>1 DEF Writes
<1>3. Count(out') = 0 /\ Start(out', 1) = 1 /\ Total(out') = 1
  BY <1>2, StatusByte, StartedLaid
<1>4. InfoFrom(out)'
  <2>1. Total(out') <= 1 + 17 * Count(out')
    BY <1>3
  <2> QED BY <1>2, <1>3, <2>1, Zenon DEF InfoFrom
<1>5. Length(<< >>) \in 0 .. 512 /\ Length(<<OK>>) \in 0 .. 1024 /\ Length(InfoResponse) \in Nat
  <2>1. Length(<< >>) = 0
    BY DEF Length
  <2> QED BY <2>1, StatusByte, InfoResponseShape
<1> QED BY <1>1, <1>4, <1>5, StatusByte, WritesKeeps

LEMMA WriteKeeps == CborIInv /\ Write => CborIInv'
<1> SUFFICES ASSUME CborIInv, Write
             PROVE  CborIInv'
  OBVIOUS
<1> DEFINE x == response[Count(out) + 1]
           w == Written(out, x)
<1>1. /\ status = "writing" /\ Count(out) < Length(response) /\ out' = w
      /\ UNCHANGED <<cmd, buf, pos, readVars, got, status, auth, signed, response>>
  BY DEF Write, Count, Length
<1>2. Composed(out)
  BY <1>1 DEF CborIInv, WriterInv
<1>3. Composed(w)
  BY <1>1, <1>2, WrittenOn
<1> HIDE DEF x, w
<1>4. Total(w) \in 0 .. 1024
  BY <1>3, ComposedItems
<1>5. Composed(out)'
  BY <1>1, <1>3, Zenon DEF Composed, KeyFrom, MakeFrom, GetFrom, InfoFrom
<1>6. CborTypeOK'
  <2>1. Len(out'.bytes) \in 0 .. OUT_BUF
    BY <1>1, <1>4 DEF Total, OUT_BUF
  <2> QED BY <1>1, <2>1 DEF CborIInv, CborTypeOK, readVars
<1>7. ParserInv'
  BY <1>1 DEF ParserInv
<1>8. WriterInv'
  BY <1>1, <1>5 DEF CborIInv, WriterInv, NothingGot, readVars
<1> QED BY <1>6, <1>7, <1>8 DEF CborIInv

LEMMA ReadBackKeeps == CborIInv /\ ReadBack => CborIInv'
<1> SUFFICES ASSUME CborIInv, ReadBack
             PROVE  CborIInv'
  OBVIOUS
<1>1. /\ status = "writing" /\ Count(out) = Len(response)
      /\ status' = "reading" /\ buf' = out /\ pos' = Start(out, 1) /\ pending' = 1
      /\ UNCHANGED <<cmd, left, elements, pairs, param, got, writeVars>>
  BY DEF ReadBack, Count, Start
<1>2. Composed(out) /\ NothingGot /\ left = 0 /\ elements = 0 /\ pairs = 0 /\ param = 0
  BY <1>1 DEF CborIInv, WriterInv
<1>3. Layout(out) /\ Count(out) \in Nat /\ Total(out) \in Nat
  BY <1>2, ComposedItems
<1>4. 1 \in 1 .. Count(out) + 1 /\ Owed(out, 1) = 1 /\ pos' \in 0 .. Total(out)
  <2>1. 1 \in 1 .. Count(out) + 1
    BY <1>3
  <2>2. Start(out, 1) \in Nat /\ Start(out, 1) <= Total(out) /\ Owed(out, 1) = 1
    BY <1>3, <2>1, Laid
  <2> QED BY <1>1, <1>3, <2>1, <2>2
<1>5. Composed(out)'
  BY <1>1, <1>2, Zenon DEF Composed, KeyFrom, MakeFrom, GetFrom, InfoFrom, writeVars
<1>6. CborTypeOK'
  <2>1. pos' \in 0 .. Len(buf'.bytes)
    BY <1>1, <1>4 DEF Total
  <2>2. got' \in [Fields -> [at : Nat, len : Nat, end : 0 .. Len(buf'.bytes)]]
    <3>1. 0 \in 0 .. Len(buf'.bytes)
      BY <1>1, <1>3 DEF Total
    <3> QED BY <1>1, <1>2, <3>1 DEF NothingGot, Null
  <2> QED BY <1>1, <2>1, <2>2 DEF CborIInv, CborTypeOK, writeVars
<1>7. ParserInv'
  BY <1>1 DEF ParserInv
<1>8. WriterInv'
  BY <1>1, <1>2, <1>4, <1>5 DEF WriterInv, NothingGot, writeVars
<1> QED BY <1>6, <1>7, <1>8 DEF CborIInv

LEMMA SkipItemReading ==
  ASSUME CborIInv, status = "reading", SkipItem
  PROVE  CborIInv'
<1>1. PICK k \in 1 .. Count(buf) + 1 : pos = Start(buf, k) /\ Owed(buf, k) = pending
  BY InReader
<1>2. /\ Composed(out) /\ Count(out) = Length(response) /\ buf = out /\ WellFormed(buf) /\ Layout(buf)
      /\ Count(buf) \in Nat /\ pending \in Nat /\ pending > 0
      /\ Owed(buf, Count(buf) + 1) = 0 /\ \A j \in 1 .. Count(buf) : Owed(buf, j) >= 1
  BY InReader, Whole DEF SkipItem
<1>3. k \in 1 .. Count(buf)
  BY <1>1, <1>2
<1>4. pending' = pending - 1 + Children(ItemAt(buf, k)) /\ pos' = Start(buf, k + 1)
  BY <1>1, <1>2, <1>3, SkipItemReads
<1>5. /\ Owed(buf, k + 1) = pending' /\ Children(ItemAt(buf, k)) \in Nat
      /\ Start(buf, k + 1) \in Nat /\ Start(buf, k + 1) <= Total(buf)
  BY <1>1, <1>2, <1>3, <1>4, LaidItem
<1>6. pending' \in Nat /\ k + 1 \in 1 .. Count(buf) + 1
  <2> DEFINE c == Children(ItemAt(buf, k))
  <2>1. c \in Nat /\ pending' = pending - 1 + c
    BY <1>4, <1>5
  <2> HIDE DEF c
  <2> QED BY <1>2, <1>3, <2>1
<1>7. UNCHANGED <<cmd, buf, left, elements, pairs, param, got, status, writeVars>>
  BY DEF SkipItem
<1>8. CborTypeOK'
  <2>1. pos' \in 0 .. Len(buf.bytes)
    BY <1>2, <1>4, <1>5, Laid DEF Total
  <2> QED BY <1>6, <1>7, <2>1 DEF CborIInv, CborTypeOK, writeVars
<1>9. ParserInv'
  BY <1>7 DEF ParserInv
<1>10. Composed(out)'
  BY <1>2, <1>7, Zenon DEF Composed, KeyFrom, MakeFrom, GetFrom, InfoFrom, writeVars
<1>11. WriterInv'
  BY <1>4, <1>5, <1>6, <1>7, <1>10 DEF CborIInv, WriterInv, NothingGot, writeVars
<1> QED BY <1>8, <1>9, <1>11 DEF CborIInv

-----------------------------------------------------------------------------
(* The invariant holds of every reachable state. *)
LEMMA InitKeeps == CborInit => CborIInv
<1> SUFFICES ASSUME CborInit
             PROVE  CborIInv
  OBVIOUS
<1>1. /\ pos = 0 /\ left = 0 /\ elements = 0 /\ pairs = 0 /\ pending = 0 /\ param = 0
      /\ NothingGot /\ status = "start" /\ auth = << >> /\ out = NoMessage
  BY DEF CborInit, NothingGot
<1>2. IsRequest(cmd, buf) \/ (cmd = "info" /\ buf = NoMessage)
  BY DEF CborInit, IsRequest
<1>3. cmd \in {"make", "get", "info"} /\ Layout(buf)
  BY <1>2, Requested, Whole, NothingInNoMessage
<1>4. Total(buf) \in Nat
  BY <1>3, Laid
<1>5. 0 \in 0 .. Len(buf.bytes) /\ 0 \in 0 .. 31 /\ 0 \in Nat /\ 0 \in Byte
  BY <1>4 DEF Total, Byte
<1>6. Len(auth) \in 0 .. AUTH_BUF /\ Len(out.bytes) \in 0 .. OUT_BUF
  <2>1. Length(auth) = 0 /\ Total(out) = 0
    <3>1. Length(<< >>) = 0
      BY DEF Length
    <3> QED BY <1>1, <3>1, NothingInNoMessage, Zenon
  <2>2. Length(auth) \in 0 .. 512 /\ Total(out) \in 0 .. 1024
    BY <2>1
  <2> QED BY <2>2, Zenon DEF Length, Total, AUTH_BUF, OUT_BUF
<1>7. got \in [Fields -> [at : Nat, len : Nat, end : 0 .. Len(buf.bytes)]]
  BY <1>1, <1>5 DEF NothingGot, Null
<1>8. CborTypeOK
  BY <1>1, <1>3, <1>5, <1>6, <1>7 DEF CborTypeOK
<1>9. ParserInv
  BY <1>1, <1>2 DEF ParserInv, NothingOpen
<1>10. WriterInv
  BY <1>1 DEF WriterInv
<1> QED BY <1>8, <1>9, <1>10 DEF CborIInv

LEMMA StutterKeeps == CborIInv /\ UNCHANGED cborVars => CborIInv'
<1> SUFFICES ASSUME CborIInv, UNCHANGED cborVars
             PROVE  CborIInv'
  OBVIOUS
<1>1. UNCHANGED <<cmd, buf, pos, left, elements, pairs, pending, param, got, status, auth, signed, response, out>>
  BY DEF cborVars, readVars, writeVars
<1>2. CborTypeOK'
  BY <1>1 DEF CborIInv, CborTypeOK
<1>3. ParserInv'
  BY <1>1 DEF CborIInv, ParserInv, NothingOpen, NothingGot
<1>4. ASSUME Composed(out)
      PROVE  Composed(out)'
  BY <1>1, <1>4, Zenon DEF Composed, KeyFrom, MakeFrom, GetFrom, InfoFrom
<1>5. WriterInv'
  BY <1>1, <1>4 DEF CborIInv, WriterInv, NothingGot
<1> QED BY <1>2, <1>3, <1>5 DEF CborIInv

LEMMA StepKeeps == CborIInv /\ [CborNext]_cborVars => CborIInv'
<1> SUFFICES ASSUME CborIInv, [CborNext]_cborVars
             PROVE  CborIInv'
  OBVIOUS
<1>1. CASE Begin
  BY <1>1, BeginKeeps
<1>2. CASE TakeString
  BY <1>2, TakeStringKeeps
<1>3. CASE EnterMap
  BY <1>3, EnterMapKeeps
<1>4. CASE EnterList
  BY <1>4, EnterListKeeps
<1>5. CASE PassParameter
  BY <1>5, PassParameterKeeps
<1>6. CASE Member
  BY <1>6, MemberKeeps
<1>7. CASE Element
  BY <1>7, ElementKeeps
<1>8. CASE SkipItem
  <2>1. status \in {"parsing", "reading"}
    BY <1>8 DEF SkipItem
  <2> QED BY <1>8, <2>1, SkipItemParsing, SkipItemReading
<1>9. CASE Finish
  BY <1>9, FinishKeeps
<1>10. CASE BuildAuthData
  BY <1>10, BuildAuthDataKeeps
<1>11. CASE AnswerMake
  BY <1>11, AnswerMakeKeeps
<1>12. CASE AnswerGet
  BY <1>12, AnswerGetKeeps
<1>13. CASE AnswerInfo
  BY <1>13, AnswerInfoKeeps
<1>14. CASE Write
  BY <1>14, WriteKeeps
<1>15. CASE ReadBack
  BY <1>15, ReadBackKeeps
<1>16. CASE UNCHANGED cborVars
  BY <1>16, StutterKeeps
<1> QED BY <1>1, <1>2, <1>3, <1>4, <1>5, <1>6, <1>7, <1>8, <1>9, <1>10, <1>11, <1>12, <1>13, <1>14,
           <1>15, <1>16 DEF CborNext

THEOREM ParserAndWriterKeep == CborSpec => []CborIInv
BY InitKeeps, StepKeeps, PTL DEF CborSpec

(* Whatever a client sends, however many entries it holds and however long *)
(* they are: nothing is read past the message, and no response or          *)
(* authenticator data outgrow their buffers.                               *)
THEOREM CborTypeCorrect == CborSpec => []CborTypeOK
<1>1. CborIInv => CborTypeOK
  BY DEF CborIInv
<1> QED BY <1>1, ParserAndWriterKeep, PTL

-----------------------------------------------------------------------------
(* What the invariant tells of the requests. *)
LEMMA StaysInStep == CborIInv => InStep
<1> SUFFICES ASSUME CborIInv, status = "parsing", pending = 0, pairs = 0, elements = 0
             PROVE  IF left = 0 THEN pos = Len(buf.bytes)
                    ELSE \E k \in Keys(buf, 1) : ToCome(buf, 1, k) = 2 * left /\ pos = buf.at[k]
  BY DEF InStep
<1>1. /\ IsRequest(cmd, buf) /\ WellFormed(buf) /\ Layout(buf) /\ Count(buf) \in Nat
      /\ ItemAt(buf, 1).mt = 5 /\ left \in 0 .. 31
  BY InParser
<1>2. PICK k \in 2 .. Count(buf) + 1 :
        pos = Start(buf, k) /\ Stands(cmd, buf, left, elements, pairs, pending, param, got, k)
  BY InParser
<1>3. pos = Start(buf, k) /\ Stands(cmd, buf, left, 0, 0, 0, param, got, k)
  BY <1>2
<1>4. CASE left = 0
  <2>1. Stands(cmd, buf, 0, 0, 0, 0, param, got, k)
    BY <1>3, <1>4
  <2>2. pos = Total(buf)
    BY <1>1, <1>3, <2>1, StandsAtEnd, Laid
  <2> QED BY <1>4, <2>2 DEF Total
<1>5. CASE left # 0
  <2>1. left \in Nat /\ left > 0
    BY <1>1, <1>5
  <2>2. k \in Keys(buf, 1) /\ Owed(buf, k) = 2 * left
    BY <1>1, <1>3, <2>1, EntryAhead
  <2>3. Owed(buf, 1) = 1
    BY <1>1, Laid
  <2>4. ToCome(buf, 1, k) = 2 * left
    <3>1. ToCome(buf, 1, k) = Owed(buf, k) - Owed(buf, 1) + 1
      BY DEF ToCome, Owed
    <3> QED BY <1>1, <2>2, <2>3, <3>1
  <2> QED BY <1>3, <1>5, <2>2, <2>4 DEF Start
<1> QED BY <1>4, <1>5

(* Between two entries of a request the parser stands at the head of the   *)
(* next key or at the end, for every request a client can send: any        *)
(* nesting, any order and any lengths of its entries.                      *)
THEOREM ParserInStep == CborSpec => []InStep
BY StaysInStep, ParserAndWriterKeep, PTL

LEMMA LastOne ==
  ASSUME NEW S, NEW j \in S, \A i \in S : i \in Int, \A i \in S : i <= j
  PROVE  (CHOOSE n \in S : \A i \in S : i <= n) = j
<1> DEFINE n == CHOOSE n \in S : \A i \in S : i <= n
<1>1. n \in S /\ \A i \in S : i <= n
  OBVIOUS
<1>2. n <= j /\ j <= n /\ n \in Int /\ j \in Int
  BY <1>1
<1> HIDE DEF n
<1>3. n = j
  BY <1>2
<1> QED BY <1>3 DEF n

(* A parsed field is the last of those the client has put there. *)
LEMMA GotMeant ==
  ASSUME CborIInv, status \in {"good", "missing_parameter"}, NEW f \in Fields
  PROVE  /\ Sent(cmd, buf, f) = {} => got[f] = Null
         /\ Sent(cmd, buf, f) # {} => /\ got[f] # Null /\ got[f].len = Meant(f).n
                                      /\ Content(buf.bytes, got[f]) = Meant(f).data
<1>1. /\ ItemAt(buf, 1).mt = 5 /\ GotUpTo(cmd, buf, got, Count(buf) + 1)
      /\ IsRequest(cmd, buf)
  BY DEF CborIInv, ParserInv
<1>2. cmd \in {"make", "get"} /\ WellFormed(buf) /\ Layout(buf) /\ Count(buf) \in Nat
  BY <1>1, Requested, Whole
<1>3. \A i \in Sent(cmd, buf, f) : i \in 1 .. Count(buf)
  <2>1. \A i \in Sent(cmd, buf, f) : i \in 2 .. Count(buf)
    BY <1>2, SentShape
  <2> QED BY <1>2, <2>1
<1>4. \A i \in Sent(cmd, buf, f) : i \in Int /\ ~(i >= Count(buf) + 1)
  BY <1>2, <1>3
<1>5. \/ got[f] = Null /\ \A j \in Sent(cmd, buf, f) : j >= Count(buf) + 1
      \/ \E j \in Sent(cmd, buf, f) : /\ j < Count(buf) + 1 /\ got[f] = Span(buf, j)
                                      /\ \A i \in Sent(cmd, buf, f) : i >= Count(buf) + 1 \/ i <= j
  BY <1>1, Zenon DEF GotUpTo
<1>6. ASSUME Sent(cmd, buf, f) = {}
      PROVE  got[f] = Null
  BY <1>5, <1>6
<1>7. ASSUME Sent(cmd, buf, f) # {}
      PROVE  /\ got[f] # Null /\ got[f].len = Meant(f).n
             /\ Content(buf.bytes, got[f]) = Meant(f).data
  <2>1. PICK j \in Sent(cmd, buf, f) : got[f] = Span(buf, j) /\ \A i \in Sent(cmd, buf, f) : i <= j
    BY <1>4, <1>5, <1>7
  <2>2. (CHOOSE n \in Sent(cmd, buf, f) : \A i \in Sent(cmd, buf, f) : i <= n) = j
    BY <1>4, <2>1, LastOne
  <2>3. Meant(f) = ItemAt(buf, j)
    BY <2>2 DEF Meant, ItemAt
  <2>4. j \in 1 .. Count(buf) /\ ItemAt(buf, j).mt \in {2, 3}
    BY <1>1, <1>3, RequestStrings
  <2>5. Span(buf, j) # Null /\ Span(buf, j).len = ItemAt(buf, j).n
    BY <1>2, <2>4, SpanShape
  <2>6. Content(buf.bytes, Span(buf, j)) = ItemAt(buf, j).data
    BY <1>2, <2>4, ItemRead
  <2> QED BY <2>1, <2>3, <2>5, <2>6
<1> QED BY <1>6, <1>7

(* What is kept of a string that fits, or of none, is what was given. *)
LEMMA KeptAsGiven ==
  ASSUME NEW b, NEW s, s.len \in Nat, NEW data, NEW most, NEW given \in BOOLEAN,
         given => Content(b, s) = data, ~given => s = Null
  PROVE  (IF s.len <= most THEN Content(b, s) ELSE << >>)
           = (IF given /\ Len(data) <= most THEN data ELSE << >>)
<1>1. Len(Content(b, s)) = s.len
  BY DEF Content
<1>2. CASE given
  <2>1. Content(b, s) = data /\ Len(data) = s.len
    BY <1>1, <1>2
  <2> QED BY <1>2, <2>1, Zenon
<1>3. CASE ~given
  <2>1. Content(b, s) = << >>
    BY <1>3 DEF Content, Null
  <2> QED BY <1>3, <2>1, Zenon
<1> QED BY <1>2, <1>3

LEMMA ParsedWell == CborIInv => ParsedAsSent
<1> SUFFICES ASSUME CborIInv, status \in {"good", "missing_parameter"}
             PROVE  /\ \A f \in Fields :
                         IF Sent(cmd, buf, f) = {} THEN got[f] = Null
                         ELSE got[f] # Null /\ Content(buf.bytes, got[f]) = Meant(f).data
                    /\ (status = "good") = (Sent(cmd, buf, "rp") # {} /\ Sent(cmd, buf, "hash") # {}
                                              /\ Meant("hash").n = HASH_LEN)
                    /\ KeptUser.id = WholeOrNot("user_id", MAX_USER_ID_LEN)
                    /\ KeptUser.name = WholeOrNot("user_name", MAX_USER_NAME_LEN - 1)
  BY DEF ParsedAsSent
<1>1. \A f \in Fields : IF Sent(cmd, buf, f) = {} THEN got[f] = Null
                        ELSE got[f] # Null /\ Content(buf.bytes, got[f]) = Meant(f).data
  BY GotMeant
<1>2. (status = "good") = (Sent(cmd, buf, "rp") # {} /\ Sent(cmd, buf, "hash") # {}
                             /\ Meant("hash").n = HASH_LEN)
  <2>1. (status = "good") = (got["hash"] # Null /\ got["rp"] # Null /\ got["hash"].len = HASH_LEN)
    BY DEF CborIInv, ParserInv
  <2>2. "hash" \in Fields /\ "rp" \in Fields
    BY DEF Fields
  <2>3. /\ Sent(cmd, buf, "hash") = {} <=> got["hash"] = Null
        /\ Sent(cmd, buf, "rp") = {} <=> got["rp"] = Null
        /\ Sent(cmd, buf, "hash") # {} => got["hash"].len = Meant("hash").n
    BY <2>2, GotMeant
  <2> QED BY <2>1, <2>3
<1>3. got["user_id"].len \in Nat /\ got["user_name"].len \in Nat
  BY DEF CborIInv, CborTypeOK, Fields
<1>4. ASSUME NEW f \in {"user_id", "user_name"}, NEW most
      PROVE  (IF got[f].len <= most THEN Content(buf.bytes, got[f]) ELSE << >>) = WholeOrNot(f, most)
  <2> DEFINE given == Sent(cmd, buf, f) # {}
  <2>1. f \in Fields /\ got[f].len \in Nat
    BY <1>3 DEF Fields
  <2>2. given => Content(buf.bytes, got[f]) = Meant(f).data
    BY <1>1, <2>1
  <2>3. ~given => got[f] = Null
    BY <1>1, <2>1
  <2>4. given \in BOOLEAN
    OBVIOUS
  <2>5. WholeOrNot(f, most) = IF given /\ Len(Meant(f).data) <= most THEN Meant(f).data ELSE << >>
    BY DEF WholeOrNot
  <2> HIDE DEF given
  <2> QED BY <2>1, <2>2, <2>3, <2>4, <2>5, KeptAsGiven
<1>5. KeptUser.id = WholeOrNot("user_id", MAX_USER_ID_LEN)
  BY <1>4 DEF KeptUser
<1>6. KeptUser.name = WholeOrNot("user_name", MAX_USER_NAME_LEN - 1)
  <2>1. KeptUser.name = IF got["user_name"].len <= MAX_USER_NAME_LEN - 1
                        THEN Content(buf.bytes, got["user_name"]) ELSE << >>
    <3>1. got["user_name"].len < MAX_USER_NAME_LEN <=> got["user_name"].len <= MAX_USER_NAME_LEN - 1
      BY <1>3 DEF MAX_USER_NAME_LEN
    <3> QED BY <3>1, Zenon DEF KeptUser
  <2> QED BY <1>4, <2>1
<1> QED BY <1>1, <1>2, <1>5, <1>6

(* A request is taken as the client meant it, whatever it is: refused if   *)
(* and only if a parameter is missing or the hash has another length, the  *)
(* last of several strings for a field, and a user kept whole or not.      *)
THEOREM RequestsParsedAsSent == CborSpec => []ParsedAsSent
BY ParsedWell, ParserAndWriterKeep, PTL

-----------------------------------------------------------------------------
(* What the invariant tells of the responses. *)
LEMMA ReadToItsEnd == CborIInv => ResponseIsOneItem
<1> SUFFICES ASSUME CborIInv, status = "reading", pending = 0
             PROVE  pos = Len(buf.bytes)
  BY DEF ResponseIsOneItem
<1>1. WellFormed(buf) /\ Layout(buf) /\ Count(buf) \in Nat /\ \A j \in 1 .. Count(buf) : Owed(buf, j) >= 1
  BY InReader, Whole
<1>2. PICK k \in 1 .. Count(buf) + 1 : pos = Start(buf, k) /\ Owed(buf, k) = pending
  BY InReader
<1>3. k = Count(buf) + 1
  BY <1>1, <1>2
<1> QED BY <1>1, <1>2, <1>3, Laid DEF Total

(* Every response and every public key is one item to its last byte, for   *)
(* every user id and name that can be stored and every signature.          *)
THEOREM ResponsesAreOneItem == CborSpec => []ResponseIsOneItem
BY ReadToItsEnd, ParserAndWriterKeep, PTL

LEMMA HalvesOfFourBytes ==
  ASSUME NEW n \in Nat
  PROVE  /\ 256 * (n \div 16777216) + ((n \div 65536) % 256) = n \div 65536
         /\ 256 * ((n \div 256) % 256) + (n % 256) = n % 65536
<1> DEFINE q == n \div 65536
           r == n % 65536
           u == q \div 256
           v == q % 256
           a == n \div 256
           b == n % 256
           c == a \div 256
           d == a % 256
<1>1. n = 65536 * q + r /\ q \in Nat /\ r \in Nat /\ r <= 65535
  BY SMT
<1>2. n = 256 * a + b /\ a \in Nat /\ b \in Nat /\ b <= 255
  BY SMT
<1> HIDE DEF q, r, a, b
<1>3. q = 256 * u + v /\ u \in Nat /\ v \in Nat /\ v <= 255
  BY <1>1, SMT
<1>4. a = 256 * c + d /\ c \in Nat /\ d \in Nat /\ d <= 255
  BY <1>2, SMT
<1> HIDE DEF u, v, c, d
<1>5. n \div 16777216 = u
  <2>1. n = 16777216 * u + (65536 * v + r)
    BY <1>1, <1>3, SMT
  <2>2. 0 <= 65536 * v + r /\ 65536 * v + r < 16777216
    BY <1>1, <1>3, SMT
  <2> QED BY <1>1, <1>3, <2>1, <2>2, SMT
<1>6. n % 65536 = 256 * d + b
  <2>1. n = 65536 * c + (256 * d + b)
    BY <1>2, <1>4, SMT
  <2>2. 0 <= 256 * d + b /\ 256 * d + b < 65536
    BY <1>2, <1>4, SMT
  <2> QED BY <1>2, <1>4, <2>1, <2>2, SMT
<1>7. 256 * (n \div 16777216) + v = q
  BY <1>3, <1>5, SMT
<1>8. 256 * (n \div 16777216) + ((n \div 65536) % 256) = n \div 65536
  BY <1>7, SMT DEF q, v
<1>9. 256 * d + b = n % 65536
  BY <1>6, SMT
<1>10. 256 * ((n \div 256) % 256) + (n % 256) = n % 65536
  BY <1>9, SMT DEF a, b, d
<1> QED BY <1>8, <1>10

LEMMA CountAsWritten ==
  ASSUME NEW a, NEW n, FourBytes(n),
         a[34] = n \div 16777216, a[35] = (n \div 65536) % 256,
         a[36] = (n \div 256) % 256, a[37] = n % 256
  PROVE  CountIn(a, n)
<1>1. n \in Nat
  BY SMT DEF FourBytes
<1> QED BY <1>1, HalvesOfFourBytes, SMT DEF CountIn

LEMMA AuthDataFound == CborIInv => AuthDataReads
<1> SUFFICES ASSUME CborIInv, status = "reading", cmd # "info"
             PROVE  IF cmd = "make" /\ auth = << >>
                    THEN buf.at[1] = 55 + 256 * buf.bytes[54] + buf.bytes[55]
                    ELSE \E j \in AuthDataAt :
                           LET a == Content(buf.bytes, ReadBytes(buf.bytes, buf.at[j]))
                           IN IF cmd = "make" THEN a = auth /\ a[33] = 65 /\ CountIn(a, 0)
                              ELSE Len(a) = 37 /\ a[33] = 1 /\ CountIn(a, signed)
  BY DEF AuthDataReads
<1>1. /\ Composed(out) /\ Count(out) = Length(response) /\ buf = out
      /\ WellFormed(buf) /\ Layout(buf) /\ Count(buf) \in Nat
  BY InReader
<1>2. /\ WellFormed(out)
      /\ MakeFrom(out) => 7 \in Under(out, {1}, Text(AuthDataName)) /\ ItemAt(out, 7) = Bytes(auth)
      /\ GetFrom(out) => 9 \in Under(out, {1}, Uint(2)) /\ ItemAt(out, 9) = Bytes(auth)
  BY <1>1, ResponseComplete
<1>3. ASSUME NEW j, j \in 1 .. Count(buf), ItemAt(buf, j) = Bytes(auth)
      PROVE  Content(buf.bytes, ReadBytes(buf.bytes, buf.at[j])) = auth
  <2>1. Bytes(auth).mt \in {2, 3} /\ Bytes(auth).data = auth
    BY DEF Bytes
  <2>2. Content(buf.bytes, ReadBytes(buf.bytes, Start(buf, j))) = ItemAt(buf, j).data
    BY <1>1, <1>3, <2>1, ItemRead
  <2> QED BY <1>3, <2>1, <2>2 DEF Start
<1>4. CASE KeyFrom(out)
  <2>1. cmd = "make" /\ auth = << >> /\ Start(buf, 1) = 87 /\ RegistrationHead(buf.bytes)
    BY <1>1, <1>4, Zenon DEF KeyFrom
  <2>2. buf.at[1] = 87 /\ buf.bytes[54] = 0 /\ buf.bytes[55] = 32
    BY <2>1, Zenon DEF RegistrationHead, Start
  <2> QED BY <2>1, <2>2
<1>5. CASE MakeFrom(out)
  <2>1. cmd = "make" /\ RegistrationHead(auth) /\ auth # << >>
    <3>1. cmd = "make" /\ RegistrationHead(auth) /\ Length(auth) \in 87 .. 461
      BY <1>5, Zenon DEF MakeFrom
    <3>2. Length(<< >>) = 0 /\ ~(0 \in 87 .. 461)
      BY DEF Length
    <3> QED BY <3>1, <3>2, Zenon
  <2>2. Count(buf) = 7 /\ 7 \in AuthDataAt /\ ItemAt(buf, 7) = Bytes(auth)
    <3>1. Count(out) = 7
      BY <1>1, <1>5, ComposedItems
    <3> QED BY <1>1, <1>2, <1>5, <2>1, <3>1 DEF AuthDataAt
  <2>3. Content(buf.bytes, ReadBytes(buf.bytes, buf.at[7])) = auth
    BY <1>3, <2>2
  <2>4. auth[33] = 65 /\ auth[34] = 0 /\ auth[35] = 0 /\ auth[36] = 0 /\ auth[37] = 0
    BY <2>1, Zenon DEF RegistrationHead
  <2>5. CountIn(auth, 0)
    <3>1. /\ 0 \div 16777216 = 0 /\ (0 \div 65536) % 256 = 0 /\ (0 \div 256) % 256 = 0 /\ 0 % 256 = 0
          /\ FourBytes(0)
      BY SMT DEF FourBytes, Byte
    <3> QED BY <2>4, <3>1, CountAsWritten, SMT
  <2> QED BY <2>1, <2>2, <2>3, <2>4, <2>5, Zenon
<1>6. CASE GetFrom(out)
  <2>1. cmd = "get" /\ \E count \in Counts : signed = count /\ auth = AuthData(1, count)
    BY <1>6, Zenon DEF GetFrom
  <2>2. PICK count \in Counts : signed = count /\ auth = AuthData(1, count)
    BY <2>1
  <2>3. FourBytes(count) /\ 1 \in Byte
    BY SizesAssumption DEF Byte
  <2>4. Length(auth) = 37 /\ auth[33] = 1
    BY <2>2, <2>3, AuthDataShape, SMT
  <2>a. /\ auth[34] = count \div 16777216 /\ auth[35] = (count \div 65536) % 256
        /\ auth[36] = (count \div 256) % 256 /\ auth[37] = count % 256
    BY <2>2, <2>3, AuthDataShape, SMT
  <2>5. CountIn(auth, signed)
    BY <2>2, <2>3, <2>a, CountAsWritten, SMT
  <2>6. Count(buf) = 17 /\ 9 \in AuthDataAt /\ ItemAt(buf, 9) = Bytes(auth)
    <3>1. Count(out) = 17
      BY <1>1, <1>6, ComposedItems
    <3> QED BY <1>1, <1>2, <1>6, <2>1, <3>1 DEF AuthDataAt
  <2>7. Content(buf.bytes, ReadBytes(buf.bytes, buf.at[9])) = auth
    BY <1>3, <2>6
  <2>8. Len(auth) = 37 /\ auth[33] = 1 /\ CountIn(auth, signed)
    BY <2>4, <2>5, Zenon DEF Length
  <2>9. cmd # "make"
    BY <2>1
  <2> QED BY <2>6, <2>7, <2>8, <2>9, Zenon
<1>7. ~InfoFrom(out)
  BY DEF InfoFrom
<1> QED BY <1>1, <1>4, <1>5, <1>6, <1>7 DEF Composed

(* A client finds flags and counter in every response it gets, for every   *)
(* counter of four bytes, and behind the identifier of a registration the  *)
(* public key.                                                             *)
THEOREM AuthDataIsRead == CborSpec => []AuthDataReads
BY AuthDataFound, ParserAndWriterKeep, PTL

=============================================================================
