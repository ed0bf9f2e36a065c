----------------------------- MODULE CborItems -----------------------------
(***************************************************************************)
(* CBOR as the client and the key exchange it.                             *)
(*                                                                         *)
(* An item here is a head with the string that may follow it; what is      *)
(* inside a list or a map are the next items.  A message is a sequence of  *)
(* items together with how it lies in a buffer: the bytes, the offset at   *)
(* which each item starts, and how many items are owed before it for the   *)
(* message to be one item and all that is inside.                          *)
(***************************************************************************)
EXTENDS Integers, Sequences

Byte == 0 .. 255
TwoBytes(n) == n \in Nat /\ n \div 256 \in Byte
FourBytes(n) == n \in Nat /\ n \div 16777216 \in Byte

(* A head in the shortest form.  The key writes the first three, and       *)
(* nothing in it is longer; integers of four bytes only a client has, for  *)
(* which cbor_write_uint would write nothing.                              *)
CborHead(mt, n) ==
  CASE n <= 23 -> <<32 * mt + n>>
    [] n \in 24 .. 255 -> <<32 * mt + 24, n>>
    [] n > 255 /\ TwoBytes(n) -> <<32 * mt + 25, n \div 256, n % 256>>
    [] OTHER -> <<32 * mt + 26, n \div 16777216, (n \div 65536) % 256, (n \div 256) % 256, n % 256>>

MajorTypes == {0, 1, 2, 3, 4, 5, 7}
Item == [mt : MajorTypes, n : Nat, data : Seq(Byte)]

Uint(n) == [mt |-> 0, n |-> n, data |-> << >>]
Negative(n) == [mt |-> 1, n |-> n, data |-> << >>]   \* -1 - n
Bytes(data) == [mt |-> 2, n |-> Len(data), data |-> data]
Text(data) == [mt |-> 3, n |-> Len(data), data |-> data]
ListOf(n) == [mt |-> 4, n |-> n, data |-> << >>]
Truth(b) == [mt |-> 7, n |-> IF b THEN 21 ELSE 20, data |-> << >>]

(* An item the reader can tell the end of: strings and containers of less  *)
(* than 64 KiB, integers of up to four bytes, simple values of one.        *)
Sound(x) ==
  /\ x \in Item
  /\ IF x.mt \in {2, 3} THEN x.n = Len(x.data) ELSE x.data = << >>
  /\ x.mt \in 2 .. 5 => TwoBytes(x.n)
  /\ x.mt = 7 => x.n <= 23
  /\ FourBytes(x.n)

Encoded(x) == CborHead(x.mt, x.n) \o x.data

(* The items right inside an item. *)
Children(x) == CASE x.mt = 4 -> x.n [] x.mt = 5 -> 2 * x.n [] OTHER -> 0

-----------------------------------------------------------------------------
(* The items lie in the buffer one after the other, up to its end. *)
Layout(m) ==
  /\ m.items \in Seq(Item) /\ m.at \in Seq(Nat) /\ m.owed \in Seq(Int) /\ m.bytes \in Seq(Byte)
  /\ Len(m.at) = Len(m.items) + 1 /\ Len(m.owed) = Len(m.items) + 1
  /\ m.owed[1] = 1 /\ m.at[Len(m.at)] = Len(m.bytes)
  /\ \A k \in 1 .. Len(m.items) :
       /\ Sound(m.items[k])
       /\ m.owed[k + 1] = m.owed[k] - 1 + Children(m.items[k])
       /\ m.at[k + 1] = m.at[k] + Len(Encoded(m.items[k])) /\ m.at[k + 1] <= Len(m.bytes)
       /\ \A i \in 1 .. Len(Encoded(m.items[k])) : m.bytes[m.at[k] + i] = Encoded(m.items[k])[i]

(* Nothing is missing of it and nothing too much. *)
Complete(m) ==
  /\ Len(m.items) >= 1 /\ m.owed[Len(m.owed)] = 0
  /\ \A k \in 1 .. Len(m.items) : m.owed[k] >= 1

WellFormed(m) == Layout(m) /\ Complete(m)

(* A buffer that holds `bytes' and no item yet, and one item more.         *)
Started(bytes) == [items |-> << >>, at |-> <<Len(bytes)>>, owed |-> <<1>>, bytes |-> bytes]
Written(m, x) ==
  [items |-> Append(m.items, x),
   at |-> Append(m.at, Len(m.bytes) + Len(Encoded(x))),
   owed |-> Append(m.owed, m.owed[Len(m.owed)] - 1 + Children(x)),
   bytes |-> m.bytes \o Encoded(x)]

-----------------------------------------------------------------------------
(* What is inside what.  The children of the item number h are those       *)
(* before which fewer items are owed than before all that come between.    *)
ChildrenOf(m, h) ==
  {k \in h + 1 .. Len(m.items) :
     m.owed[k] >= m.owed[h] /\ \A j \in h + 1 .. k - 1 : m.owed[j] > m.owed[k]}

(* The children of h from k on, k included. *)
ToCome(m, h, k) == m.owed[k] - m.owed[h] + 1
(* The keys of a map are every other child. *)
Keys(m, h) == {k \in ChildrenOf(m, h) : ToCome(m, h, k) % 2 = 0}
KeysOf(m, H) == UNION {Keys(m, h) : h \in H}

(* The values under a key in the maps H, the elements of the lists H; a    *)
(* key is a single item.                                                   *)
Under(m, H, key) == {k + 1 : k \in {j \in KeysOf(m, H) : m.items[j] = key}}
Elements(m, H) == UNION {ChildrenOf(m, h) : h \in H}

Maps(m, H) == {h \in H : m.items[h].mt = 5}
Lists(m, H) == {h \in H : m.items[h].mt = 4}
AreStrings(m, H) == \A h \in H : m.items[h].mt \in {2, 3}
=============================================================================
