------------------------------- MODULE CborMC -------------------------------
(* Requests of clients: each parameter given, left out or malformed, with  *)
(* content whose bytes look like maps, arrays and long strings, at the     *)
(* lengths where a head grows, in the usual order and turned round.        *)
EXTENDS Cbor, SequencesExt

(* A value is the sequence of its items. *)
Array(values) == <<ListOf(Len(values))>> \o FlattenSeq(values)
Map(values) == <<[mt |-> 5, n |-> Len(values) \div 2, data |-> << >>]>> \o FlattenSeq(values)
Message(items) ==
  FoldLeft(LAMBDA m, x : Written(m, x), Started(<< >>), items)

Data(byte, n) == [k \in 1 .. n |-> byte]
Number(n) == <<Uint(n)>>
String(data) == <<Text(data)>>
Blob(byte, n) == <<Bytes(Data(byte, n))>>
Yes == <<Truth(TRUE)>>
Absent == << >>

Type == String(<<116, 121, 112, 101>>)
Alg == String(<<97, 108, 103>>)
Rk == String(<<114, 107>>)
PublicKey == String(Data(98, 10))

Hashes == {Blob(161, 32), Blob(89, 31), Absent}
RpIds == {String(Data(162, n)) : n \in {1, 24, 256}}
UserIds == {Blob(120, n) : n \in {0, 64, 65}}
UserNames == {String(Data(97, n)) : n \in {63, 64, 300}}
Ids == {Blob(130, n) : n \in {16, 32}}

RpMaps ==
  {Map(<<String(Id), id>>) : id \in RpIds} \cup
  {Map(<<String(Name), String(Data(162, 5))>>), Number(70000), Absent} \cup
  {Map(<<String(Name), String(Data(121, 255)), String(Id), id>>) : id \in RpIds}
UserMaps ==
  {Map(<<String(Id), id, String(Name), name>>) : id \in UserIds, name \in UserNames} \cup
  {Map(<<Rk, Yes, String(Name), name>>) : name \in UserNames} \cup {Map(<< >>), Absent}

Descriptor(id) == Map(<<String(Id), id, Type, PublicKey>>)
Reversed(id) == Map(<<Type, PublicKey, String(Id), id>>)
AllowLists ==
  {Array(<<Descriptor(id)>>) : id \in Ids} \cup
  {Array(<<Descriptor(a), Reversed(b)>>) : a \in Ids, b \in Ids} \cup
  {Array(<<Reversed(id), Map(<<Type, PublicKey>>), Number(7)>>) : id \in Ids} \cup
  {Array([k \in 1 .. 23 |-> Descriptor(Blob(130, 32))]), Array(<< >>), Number(300), Absent}

(* Parameters the key does not look at: algorithms, options, a vendor's.   *)
Algorithm(n) == Map(<<Alg, <<Negative(n)>>, Type, PublicKey>>)
Extras ==
  {<< >>, <<Number(4), Array(<<Algorithm(6), Algorithm(256)>>), Number(7), Map(<<Rk, Yes>>)>>,
   <<Number(40), Blob(164, 24)>>, <<Number(9), Number(2147483647)>>}

Parameter(key, value) == IF value = Absent THEN << >> ELSE <<Number(key), value>>
TurnedRound(values) ==
  [k \in DOMAIN values |-> values[Len(values) - k + (IF k % 2 = 1 THEN 0 ELSE 2)]]
BothOrders(values) == {Map(values), Map(TurnedRound(values))}

MakeBodies ==
  UNION {BothOrders(Parameter(1, h) \o Parameter(2, r) \o Parameter(3, u) \o x) :
           h \in Hashes, r \in RpMaps, u \in UserMaps, x \in Extras}
GetBodies ==
  UNION {BothOrders(Parameter(1, r) \o Parameter(2, h) \o Parameter(3, a) \o x) :
           h \in Hashes, r \in RpIds \cup {Absent}, a \in AllowLists, x \in Extras}

(* A parameter that comes twice: the second hash is the right one.         *)
Twice ==
  Map(<<Number(1), Blob(161, 31), Number(2), Map(<<String(Id), String(Data(162, 1))>>),
        Number(1), Blob(161, 32)>>)

MCRequests ==
  {[cmd |-> "make", msg |-> Message(b)] : b \in MakeBodies \cup {Array(<< >>), Twice}} \cup
  {[cmd |-> "get", msg |-> Message(b)] : b \in GetBodies \cup {Number(1)}}

MCNames == {Data(65, n) : n \in {0, 23, 24, 63}} \cup {Data(65, 30) \o <<0>> \o Data(65, 9)}
MCUsers == {[id |-> Data(200, m), name |-> name] : m \in {0, 23, 24, 64}, name \in MCNames}
MCCounts == {1, 255, 256, 65536, 16777216, 2147483647}
MCSigLengths == {70, 71, 72}
=============================================================================
