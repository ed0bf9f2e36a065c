-------------------------------- MODULE Cbor --------------------------------
(***************************************************************************)
(* The CBOR reader and writer of src/firmware/main/ctap2.cpp, the parsers  *)
(* of makeCredential and getAssertion, the responses of all commands, and  *)
(* the authenticator data of crypto_build_auth_data.                       *)
(*                                                                         *)
(* The parser sees bytes and a position only.  Every round of one of its   *)
(* loops is a step: `left', `elements', `pairs' and `pending' are the      *)
(* rounds that the loops over the request, an allow list, a map in it and  *)
(* inside cbor_skip have to go.  The writer takes a step for each item.    *)
(***************************************************************************)
EXTENDS CborItems, FiniteSets

CONSTANTS Requests,  \* what clients send: the command and its parameters, a message
          Users,     \* user ids and user names of stored credentials
          Counts,    \* signature counters
          SigLengths \* lengths of a DER signature

HASH_LEN == 32
CREDENTIAL_ID_LEN == 32
AAGUID_LEN == 16
MAX_USER_ID_LEN == 64
MAX_USER_NAME_LEN == 64
SIG_BUF == 72
AUTH_BUF == 512
OUT_BUF == 1024

Id == <<105, 100>>
Name == <<110, 97, 109, 101>>

(* What clients keep to (external): a map of parameters, numbered in one   *)
(* byte; strings where strings belong, text for the names of members, and  *)
(* in what the parser opens no more entries than fit the first byte.       *)
Short(m, H) == \A h \in H : m.items[h].n <= 23
MembersTyped(m, H) ==
  /\ Short(m, H)
  /\ \A k \in KeysOf(m, H) : m.items[k].mt = 3
  /\ AreStrings(m, Under(m, H, Text(Id)) \cup Under(m, H, Text(Name)))
Typed(r) ==
  LET m == r.msg
      Param(key) == Under(m, {1}, Uint(key))
  IN m.items[1].mt = 5 =>
       /\ Short(m, {1})
       /\ \A k \in Keys(m, 1) : m.items[k].mt = 0 /\ m.items[k].n <= 255
       /\ r.cmd = "make" => /\ AreStrings(m, Param(1))
                            /\ MembersTyped(m, Maps(m, Param(2) \cup Param(3)))
       /\ r.cmd = "get" => /\ AreStrings(m, Param(1) \cup Param(2))
                           /\ Short(m, Lists(m, Param(3)))
                           /\ MembersTyped(m, Maps(m, Elements(m, Lists(m, Param(3)))))

ASSUME RequestsAssumption ==
  \A r \in Requests : r.cmd \in {"make", "get"} /\ WellFormed(r.msg) /\ r.msg.at[1] = 0 /\ Typed(r)
(* What makeCredential keeps of a user, and crypto_sign and the store have room for. *)
ASSUME UsersAssumption ==
  \A u \in Users : /\ u.id \in Seq(Byte) /\ Len(u.id) <= MAX_USER_ID_LEN
                   /\ u.name \in Seq(Byte) /\ Len(u.name) < MAX_USER_NAME_LEN
ASSUME SizesAssumption ==
  /\ SigLengths \subseteq 1 .. SIG_BUF
  /\ \A n \in Counts : FourBytes(n)

VARIABLES cmd,      \* the command
          buf, pos, \* the message that is read, and the offset its reader is at
          left, elements, pairs, pending,
          param,    \* the number of the parameter under way
          got,      \* the pointers and lengths the parser has set
          status,
          auth,     \* auth_data
          signed,   \* the counter of the assertion that is answered
          response, \* the items to be written
          out       \* the buffer that is written

readVars == <<left, elements, pairs, pending, param>>
writeVars == <<auth, signed, response, out>>
cborVars == <<cmd, buf, pos, readVars, got, status, writeVars>>

-----------------------------------------------------------------------------
(* Reading. *)
At(b, p) == IF p < Len(b) THEN b[p + 1] ELSE 0
MajorType(b, p) == At(b, p) \div 32
LowBits(b, p) == At(b, p) % 32

(* The argument of a head, and the offset after it.  The mutant takes the  *)
(* first byte of a two-byte length only.                                   *)
ArgumentOneByte(b, p) ==
  CASE LowBits(b, p) <= 23 -> [n |-> LowBits(b, p), end |-> p + 1]
    [] LowBits(b, p) \in 24 .. 25 -> [n |-> At(b, p + 1), end |-> p + 2]
    [] OTHER -> [n |-> 0, end |-> p + 1]
Argument(b, p) ==
  CASE LowBits(b, p) <= 23 -> [n |-> LowBits(b, p), end |-> p + 1]
    [] LowBits(b, p) = 24 -> [n |-> At(b, p + 1), end |-> p + 2]
    [] LowBits(b, p) = 25 -> [n |-> 256 * At(b, p + 1) + At(b, p + 2), end |-> p + 3]
    [] OTHER -> [n |-> 0, end |-> p + 1]

(* cbor_read_uint_key *)
ReadKey(b, p) ==
  IF LowBits(b, p) <= 24 THEN Argument(b, p) ELSE [n |-> 255, end |-> p + 1]

(* cbor_read_bytes and cbor_read_text: where the string is. *)
Null == [at |-> 0, len |-> 0, end |-> 0]
ReadBytes(b, p) ==
  LET a == Argument(b, p) IN [at |-> a.end, len |-> a.n, end |-> a.end + a.n]
Content(b, s) == [i \in 1 .. s.len |-> At(b, s.at + i - 1)]

(* cbor_skip knows heads of four bytes as well.                            *)
SkipArgument(b, p) ==
  IF LowBits(b, p) # 26 THEN Argument(b, p)
  ELSE [n |-> 16777216 * At(b, p + 1) + 65536 * At(b, p + 2) + 256 * At(b, p + 3) + At(b, p + 4),
        end |-> p + 5]

(* The items a container of n holds.  The mutant takes a map of n entries  *)
(* for n items.                                                            *)
ItemsHalved(mt, n) == IF mt \in {4, 5} THEN n ELSE 0
Items(mt, n) == CASE mt = 4 -> n [] mt = 5 -> 2 * n [] OTHER -> 0

(* cbor_skip, one head: its recursion is through when no item is pending.  *)
(* It takes nothing at the end of the buffer.                              *)
SkipItem ==
  LET b == buf.bytes
      mt == MajorType(b, pos)
      a == SkipArgument(b, pos)
  IN /\ status \in {"parsing", "reading"} /\ pending > 0
     /\ IF pos >= Len(b) THEN pending' = 0 /\ UNCHANGED pos
        ELSE /\ pending' = pending - 1 + Items(mt, a.n)
             /\ pos' = CASE mt \in {0, 1, 4, 5} -> a.end [] mt \in {2, 3} -> a.end + a.n [] OTHER -> pos + 1
     /\ UNCHANGED <<cmd, buf, left, elements, pairs, param, got, status, writeVars>>

-----------------------------------------------------------------------------
(* The parsers of ctap2_make_credential and ctap2_get_assertion. *)
Fields == {"hash", "rp", "user_id", "user_name", "allow"}

(* The parameters that are strings, maps and lists to each of them, and    *)
(* the members of maps they take.                                          *)
StringField(key) == CASE cmd = "make" /\ key = 1 -> "hash"
                      [] cmd = "get" /\ key = 1 -> "rp"
                      [] cmd = "get" /\ key = 2 -> "hash"
                      [] OTHER -> "none"
IsMap(key) == cmd = "make" /\ key \in {2, 3}
IsList(key) == cmd = "get" /\ key = 3
MemberField(name) == CASE cmd = "make" /\ param = 2 /\ name = Id -> "rp"
                       [] cmd = "make" /\ param = 3 /\ name = Id -> "user_id"
                       [] cmd = "make" /\ param = 3 /\ name = Name -> "user_name"
                       [] cmd = "get" /\ param = 3 /\ name = Id -> "allow"
                       [] OTHER -> "none"

Begin ==
  /\ status = "start" /\ cmd # "info"
  /\ status' = IF MajorType(buf.bytes, 0) = 5 THEN "parsing" ELSE "unexpected_type"
  /\ pos' = 1 /\ left' = LowBits(buf.bytes, 0)
  /\ UNCHANGED <<cmd, buf, elements, pairs, pending, param, got, writeVars>>

(* What a round does with the value at p: it keeps a string, goes into a   *)
(* map or list, or passes it over.  The mutant keeps the first of several. *)
Overwrites(f) == got[f] = Null
Overwritten(f) == TRUE
Takes(f, p) ==
  LET s == ReadBytes(buf.bytes, p)
  IN pos' = s.end /\ got' = IF Overwritten(f) THEN [got EXCEPT ![f] = s] ELSE got
Enters(p) == pos' = p + 1 /\ UNCHANGED got
Passes(p) == pos' = p /\ pending' = 1 /\ UNCHANGED got

(* The next entry of the request: its key is at pos, its value after it. *)
NextKey == ReadKey(buf.bytes, pos)
Entry ==
  /\ status = "parsing" /\ pending = 0 /\ pairs = 0 /\ elements = 0
  /\ left > 0 /\ pos < Len(buf.bytes)
  /\ left' = left - 1 /\ param' = NextKey.n
  /\ UNCHANGED <<cmd, buf, status, writeVars>>

TakeString ==
  /\ Entry /\ StringField(NextKey.n) # "none"
  /\ Takes(StringField(NextKey.n), NextKey.end)
  /\ UNCHANGED <<elements, pairs, pending>>
EnterMap ==
  /\ Entry /\ IsMap(NextKey.n) /\ MajorType(buf.bytes, NextKey.end) = 5
  /\ Enters(NextKey.end) /\ pairs' = LowBits(buf.bytes, NextKey.end)
  /\ UNCHANGED <<elements, pending>>
EnterList ==
  /\ Entry /\ IsList(NextKey.n) /\ MajorType(buf.bytes, NextKey.end) = 4
  /\ Enters(NextKey.end) /\ elements' = LowBits(buf.bytes, NextKey.end)
  /\ UNCHANGED <<pairs, pending>>
PassParameter ==
  /\ Entry /\ StringField(NextKey.n) = "none"
  /\ ~(IsMap(NextKey.n) /\ MajorType(buf.bytes, NextKey.end) = 5)
  /\ ~(IsList(NextKey.n) /\ MajorType(buf.bytes, NextKey.end) = 4)
  /\ Passes(NextKey.end)
  /\ UNCHANGED <<elements, pairs>>

(* The next member of a map. *)
Member ==
  LET k == ReadBytes(buf.bytes, pos)
      f == MemberField(Content(buf.bytes, k))
  IN /\ status = "parsing" /\ pending = 0 /\ pairs > 0
     /\ pairs' = pairs - 1
     /\ IF f # "none" THEN Takes(f, k.end) /\ UNCHANGED pending ELSE Passes(k.end)
     /\ UNCHANGED <<cmd, buf, left, elements, param, status, writeVars>>

(* The next element of an allow list. *)
Element ==
  /\ status = "parsing" /\ pending = 0 /\ pairs = 0 /\ elements > 0
  /\ elements' = elements - 1
  /\ IF MajorType(buf.bytes, pos) = 5
     THEN Enters(pos) /\ pairs' = LowBits(buf.bytes, pos) /\ UNCHANGED pending
     ELSE Passes(pos) /\ UNCHANGED pairs
  /\ UNCHANGED <<cmd, buf, left, param, status, writeVars>>

Finish ==
  /\ status = "parsing" /\ pending = 0 /\ pairs = 0 /\ elements = 0
  /\ left = 0 \/ pos >= Len(buf.bytes)
  /\ status' = IF got["hash"] = Null \/ got["rp"] = Null \/ got["hash"].len # HASH_LEN
               THEN "missing_parameter" ELSE "good"
  /\ UNCHANGED <<cmd, buf, pos, readVars, got, writeVars>>

(* What makeCredential keeps of the user in the credential. *)
KeptUser ==
  [id |-> IF got["user_id"].len <= MAX_USER_ID_LEN THEN Content(buf.bytes, got["user_id"]) ELSE << >>,
   name |-> IF got["user_name"].len < MAX_USER_NAME_LEN THEN Content(buf.bytes, got["user_name"])
            ELSE << >>]

-----------------------------------------------------------------------------
(* Responses.  The content of identifiers, hashes, keys and signatures is  *)
(* one byte repeated, and so are texts nobody compares.                    *)
Fill(n) == [k \in 1 .. n |-> 165]
OtherText(n) == Text([k \in 1 .. n |-> 120])
OK == 0
AuthDataName == <<97, 117, 116, 104, 68, 97, 116, 97>>

(* The head of a map of n entries.  The mutant writes that of an array.    *)
ArrayOf(n) == ListOf(n)
MapOf(n) == [mt |-> 5, n |-> n, data |-> << >>]

(* Four bytes, the highest first.  The mutant starts with the lowest.      *)
LittleEndian(n) == <<n % 256, (n \div 256) % 256, (n \div 65536) % 256, n \div 16777216>>
BigEndian(n) == <<n \div 16777216, (n \div 65536) % 256, (n \div 256) % 256, n % 256>>

(* The authenticator data up to the counter, what a registration adds, and *)
(* the public key at its end.                                              *)
AuthData(flags, count) == Fill(32) \o <<flags>> \o BigEndian(count)
Attested ==
  [k \in 1 .. AAGUID_LEN |-> 0] \o <<0, CREDENTIAL_ID_LEN>> \o Fill(CREDENTIAL_ID_LEN)
CoseKey ==
  <<MapOf(5), Uint(1), Uint(2), Uint(3), Negative(6), Negative(0), Uint(1),
    Negative(1), Bytes(Fill(32)), Negative(2), Bytes(Fill(32))>>

MakeResponse(data) ==
  <<MapOf(3), OtherText(3), OtherText(4), OtherText(7), MapOf(0), Text(AuthDataName), Bytes(data)>>

(* strlen: a name that is a string of C ends before its first zero. *)
CString(s) == SubSeq(s, 1, Cardinality({i \in DOMAIN s : \A j \in 1 .. i : s[j] # 0}))

GetResponse(user, data, sig_len) ==
  <<MapOf(4),
    Uint(1), MapOf(2), Text(Id), Bytes(Fill(CREDENTIAL_ID_LEN)), OtherText(4), OtherText(10),
    Uint(2), Bytes(data),
    Uint(3), Bytes(Fill(sig_len)),
    Uint(4), MapOf(2), Text(Id), Bytes(user.id), Text(Name), Text(CString(user.name))>>

InfoResponse ==
  <<MapOf(4),
    Uint(1), ListOf(1), OtherText(8),
    Uint(2), ListOf(0),
    Uint(3), Bytes(Fill(AAGUID_LEN)),
    Uint(4), MapOf(3), OtherText(2), Truth(TRUE), OtherText(2), Truth(TRUE), OtherText(2), Truth(FALSE)>>

(* A buffer is begun; the request is done with. *)
NoMessage == Started(<< >>)
NothingRead ==
  /\ buf' = NoMessage /\ pos' = 0 /\ got' = [f \in Fields |-> Null]
  /\ left' = 0 /\ elements' = 0 /\ pairs' = 0 /\ pending' = 0 /\ param' = 0
Writes(data, before, items) ==
  /\ status' = "writing" /\ auth' = data /\ out' = Started(before) /\ response' = items
  /\ NothingRead /\ UNCHANGED cmd

(* makeCredential builds the authenticator data in a buffer of its own.    *)
BuildAuthData ==
  /\ status = "good" /\ cmd = "make"
  /\ Writes(<< >>, AuthData(65, 0) \o Attested, CoseKey) /\ UNCHANGED signed
AnswerMake ==
  /\ status = "reading" /\ pending = 0 /\ cmd = "make" /\ auth = << >>
  /\ Writes(buf.bytes, <<OK>>, MakeResponse(buf.bytes)) /\ UNCHANGED signed
AnswerGet ==
  /\ status = "good" /\ cmd = "get"
  /\ \E user \in Users, count \in Counts, sig_len \in SigLengths :
       LET data == AuthData(1, count)
       IN Writes(data, <<OK>>, GetResponse(user, data, sig_len)) /\ signed' = count
AnswerInfo ==
  /\ status = "start" /\ cmd = "info"
  /\ Writes(<< >>, <<OK>>, InfoResponse) /\ UNCHANGED signed

Write ==
  /\ status = "writing" /\ Len(out.items) < Len(response)
  /\ out' = Written(out, response[Len(out.items) + 1])
  /\ UNCHANGED <<cmd, buf, pos, readVars, got, status, auth, signed, response>>

(* A client (external) reads what was written as the key itself would.     *)
ReadBack ==
  /\ status = "writing" /\ Len(out.items) = Len(response)
  /\ status' = "reading" /\ buf' = out /\ pos' = out.at[1] /\ pending' = 1
  /\ UNCHANGED <<cmd, left, elements, pairs, param, got, writeVars>>

CborInit ==
  /\ \/ \E r \in Requests : cmd = r.cmd /\ buf = r.msg
     \/ cmd = "info" /\ buf = NoMessage
  /\ pos = 0 /\ left = 0 /\ elements = 0 /\ pairs = 0 /\ pending = 0 /\ param = 0
  /\ got = [f \in Fields |-> Null] /\ status = "start"
  /\ auth = << >> /\ signed = 0 /\ response = << >> /\ out = NoMessage

CborNext ==
  \/ Begin \/ TakeString \/ EnterMap \/ EnterList \/ PassParameter
  \/ Member \/ Element \/ SkipItem \/ Finish
  \/ BuildAuthData \/ AnswerMake \/ AnswerGet \/ AnswerInfo \/ Write \/ ReadBack

CborSpec == CborInit /\ [][CborNext]_cborVars

-----------------------------------------------------------------------------
(* Where in the message m of a command c a client puts a field: under the  *)
(* key What in one of the maps Where.  The last one counts.                *)
Given(m, key) == Under(m, {1}, Uint(key))
Where(c, m, f) ==
  CASE f = "hash" \/ (c = "get" /\ f = "rp") -> {1}
    [] c = "make" /\ f = "rp" -> Maps(m, Given(m, 2))
    [] c = "make" /\ f \in {"user_id", "user_name"} -> Maps(m, Given(m, 3))
    [] c = "get" /\ f = "allow" -> Maps(m, Elements(m, Lists(m, Given(m, 3))))
    [] OTHER -> {}
What(c, f) ==
  CASE f = "hash" -> Uint(IF c = "make" THEN 1 ELSE 2)
    [] c = "get" /\ f = "rp" -> Uint(1)
    [] f = "user_name" -> Text(Name)
    [] OTHER -> Text(Id)
Sent(c, m, f) == Under(m, Where(c, m, f), What(c, f))
Meant(f) ==
  LET sent == Sent(cmd, buf, f)
  IN buf.items[CHOOSE j \in sent : \A i \in sent : i <= j]

CborTypeOK ==
  /\ cmd \in {"make", "get", "info"}
  /\ pos \in 0 .. Len(buf.bytes)
  /\ left \in 0 .. 31 /\ elements \in 0 .. 31 /\ pairs \in 0 .. 31 /\ pending \in Nat /\ param \in Byte
  /\ got \in [Fields -> [at : Nat, len : Nat, end : 0 .. Len(buf.bytes)]]
  /\ status \in {"start", "parsing", "unexpected_type", "missing_parameter", "good",
                 "writing", "reading"}
  /\ Len(auth) \in 0 .. AUTH_BUF /\ Len(out.bytes) \in 0 .. OUT_BUF

(* Between two entries the parser stands at the head of the next key, or   *)
(* at the end of the request, whatever the entries before held: nested     *)
(* maps, members it does not know, strings whose bytes look like heads,    *)
(* lengths of one, two and three bytes.                                    *)
InStep ==
  status = "parsing" /\ pending = 0 /\ pairs = 0 /\ elements = 0 =>
    IF left = 0 THEN pos = Len(buf.bytes)
    ELSE \E k \in Keys(buf, 1) : ToCome(buf, 1, k) = 2 * left /\ pos = buf.at[k]

(* The parsing ends with what the client meant: a refusal if and only if a *)
(* parameter is missing or the hash has another length, and otherwise the  *)
(* bytes of each parameter, the last identifier of an allow list, and the  *)
(* user id and name the client gave, kept whole if they fit and else not   *)
(* at all.                                                                 *)
WholeOrNot(f, most) ==
  IF Sent(cmd, buf, f) # {} /\ Len(Meant(f).data) <= most THEN Meant(f).data ELSE << >>
ParsedAsSent ==
  status \in {"good", "missing_parameter"} =>
    /\ \A f \in Fields :
         IF Sent(cmd, buf, f) = {} THEN got[f] = Null
         ELSE got[f] # Null /\ Content(buf.bytes, got[f]) = Meant(f).data
    /\ (status = "good") = (Sent(cmd, buf, "rp") # {} /\ Sent(cmd, buf, "hash") # {}
                              /\ Meant("hash").n = HASH_LEN)
    /\ KeptUser.id = WholeOrNot("user_id", MAX_USER_ID_LEN)
    /\ KeptUser.name = WholeOrNot("user_name", MAX_USER_NAME_LEN - 1)

(* A response is its status and one item, and the public key one item, to  *)
(* the last byte, as the firmware's own reader would skip them.            *)
ResponseIsOneItem == status = "reading" /\ pending = 0 => pos = Len(buf.bytes)

(* A client finds in the authenticator data of a response the flags and    *)
(* the counter that was signed, and in a registration the identifier at    *)
(* its announced length and right after it the key.                        *)
AuthDataAt == IF cmd = "make" THEN Under(buf, {1}, Text(AuthDataName)) ELSE Under(buf, {1}, Uint(2))
CountIn(a, n) == 256 * a[34] + a[35] = n \div 65536 /\ 256 * a[36] + a[37] = n % 65536
AuthDataReads ==
  status = "reading" /\ cmd # "info" =>
    IF cmd = "make" /\ auth = << >>
    THEN buf.at[1] = 55 + 256 * buf.bytes[54] + buf.bytes[55]
    ELSE \E j \in AuthDataAt :
           LET a == Content(buf.bytes, ReadBytes(buf.bytes, buf.at[j]))
           IN IF cmd = "make" THEN a = auth /\ a[33] = 65 /\ CountIn(a, 0)
              ELSE Len(a) = 37 /\ a[33] = 1 /\ CountIn(a, signed)
=============================================================================
