--------------------------- MODULE BlePhoneProofs ---------------------------
(* Proofs about the phone link, for any peers, messages and timeout.       *)
EXTENDS BlePhone, TLAPS

-----------------------------------------------------------------------------
(* The strengthening.  Each part says what a later step of either task     *)
(* relies on.                                                              *)

(* Without power nothing is connected, written or asked. *)
PowerInv == ~powered => stage = "none" /\ handler = "none" /\ gate = "idle"

(* The callbacks run for a connection that exists. *)
LinkInv == stage # "none" => link \in Peers

(* A write under way is of a message, and so is what it has stored. *)
WriteInv ==
  /\ handler # "none" => wrote
  /\ handler = "read" => value \in AnyMessage
  /\ handler \in {"size", "msg", "flag"} => message \in AnyMessage
  /\ msg # NoMessage => wrote /\ Length(msg) > 0

(* Without the callback the flag stays down and the wait never sees it up. *)
AsBuiltInv ==
  ~installed =>
    ~newMsg /\ handler = "none" /\ gate \notin {"size", "msg", "lower", "granted"}

BleInv ==
  /\ BleTypeOK
  /\ PowerInv
  /\ LinkInv
  /\ WriteInv
  /\ AsBuiltInv
  /\ OnlyTrustedStays
  /\ GrantNeedsWrite

-----------------------------------------------------------------------------
(* The parts of the invariant that say more than a type. *)
StateInv == PowerInv /\ LinkInv /\ WriteInv /\ AsBuiltInv /\ OnlyTrustedStays /\ GrantNeedsWrite

LEMMA BleInitInv == ASSUME BleInit PROVE BleInv
  <1> USE DEF BleInit
  <1>1. FlagsOK
    BY BuildsAssumption DEF FlagsOK, Stages, HandlerSteps, GateSteps
  <1>2. ValuesOK
    BY PollsAssumption DEF ValuesOK
  <1>3. StateInv
    BY DEF StateInv, PowerInv, LinkInv, WriteInv, AsBuiltInv, OnlyTrustedStays, GrantNeedsWrite
  <1> QED BY <1>1, <1>2, <1>3 DEF BleInv, BleTypeOK, StateInv

(* The steps of the radio. *)
LEMMA RadioInv == ASSUME BleInv, Radio PROVE BleInv'
  <1> USE DEF prefsVars, mailVars, writeVars, gateVars, linkVars
  <1>1. CASE LinkDrops
    <2> USE <1>1 DEF LinkDrops, BleInv
    <2>1. FlagsOK'  BY DEF BleTypeOK, FlagsOK
    <2>2. ValuesOK'  BY DEF BleTypeOK, ValuesOK, AnyMessage
    <2>3. StateInv'
      BY DEF StateInv, PowerInv, LinkInv, WriteInv, AsBuiltInv, OnlyTrustedStays, GrantNeedsWrite, AnyMessage
    <2> QED BY <2>1, <2>2, <2>3 DEF BleTypeOK, StateInv
  <1>2. ASSUME NEW p \in Peers, PeerConnects(p) PROVE BleInv'
    <2> USE <1>2 DEF PeerConnects, BleInv
    <2>1. FlagsOK'  BY DEF BleTypeOK, FlagsOK, Stages
    <2>2. ValuesOK'  BY DEF BleTypeOK, ValuesOK, AnyMessage
    <2>3. StateInv'
      BY DEF StateInv, PowerInv, LinkInv, WriteInv, AsBuiltInv, OnlyTrustedStays, GrantNeedsWrite, AnyMessage
    <2> QED BY <2>1, <2>2, <2>3 DEF BleTypeOK, StateInv
  <1>3. ASSUME NEW m \in Messages, PeerWrites(m) PROVE BleInv'
    <2> USE <1>3 DEF PeerWrites, HostFree, BleInv
    <2>1. FlagsOK'  BY DEF BleTypeOK, FlagsOK, HandlerSteps
    <2>2. ValuesOK'  BY DEF BleTypeOK, ValuesOK, AnyMessage
    <2>3. StateInv'
      BY DEF StateInv, PowerInv, LinkInv, WriteInv, AsBuiltInv, OnlyTrustedStays, GrantNeedsWrite, AnyMessage
    <2> QED BY <2>1, <2>2, <2>3 DEF BleTypeOK, StateInv
  <1> QED BY <1>1, <1>2, <1>3 DEF Radio

(* The steps of the host task. *)
LEMMA HostTaskInv == ASSUME BleInv, HostTask PROVE BleInv'
  <1> USE DEF prefsVars, mailVars, writeVars, gateVars, linkVars
  <1>1. CASE OnConnect
    <2> USE <1>1 DEF OnConnect, HostFree, BleInv
    <2>1. FlagsOK'  BY DEF BleTypeOK, FlagsOK, Stages
    <2>2. ValuesOK'  BY DEF BleTypeOK, ValuesOK, AnyMessage
    <2>3. StateInv'
      BY DEF StateInv, PowerInv, LinkInv, WriteInv, AsBuiltInv, OnlyTrustedStays, GrantNeedsWrite, AnyMessage
    <2> QED BY <2>1, <2>2, <2>3 DEF BleTypeOK, StateInv
  <1>2. CASE OnDisconnect
    <2> USE <1>2 DEF OnDisconnect, StartAdvertising, HostFree, BleInv
    <2>1. FlagsOK'  BY DEF BleTypeOK, FlagsOK, Stages
    <2>2. ValuesOK'  BY DEF BleTypeOK, ValuesOK, AnyMessage
    <2>3. StateInv'
      BY DEF StateInv, PowerInv, LinkInv, WriteInv, AsBuiltInv, OnlyTrustedStays, GrantNeedsWrite, AnyMessage
    <2> QED BY <2>1, <2>2, <2>3 DEF BleTypeOK, StateInv
  <1>3. CASE OnWrite
    <2> USE <1>3 DEF OnWrite, BleInv
    <2>1. FlagsOK'  BY DEF BleTypeOK, FlagsOK, HandlerSteps
    <2>2. ValuesOK'  BY MessageAssumption DEF BleTypeOK, ValuesOK, AnyMessage, WriteInv
    <2>3. StateInv'
      BY MessageAssumption DEF StateInv, PowerInv, LinkInv, WriteInv, AsBuiltInv, OnlyTrustedStays, GrantNeedsWrite, AnyMessage, BleTypeOK, ValuesOK
    <2> QED BY <2>1, <2>2, <2>3 DEF BleTypeOK, StateInv
  <1>4. ASSUME NEW bonded \in BOOLEAN, OnAuthenticationComplete(bonded) PROVE BleInv'
    <2> USE <1>4 DEF OnAuthenticationComplete, Stranger, HostFree, BleInv
    <2>1. FlagsOK'  BY DEF BleTypeOK, FlagsOK, Stages
    <2>2. ValuesOK'  BY DEF BleTypeOK, ValuesOK, AnyMessage, LinkInv
    <2>3. StateInv'
      BY DEF StateInv, PowerInv, LinkInv, WriteInv, AsBuiltInv, OnlyTrustedStays, GrantNeedsWrite, AnyMessage
    <2> QED BY <2>1, <2>2, <2>3 DEF BleTypeOK, StateInv
  <1> QED BY <1>1, <1>2, <1>3, <1>4 DEF HostTask

(* The steps of the question, in the loop task. *)
LEMMA GateInv == ASSUME BleInv, Gate PROVE BleInv'
  <1> USE DEF prefsVars, mailVars, writeVars, gateVars, linkVars, GateStep
  <1>1. CASE CheckConnected
    <2> USE <1>1 DEF CheckConnected, BleInv
    <2>1. FlagsOK'  BY DEF BleTypeOK, FlagsOK, GateSteps
    <2>2. ValuesOK'  BY DEF BleTypeOK, ValuesOK, AnyMessage
    <2>3. StateInv'
      BY DEF StateInv, PowerInv, LinkInv, WriteInv, AsBuiltInv, OnlyTrustedStays, GrantNeedsWrite, AnyMessage
    <2> QED BY <2>1, <2>2, <2>3 DEF BleTypeOK, StateInv
  <1>2. CASE SetValue
    <2> USE <1>2 DEF SetValue, BleInv
    <2>1. FlagsOK'  BY DEF BleTypeOK, FlagsOK, GateSteps
    <2>2. ValuesOK'  BY DEF BleTypeOK, ValuesOK, AnyMessage
    <2>3. StateInv'
      BY MessageAssumption DEF StateInv, PowerInv, LinkInv, WriteInv, AsBuiltInv, OnlyTrustedStays, GrantNeedsWrite, AnyMessage
    <2> QED BY <2>1, <2>2, <2>3 DEF BleTypeOK, StateInv
  <1>3. CASE Indicate
    <2> USE <1>3 DEF Indicate, BleInv
    <2>1. FlagsOK'  BY DEF BleTypeOK, FlagsOK, GateSteps
    <2>2. ValuesOK'  BY DEF BleTypeOK, ValuesOK, AnyMessage
    <2>3. StateInv'
      BY DEF StateInv, PowerInv, LinkInv, WriteInv, AsBuiltInv, OnlyTrustedStays, GrantNeedsWrite, AnyMessage
    <2> QED BY <2>1, <2>2, <2>3 DEF BleTypeOK, StateInv
  <1>4. CASE Poll
    <2> USE <1>4 DEF Poll, TimedOut, Advanced, BleInv
    <2>1. FlagsOK'  BY DEF BleTypeOK, FlagsOK, GateSteps
    <2>2. ValuesOK'  BY PollsAssumption DEF BleTypeOK, ValuesOK, AnyMessage
    <2>3. StateInv'
      BY DEF StateInv, PowerInv, LinkInv, WriteInv, AsBuiltInv, OnlyTrustedStays, GrantNeedsWrite, AnyMessage
    <2> QED BY <2>1, <2>2, <2>3 DEF BleTypeOK, StateInv
  <1>5. CASE CheckNewMsg
    <2> USE <1>5 DEF CheckNewMsg, Silence, BleInv
    <2>1. FlagsOK'  BY DEF BleTypeOK, FlagsOK, GateSteps
    <2>2. ValuesOK'  BY DEF BleTypeOK, ValuesOK, AnyMessage
    <2>3. StateInv'
      BY DEF StateInv, PowerInv, LinkInv, WriteInv, AsBuiltInv, OnlyTrustedStays, GrantNeedsWrite, AnyMessage
    <2> QED BY <2>1, <2>2, <2>3 DEF BleTypeOK, StateInv
  <1>6. CASE ReadSize
    <2> USE <1>6 DEF ReadSize, BleInv
    <2>1. FlagsOK'  BY DEF BleTypeOK, FlagsOK, GateSteps
    <2>2. ValuesOK'  BY DEF BleTypeOK, ValuesOK, AnyMessage
    <2>3. StateInv'
      BY DEF StateInv, PowerInv, LinkInv, WriteInv, AsBuiltInv, OnlyTrustedStays, GrantNeedsWrite, AnyMessage
    <2> QED BY <2>1, <2>2, <2>3 DEF BleTypeOK, StateInv
  <1>7. CASE ReadMsg
    <2> USE <1>7 DEF ReadMsg, BleInv
    <2>1. FlagsOK'  BY DEF BleTypeOK, FlagsOK, GateSteps
    <2>2. ValuesOK'  BY DEF BleTypeOK, ValuesOK, AnyMessage
    <2>3. StateInv'
      BY DEF StateInv, PowerInv, LinkInv, WriteInv, AsBuiltInv, OnlyTrustedStays, GrantNeedsWrite, AnyMessage
    <2> QED BY <2>1, <2>2, <2>3 DEF BleTypeOK, StateInv
  <1>8. CASE LowerFlag
    <2> USE <1>8 DEF LowerFlag, BleInv
    <2>1. FlagsOK'  BY DEF BleTypeOK, FlagsOK, GateSteps
    <2>2. ValuesOK'  BY DEF BleTypeOK, ValuesOK, AnyMessage
    <2>3. StateInv'
      BY DEF StateInv, PowerInv, LinkInv, WriteInv, AsBuiltInv, OnlyTrustedStays, GrantNeedsWrite, AnyMessage
    <2> QED BY <2>1, <2>2, <2>3 DEF BleTypeOK, StateInv
  <1> QED BY <1>1, <1>2, <1>3, <1>4, <1>5, <1>6, <1>7, <1>8 DEF Gate

(* A question begins, power comes and goes. *)
LEMMA PowerCycleInv == ASSUME BleInv, Ask \/ BleContextInit \/ BlePowerOff PROVE BleInv'
  <1> USE DEF prefsVars, mailVars, writeVars, gateVars, linkVars
  <1>1. CASE Ask
    <2> USE <1>1 DEF Ask, BleInv
    <2>1. FlagsOK'  BY DEF BleTypeOK, FlagsOK, GateSteps
    <2>2. ValuesOK'  BY PollsAssumption DEF BleTypeOK, ValuesOK, AnyMessage
    <2>3. StateInv'
      BY DEF StateInv, PowerInv, LinkInv, WriteInv, AsBuiltInv, OnlyTrustedStays, GrantNeedsWrite, AnyMessage
    <2> QED BY <2>1, <2>2, <2>3 DEF BleTypeOK, StateInv
  <1>2. CASE BleContextInit
    <2> USE <1>2 DEF BleContextInit, WipeMail, BleInv
    <2>1. FlagsOK'  BY DEF BleTypeOK, FlagsOK
    <2>2. ValuesOK'  BY DEF BleTypeOK, ValuesOK, AnyMessage
    <2>3. StateInv'
      BY DEF StateInv, PowerInv, LinkInv, WriteInv, AsBuiltInv, OnlyTrustedStays, GrantNeedsWrite, AnyMessage
    <2> QED BY <2>1, <2>2, <2>3 DEF BleTypeOK, StateInv
  <1>3. CASE BlePowerOff
    <2> USE <1>3 DEF BlePowerOff, BleInv
    <2>1. FlagsOK'  BY DEF BleTypeOK, FlagsOK, Stages, HandlerSteps, GateSteps
    <2>2. ValuesOK'  BY PollsAssumption DEF BleTypeOK, ValuesOK, AnyMessage
    <2>3. StateInv'
      BY DEF StateInv, PowerInv, LinkInv, WriteInv, AsBuiltInv, OnlyTrustedStays, GrantNeedsWrite, AnyMessage
    <2> QED BY <2>1, <2>2, <2>3 DEF BleTypeOK, StateInv
  <1> QED BY <1>1, <1>2, <1>3

(* The invariant is inductive. *)
LEMMA BleNextInv == ASSUME BleInv, [BleNext]_bleVars PROVE BleInv'
  <1>1. CASE UNCHANGED bleVars
    <2> USE <1>1 DEF bleVars, prefsVars, mailVars, writeVars, gateVars, linkVars, BleInv
    <2>1. FlagsOK'  BY DEF BleTypeOK, FlagsOK
    <2>2. ValuesOK'  BY DEF BleTypeOK, ValuesOK, AnyMessage
    <2>3. StateInv'
      BY DEF StateInv, PowerInv, LinkInv, WriteInv, AsBuiltInv, OnlyTrustedStays, GrantNeedsWrite, AnyMessage
    <2> QED BY <2>1, <2>2, <2>3 DEF BleTypeOK, StateInv
  <1>2. CASE BleNext
    BY <1>2, RadioInv, HostTaskInv, GateInv, PowerCycleInv DEF BleNext
  <1> QED BY <1>1, <1>2

(* The invariant holds of every reachable state, for any number of peers,  *)
(* messages and polls, with and without the write callback.                *)
THEOREM BleInvariant == BleSpec => []BleInv
  <1>1. BleInit => BleInv  BY BleInitInv
  <1>2. BleInv /\ [BleNext]_bleVars => BleInv'  BY BleNextInv
  <1> QED BY <1>1, <1>2, PTL DEF BleSpec

-----------------------------------------------------------------------------
(* Type correctness of the phone link (ble_context.cpp, ble_phone.cpp),    *)
(* the clock of the wait within its timeout.                               *)
THEOREM BleTypeCorrect == BleSpec => []BleTypeOK
  <1>1. BleInv => BleTypeOK  BY DEF BleInv
  <1> QED BY <1>1, BleInvariant, PTL

(* Whoever connects, bonds, is rejected or comes back after a boot, the    *)
(* only peer onAuthenticationComplete lets stay is the trusted one.        *)
THEOREM TrustHolds == BleSpec => []OnlyTrustedStays
  <1>1. BleInv => OnlyTrustedStays  BY DEF BleInv
  <1> QED BY <1>1, BleInvariant, PTL

(* ble_wait_for_response succeeds only on a non-empty message written      *)
(* since boot, at whatever point of onWrite it polls and reads.            *)
THEOREM GrantsAreWritten == BleSpec => []GrantNeedsWrite
  <1>1. BleInv => GrantNeedsWrite  BY DEF BleInv
  <1> QED BY <1>1, BleInvariant, PTL

(* Without the callback that ble_context_init leaves out, no question is   *)
(* ever granted, whatever the phones do.                                   *)
THEOREM NeverGrantsAsBuilt == BleSpec => []AsBuiltNeverGrants
  <1>1. BleInv => AsBuiltNeverGrants  BY DEF BleInv, AsBuiltInv, AsBuiltNeverGrants
  <1> QED BY <1>1, BleInvariant, PTL
=============================================================================
