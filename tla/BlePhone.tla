------------------------------ MODULE BlePhone ------------------------------
(***************************************************************************)
(* The phone link: src/firmware/main/ble_context.cpp, ble_keypr.cpp and    *)
(* ble_phone.cpp.                                                          *)
(*                                                                         *)
(* Two tasks of the firmware meet here.  The NimBLE host task runs the     *)
(* connection callbacks and the write callback, one at a time.  The loop   *)
(* task asks the phone (ble_send) and polls for its answer                 *)
(* (ble_wait_for_response) inside getAssertion.  They share the flash      *)
(* namespace "ble" and the value of the one characteristic, with no lock:  *)
(* every access to either is a step of its own.                            *)
(*                                                                         *)
(* ble_context_init never registers the write callback: `installed' is     *)
(* FALSE for the firmware as built.  TRUE is the same code with the        *)
(* callback class of ble_phone.cpp in use.  It never changes.              *)
(***************************************************************************)
EXTENDS Naturals, FiniteSets

CONSTANTS Peers,                  \* BLE centrals in range (address type and value)
          NoPeer,                 \* no address
          Messages,               \* values a peer may write
          Deny,                   \* a message whose first byte is 0x41
          Challenge,              \* the question "0"
          NoMessage,              \* the key "msg" is absent; not a message
          Length(_),              \* length of a message in bytes
          Polls,                  \* polls before the timeout: 50 (5000 ms, one each 100 ms)
          Builds                  \* values `installed' may have

(* The bytes of getAssertion's buf.  Its length is not handed on: a longer *)
(* message would be copied past its end, and peers are taken to write none.*)
BUF_LEN == 32

ASSUME PeerAssumption == NoPeer \notin Peers
ASSUME MessageAssumption ==
  /\ Challenge \notin Messages /\ NoMessage \notin Messages \cup {Challenge}
  /\ Deny \in Messages
  /\ \A m \in Messages \cup {Challenge} : Length(m) \in 0 .. BUF_LEN
  /\ Length(Challenge) > 0 /\ Length(Deny) > 0
ASSUME PollsAssumption == Polls \in Nat \ {0}
ASSUME BuildsAssumption == Builds \subseteq BOOLEAN

VARIABLES
  installed,        \* the write callback is registered
  powered,          \* ble_context_init has run and power is on
  \* the radio and the NimBLE stack (external)
  link,             \* the peer of the one connection, or NoPeer
  air,              \* the connection is up on the air
  stage,            \* progress of the host task with it: the callback to come
  advertising,
  bonds,            \* peers with a stored bond; survive power loss
  \* flash namespace "ble", cleared at boot, and RAM of ble_context.cpp
  t_connected, has_trusted, mac,
  newMsg, msg_size, msg,
  phone_connected,
  \* the characteristic and the write callback
  value,            \* value of pCharacteristic
  handler,          \* step of onWrite the host task is at
  message,          \* its local
  \* the loop task inside getAssertion
  gate,             \* step of ble_send / ble_wait_for_response
  clock,            \* polls made by the wait that is on
  size, buf,        \* what ble_wait_for_response has read
  wrote             \* history: a peer has written since boot

linkVars == <<link, air, stage, advertising, bonds>>
prefsVars == <<t_connected, has_trusted, mac, phone_connected>>
mailVars == <<newMsg, msg_size, msg>>
writeVars == <<value, handler, message>>
gateVars == <<gate, clock, size, buf>>
bleVars == <<installed, powered, linkVars, prefsVars, mailVars, writeVars, gateVars, wrote>>

AnyMessage == Messages \cup {Challenge}
Stages == {"none", "connected", "securing", "open", "closing"}
HandlerSteps == {"none", "read", "size", "msg", "flag"}
GateSteps == {"idle", "send", "set", "indicate", "poll", "check", "size", "msg", "lower",
              "granted", "denied"}

-----------------------------------------------------------------------------
(* The radio and the stack. *)

(* One connection at a time: the stack stops advertising when it is made.  *)
PeerConnects(p) ==
  /\ powered /\ advertising /\ stage = "none"
  /\ link' = p /\ air' = TRUE /\ stage' = "connected" /\ advertising' = FALSE
  /\ UNCHANGED <<installed, powered, bonds, prefsVars, mailVars, writeVars, gateVars, wrote>>

(* The peer leaves, goes out of range, or the disconnect the firmware      *)
(* asked for takes effect.  The callback runs later.                       *)
LinkDrops ==
  /\ powered /\ air
  /\ air' = FALSE
  /\ UNCHANGED <<installed, powered, link, stage, advertising, bonds, prefsVars, mailVars, writeVars, gateVars, wrote>>

-----------------------------------------------------------------------------
(* The connection callbacks, run by the host task when it is free. *)
HostFree == powered /\ handler = "none"

OnConnect ==
  /\ HostFree /\ stage = "connected"
  /\ phone_connected' = TRUE /\ t_connected' = TRUE
  /\ stage' = "securing"
  /\ UNCHANGED <<installed, powered, link, air, advertising, bonds, has_trusted, mac,
                 mailVars, writeVars, gateVars, wrote>>

(* The peer is not the trusted one.  The mutant leaves the comparison of   *)
(* the address out (the TODO of line 68).                                  *)
NoStranger == FALSE
Stranger == has_trusted /\ link # mac

(* A peer that does not bond, or is not the trusted one, is disconnected;  *)
(* t_connected is saved and put back around it, which leaves it as it was. *)
(* The first peer that bonds after boot becomes the trusted one.           *)
OnAuthenticationComplete(bonded) ==
  /\ HostFree /\ stage = "securing"
  /\ IF ~bonded
     THEN stage' = "closing" /\ UNCHANGED <<bonds, has_trusted, mac>>
     ELSE IF Stranger
     THEN stage' = "closing" /\ bonds' = bonds \ {link} /\ UNCHANGED <<has_trusted, mac>>
     ELSE stage' = "open" /\ bonds' = bonds \cup {link} /\ has_trusted' = TRUE
          /\ mac' = IF has_trusted THEN mac ELSE link
  /\ UNCHANGED <<installed, powered, link, air, advertising, t_connected, phone_connected,
                 mailVars, writeVars, gateVars, wrote>>

(* startAdvertising, on which the mutant gives up. *)
StaySilent == UNCHANGED advertising
StartAdvertising == advertising' = TRUE

OnDisconnect ==
  /\ HostFree /\ ~air /\ stage \in {"securing", "open", "closing"}
  /\ t_connected' = FALSE /\ phone_connected' = FALSE
  /\ link' = NoPeer /\ stage' = "none" /\ StartAdvertising
  /\ UNCHANGED <<installed, powered, air, bonds, has_trusted, mac, mailVars, writeVars, gateVars, wrote>>

-----------------------------------------------------------------------------
(* A peer writes the characteristic: the stack takes the value and then    *)
(* runs onWrite, which reads it back and stores it in three flash writes.  *)
PeerWrites(m) ==
  /\ HostFree /\ air /\ stage # "connected"
  /\ value' = m /\ wrote' = TRUE
  /\ handler' = IF installed THEN "read" ELSE "none"
  /\ UNCHANGED <<installed, powered, linkVars, prefsVars, mailVars, message, gateVars>>

OnWrite ==
  /\ powered
  /\ \/ /\ handler = "read" /\ handler' = "size"
        /\ message' = value
        /\ UNCHANGED mailVars
     \/ /\ handler = "size" /\ handler' = "msg"
        /\ msg_size' = Length(message)
        /\ UNCHANGED <<newMsg, msg, message>>
     \/ /\ handler = "msg" /\ handler' = "flag"
        /\ msg' = IF Length(message) = 0 THEN msg ELSE message   \* putBytes stores no empty blob
        /\ UNCHANGED <<newMsg, msg_size, message>>
     \/ /\ handler = "flag" /\ handler' = "none"
        /\ newMsg' = TRUE /\ message' = NoMessage
        /\ UNCHANGED <<msg_size, msg>>
  /\ UNCHANGED <<installed, powered, linkVars, prefsVars, value, gateVars, wrote>>

-----------------------------------------------------------------------------
(* ble_send, then ble_wait_for_response, in the loop task. *)
Ask ==
  /\ powered /\ gate \in {"idle", "granted", "denied"}
  /\ gate' = "send" /\ clock' = 0 /\ size' = 0 /\ buf' = NoMessage
  /\ UNCHANGED <<installed, powered, linkVars, prefsVars, mailVars, writeVars, wrote>>

GateStep(from, to) ==
  /\ powered /\ gate = from /\ gate' = to
  /\ UNCHANGED <<installed, powered, linkVars, prefsVars, msg_size, msg, handler, message, wrote>>

CheckConnected ==
  /\ GateStep("send", IF t_connected THEN "set" ELSE "denied")
  /\ UNCHANGED <<newMsg, value, clock, size, buf>>

SetValue ==
  /\ GateStep("set", "indicate")
  /\ value' = Challenge
  /\ UNCHANGED <<newMsg, clock, size, buf>>

(* The indication reaches a subscribed peer or nobody: no result is read.  *)
Indicate ==
  /\ GateStep("indicate", "poll")
  /\ UNCHANGED <<newMsg, value, clock, size, buf>>

(* The clock of the wait and its limit.  One mutant does not advance it,   *)
(* the other polls until there is an answer.                               *)
StandStill == clock
Advanced == clock + 1
Never == FALSE
TimedOut == clock = Polls

Poll ==
  /\ IF newMsg \/ TimedOut
     THEN GateStep("poll", "check") /\ clock' = 0
     ELSE GateStep("poll", "poll") /\ clock' = Advanced
  /\ UNCHANGED <<newMsg, value, size, buf>>

(* What the wait returns when no answer came.  The mutant takes silence    *)
(* for consent.                                                            *)
Consent == "granted"
Silence == "denied"

CheckNewMsg ==
  /\ GateStep("check", IF newMsg THEN "size" ELSE Silence)
  /\ UNCHANGED <<newMsg, value, clock, size, buf>>

ReadSize ==
  /\ GateStep("size", IF msg_size = 0 THEN "denied" ELSE "msg")
  /\ size' = msg_size
  /\ UNCHANGED <<newMsg, value, clock, buf>>

(* getBytes reads nothing when the key is absent or its blob is longer     *)
(* than the size asked for.                                                *)
ReadMsg ==
  /\ LET read == msg # NoMessage /\ Length(msg) <= size
     IN /\ GateStep("msg", IF read THEN "lower" ELSE "denied")
        /\ buf' = IF read THEN msg ELSE buf
  /\ size' = 0   \* a local that is not read again
  /\ UNCHANGED <<newMsg, value, clock>>

(* The flag is written TRUE, not FALSE, before the answer decides. *)
LowerFlag ==
  /\ GateStep("lower", IF buf = Deny THEN "denied" ELSE "granted")
  /\ newMsg' = TRUE
  /\ UNCHANGED <<value, clock, size, buf>>

Gate == \/ CheckConnected \/ SetValue \/ Indicate \/ Poll \/ CheckNewMsg
        \/ ReadSize \/ ReadMsg \/ LowerFlag

-----------------------------------------------------------------------------
(* The namespace is wiped, which the mutant leaves out. *)
KeepMail == UNCHANGED mailVars
WipeMail == newMsg' = FALSE /\ msg_size' = 0 /\ msg' = NoMessage

(* ble_context_init wipes the namespace at boot; bonds are kept.  The      *)
(* characteristic gets a name for a value, which is no message of a peer.  *)
BleContextInit ==
  /\ ~powered
  /\ powered' = TRUE
  /\ t_connected' = FALSE /\ has_trusted' = FALSE /\ mac' = NoPeer
  /\ WipeMail
  /\ value' = NoMessage
  /\ advertising' = TRUE /\ wrote' = FALSE
  /\ UNCHANGED <<installed, link, air, stage, bonds, phone_connected, handler, message, gateVars>>

BlePowerOff ==
  /\ powered
  /\ powered' = FALSE
  /\ link' = NoPeer /\ air' = FALSE /\ stage' = "none" /\ advertising' = FALSE
  /\ phone_connected' = FALSE
  /\ handler' = "none" /\ message' = NoMessage
  /\ gate' = "idle" /\ clock' = 0 /\ size' = 0 /\ buf' = NoMessage
  /\ UNCHANGED <<installed, bonds, t_connected, has_trusted, mac, mailVars, value, wrote>>

BleInit ==
  /\ installed \in Builds
  /\ powered = FALSE
  /\ link = NoPeer /\ air = FALSE /\ stage = "none" /\ advertising = FALSE /\ bonds = {}
  /\ t_connected = FALSE /\ has_trusted = FALSE /\ mac = NoPeer /\ phone_connected = FALSE
  /\ newMsg = FALSE /\ msg_size = 0 /\ msg = NoMessage
  /\ value = NoMessage /\ handler = "none" /\ message = NoMessage
  /\ gate = "idle" /\ clock = 0 /\ size = 0 /\ buf = NoMessage
  /\ wrote = FALSE

HostTask == \/ OnConnect \/ OnDisconnect \/ OnWrite
            \/ \E bonded \in BOOLEAN : OnAuthenticationComplete(bonded)
Radio == \/ LinkDrops
         \/ \E p \in Peers : PeerConnects(p)
         \/ \E m \in Messages : PeerWrites(m)

BleNext == HostTask \/ Radio \/ Ask \/ Gate \/ BleContextInit \/ BlePowerOff

BleSpec == BleInit /\ [][BleNext]_bleVars

(* Both tasks are scheduled, and a disconnect that was asked for happens.  *)
BleFairness ==
  /\ WF_bleVars(HostTask)
  /\ WF_bleVars(Gate)
  /\ WF_bleVars(stage = "closing" /\ LinkDrops)

BleFairSpec == BleSpec /\ BleFairness

-----------------------------------------------------------------------------
FlagsOK ==
  /\ installed \in BOOLEAN /\ powered \in BOOLEAN /\ air \in BOOLEAN /\ advertising \in BOOLEAN
  /\ t_connected \in BOOLEAN /\ has_trusted \in BOOLEAN /\ phone_connected \in BOOLEAN
  /\ newMsg \in BOOLEAN /\ wrote \in BOOLEAN
  /\ stage \in Stages /\ handler \in HandlerSteps /\ gate \in GateSteps
ValuesOK ==
  /\ link \in Peers \cup {NoPeer} /\ mac \in Peers \cup {NoPeer} /\ bonds \subseteq Peers
  /\ msg \in AnyMessage \cup {NoMessage} /\ buf \in AnyMessage \cup {NoMessage}
  /\ value \in AnyMessage \cup {NoMessage} /\ message \in AnyMessage \cup {NoMessage}
  /\ msg_size \in Nat /\ size \in Nat /\ clock \in 0 .. Polls

(* Types; the wait makes no more than its number of polls. *)
BleTypeOK == FlagsOK /\ ValuesOK

(* Only the peer trusted since boot is ever taken through authentication:  *)
(* any other is on its way out, whichever bonds survived the last boot.    *)
OnlyTrustedStays == stage = "open" => has_trusted /\ link = mac

(* A question is granted only on a non-empty message some peer wrote since *)
(* boot: not on the flag, size or blob of a former boot, nor on a write of *)
(* which onWrite has done a part, nor on an empty one after a full one.    *)
GrantNeedsWrite ==
  gate \in {"lower", "granted"} => wrote /\ buf # NoMessage /\ Length(buf) > 0

(* As built, no answer ever gets through. *)
AsBuiltNeverGrants == ~installed => gate # "granted"

(* The wait ends, whatever the phone does. *)
GateEnds == gate = "send" ~> gate \in {"granted", "denied", "idle"}

(* A rejected peer is dropped and the next phone can connect. *)
RejectedIsDropped == stage = "closing" ~> (~powered \/ (stage = "none" /\ advertising))

(* src/firmware/README.md:66-71: with the phone connected and answering,   *)
(* login ends in "Authenticated".                                          *)
LoginSucceeds ==
  []<>(gate = "poll" /\ air /\ stage = "open" /\ value \in Messages \ {Deny} /\ Length(value) > 0)
    => <>(gate = "granted")
=============================================================================
