----------------------------- MODULE PhoneScan -----------------------------
(***************************************************************************)
(* The phone app: SimpleBLEManager.swift under src/mobile-app/.  It scans  *)
(* for the key, notifies its user when it hears it, rests for a cool-down  *)
(* and scans again.                                                        *)
(*                                                                         *)
(* CoreBluetooth puts its calls on the app's main queue, where one at a    *)
(* time is run; Bluetooth is switched, the key comes and goes, and the     *)
(* system ends and restarts the app between any two of them.  Time is left *)
(* out: a cool-down ends at any moment.                                    *)
(***************************************************************************)
EXTENDS Naturals, Sequences

CONSTANT MaxEvents  \* bound of the model: calls waiting on the main queue
ASSUME EventsAssumption == MaxEvents \in Nat \ {0, 1}

VARIABLES
  poweredOn,     \* centralManager.state (external)
  scanning,      \* the system scans on behalf of the app (external)
  near,          \* the key advertises within range (external)
  running,       \* the app has been started and not ended (external)
  queue,         \* delegate calls on the main queue (external)
  isScanning,
  isDeviceFound,
  cooldowns,     \* blocks that asyncAfter has yet to run
  prompted       \* the last step has notified the user

outside == <<poweredOn, scanning, near, running>>
fields == <<isScanning, isDeviceFound, cooldowns>>
Silent == prompted' = FALSE
scanVars == <<outside, queue, fields, prompted>>

-----------------------------------------------------------------------------
(* Bluetooth, the key and the system (external).  A call is on its way     *)
(* whenever Bluetooth is switched; a scan ends with Bluetooth.             *)
Calls(event) == Append(queue, event)

Switch ==
  /\ Len(queue) < MaxEvents
  /\ poweredOn' = ~poweredOn /\ scanning' = FALSE
  /\ queue' = IF running THEN Calls("didUpdateState") ELSE queue
  /\ Silent /\ UNCHANGED <<near, running, fields>>

KeyMoves == near' = ~near /\ Silent /\ UNCHANGED <<poweredOn, scanning, running, queue, fields>>

(* Duplicates are reported, one for each advertisement.                    *)
Advertise ==
  /\ running /\ scanning /\ near /\ Len(queue) < MaxEvents
  /\ queue' = Calls("didDiscover")
  /\ Silent /\ UNCHANGED <<outside, fields>>

(* The app is ended; a scan goes on if it was the system that ended it.    *)
End ==
  /\ running /\ running' = FALSE
  /\ \E goes_on \in BOOLEAN : scanning' = (scanning /\ goes_on)
  /\ queue' = << >> /\ cooldowns' = 0
  /\ Silent /\ UNCHANGED <<poweredOn, near, isScanning, isDeviceFound>>

-----------------------------------------------------------------------------
(* init: a new manager, which is told the state of Bluetooth. *)
Launch ==
  /\ ~running /\ running' = TRUE
  /\ queue' = <<"didUpdateState">>
  /\ isScanning' = FALSE /\ isDeviceFound' = FALSE
  /\ Silent /\ UNCHANGED <<poweredOn, scanning, near, cooldowns>>

(* May a scan start?  The mutant does not look at the state.               *)
NotScanning == ~isScanning
MayScan == poweredOn /\ ~isScanning
startScan ==
  IF MayScan THEN scanning' = TRUE /\ isScanning' = TRUE
  ELSE UNCHANGED <<scanning, isScanning>>

stopScan == scanning' = FALSE /\ isScanning' = FALSE

Delivered(event) ==
  /\ running /\ queue # << >> /\ Head(queue) = event
  /\ queue' = Tail(queue)
  /\ UNCHANGED <<poweredOn, near, running>>

(* centralManagerDidUpdateState *)
DidUpdateState ==
  /\ Delivered("didUpdateState")
  /\ IF poweredOn THEN startScan ELSE UNCHANGED <<scanning, isScanning>>
  /\ Silent /\ UNCHANGED <<isDeviceFound, cooldowns>>

(* Is this report to be ignored?  The mutant ignores none. *)
NeverIgnored == FALSE
Ignored == isDeviceFound

(* centralManager(_:didDiscover:...) *)
DidDiscover ==
  /\ Delivered("didDiscover")
  /\ IF Ignored THEN UNCHANGED <<scanning, fields>>
     ELSE /\ isDeviceFound' = TRUE /\ stopScan
          /\ cooldowns' = cooldowns + 1
  /\ prompted' = ~Ignored

(* The block of asyncAfter.  The mutant only starts the scan.              *)
StillFound == isDeviceFound
FoundAfter == FALSE
CooldownOver ==
  /\ running /\ cooldowns > 0
  /\ cooldowns' = cooldowns - 1
  /\ isDeviceFound' = FoundAfter /\ startScan
  /\ Silent /\ UNCHANGED <<poweredOn, near, running, queue>>

-----------------------------------------------------------------------------
ScanInit ==
  /\ poweredOn \in BOOLEAN /\ near \in BOOLEAN
  /\ scanning = FALSE /\ running = FALSE /\ queue = << >>
  /\ isScanning = FALSE /\ isDeviceFound = FALSE /\ cooldowns = 0
  /\ prompted = FALSE

ScanNext ==
  \/ Switch \/ KeyMoves \/ Advertise \/ End
  \/ Launch \/ DidUpdateState \/ DidDiscover \/ CooldownOver

ScanSpec == ScanInit /\ [][ScanNext]_scanVars

(* The main queue is served, cool-downs end, and a scan hears a key that   *)
(* stays near.  Nothing is asked of Bluetooth, of the key or of the system.*)
ScanFairSpec ==
  /\ ScanSpec
  /\ WF_scanVars(DidDiscover \/ DidUpdateState)
  /\ WF_scanVars(CooldownOver) /\ WF_scanVars(Advertise)

-----------------------------------------------------------------------------
ScanTypeOK ==
  /\ poweredOn \in BOOLEAN /\ scanning \in BOOLEAN /\ near \in BOOLEAN /\ running \in BOOLEAN
  /\ queue \in Seq({"didUpdateState", "didDiscover"}) /\ Len(queue) <= MaxEvents
  /\ isScanning \in BOOLEAN /\ isDeviceFound \in BOOLEAN /\ cooldowns \in Nat
  /\ prompted \in BOOLEAN
  /\ scanning => poweredOn

(* While the app runs it is at rest after each notification: one comes only*)
(* when no cool-down is pending, and starts the one there is, however many *)
(* reports were on their way and however often Bluetooth was switched.     *)
(* What is pending goes with the app: launched anew, it may notify at once.*)
RestsAfterPrompt == [][prompted' => cooldowns = 0 /\ cooldowns' = 1]_scanVars

(* The app believes in a scan that the system has ended.                   *)
Stuck == isScanning /\ ~scanning

(* While the app runs next to a key with Bluetooth on, it prompts again    *)
(* and again, unless Bluetooth went off under a scan.                      *)
PromptsUnlessStuck ==
  <>[](running /\ poweredOn /\ near) => []<>prompted \/ <>[]Stuck

-----------------------------------------------------------------------------
(* SimpleBLEManager.swift:27: a cool-down allows for continuous prompting. *)
ContinuousPrompting == <>[](running /\ poweredOn /\ near) => []<>prompted
=============================================================================
