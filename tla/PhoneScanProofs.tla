-------------------------- MODULE PhoneScanProofs --------------------------
(* Theorems about PhoneScan, for any number of calls on the main queue.    *)
EXTENDS PhoneScan, SequenceTheorems, TLAPS

Event == {"didUpdateState", "didDiscover"}

(* A cool-down runs exactly while the key counts as found; with the app    *)
(* its blocks are gone.                                                    *)
Cooldowns == cooldowns = IF running /\ isDeviceFound THEN 1 ELSE 0
ScanInv == ScanTypeOK /\ Cooldowns

LEMMA QueueStarts ==
  /\ << >> \in Seq(Event) /\ Len(<< >>) <= MaxEvents
  /\ \A e \in Event : <<e>> \in Seq(Event) /\ Len(<<e>>) <= MaxEvents
BY EventsAssumption

LEMMA InitScanInv == ScanInit => ScanInv
<1> SUFFICES ASSUME ScanInit PROVE ScanInv
  OBVIOUS
<1>1. queue \in Seq(Event) /\ Len(queue) <= MaxEvents
  BY QueueStarts DEF ScanInit
<1>2. cooldowns \in Nat /\ Cooldowns
  BY DEF ScanInit, Cooldowns
<1> QED BY <1>1, <1>2 DEF ScanInit, ScanInv, ScanTypeOK, Event

(* A call put on the queue, and one taken from it, leave it a queue.       *)
LEMMA QueueGrows ==
  ASSUME NEW q \in Seq(Event), Len(q) < MaxEvents, NEW e \in Event
  PROVE  Append(q, e) \in Seq(Event) /\ Len(Append(q, e)) <= MaxEvents
BY EventsAssumption

LEMMA QueueShrinks ==
  ASSUME NEW q \in Seq(Event), Len(q) <= MaxEvents, q # << >>
  PROVE  Tail(q) \in Seq(Event) /\ Len(Tail(q)) <= MaxEvents
BY EventsAssumption

LEMMA ScanInvKept == ScanInv /\ [ScanNext]_scanVars => ScanInv'
<1> SUFFICES ASSUME ScanInv, [ScanNext]_scanVars PROVE ScanInv'
  OBVIOUS
<1> USE DEF ScanInv, ScanTypeOK, Cooldowns, outside, fields, Silent
<1>q. queue \in Seq(Event) /\ Len(queue) <= MaxEvents
  BY DEF Event
<1>e. "didUpdateState" \in Event /\ "didDiscover" \in Event
  BY DEF Event
<1>1. CASE Switch
  <2>1. queue' \in Seq(Event) /\ Len(queue') <= MaxEvents
    BY <1>1, <1>q, <1>e, QueueGrows DEF Switch, Calls
  <2> QED BY <1>1, <2>1 DEF Switch, Event
<1>2. CASE KeyMoves
  BY <1>2 DEF KeyMoves
<1>3. CASE Advertise
  <2>1. queue' \in Seq(Event) /\ Len(queue') <= MaxEvents
    BY <1>3, <1>q, <1>e, QueueGrows DEF Advertise, Calls
  <2> QED BY <1>3, <2>1 DEF Advertise, Event
<1>4. CASE End
  <2>1. queue' \in Seq(Event) /\ Len(queue') <= MaxEvents
    BY <1>4, QueueStarts DEF End
  <2>2. scanning' \in BOOLEAN /\ (scanning' => poweredOn')
    BY <1>4 DEF End
  <2> QED BY <1>4, <2>1, <2>2 DEF End, Event
<1>5. CASE Launch
  <2>1. queue' \in Seq(Event) /\ Len(queue') <= MaxEvents
    BY <1>5, <1>e, QueueStarts DEF Launch
  <2> QED BY <1>5, <2>1 DEF Launch, Event
<1>6. ASSUME NEW e, Delivered(e) PROVE queue' \in Seq(Event) /\ Len(queue') <= MaxEvents
  BY <1>6, <1>q, QueueShrinks DEF Delivered
<1>7. CASE DidUpdateState
  <2>1. queue' \in Seq(Event) /\ Len(queue') <= MaxEvents
    BY <1>6, <1>7 DEF DidUpdateState
  <2> QED BY <1>7, <2>1 DEF DidUpdateState, Delivered, startScan, MayScan, Event
<1>8. CASE DidDiscover
  <2>1. queue' \in Seq(Event) /\ Len(queue') <= MaxEvents
    BY <1>6, <1>8 DEF DidDiscover
  <2>2. prompted' \in BOOLEAN
    BY <1>8 DEF DidDiscover, Ignored
  <2>3. CASE isDeviceFound
    BY <1>8, <2>1, <2>2, <2>3 DEF DidDiscover, Delivered, Ignored, Event
  <2>4. CASE ~isDeviceFound
    <3>1. isDeviceFound' = TRUE /\ scanning' = FALSE /\ isScanning' = FALSE
      BY <1>8, <2>4 DEF DidDiscover, Ignored, stopScan
    <3>2. running /\ UNCHANGED <<poweredOn, near, running>>
      BY <1>8 DEF DidDiscover, Delivered
    <3>3. cooldowns = 0 /\ cooldowns' = cooldowns + 1
      BY <1>8, <2>4 DEF DidDiscover, Ignored
    <3>4. cooldowns' \in Nat /\ Cooldowns'
      BY <3>1, <3>2, <3>3
    <3> QED BY <2>1, <2>2, <3>1, <3>2, <3>4 DEF Event
  <2> QED BY <2>3, <2>4
<1>9. CASE CooldownOver
  <2>1. cooldowns = 1 /\ cooldowns' = 0 /\ ~isDeviceFound'
    BY <1>9 DEF CooldownOver, FoundAfter
  <2>2. Cooldowns'
    BY <2>1
  <2>3. scanning' \in BOOLEAN /\ isScanning' \in BOOLEAN /\ (scanning' => poweredOn)
    <3>1. CASE MayScan
      BY <1>9, <3>1 DEF CooldownOver, startScan, MayScan
    <3>2. CASE ~MayScan
      BY <1>9, <3>2 DEF CooldownOver, startScan
    <3> QED BY <3>1, <3>2
  <2>4. UNCHANGED <<poweredOn, near, running, queue>> /\ prompted' = FALSE
    BY <1>9 DEF CooldownOver
  <2>5. isDeviceFound' \in BOOLEAN
    BY <1>9 DEF CooldownOver, FoundAfter
  <2>6. queue' \in Seq(Event) /\ Len(queue') <= MaxEvents
    BY <1>q, <2>4
  <2>7. /\ poweredOn' \in BOOLEAN /\ near' \in BOOLEAN /\ running' \in BOOLEAN
        /\ prompted' \in BOOLEAN /\ (scanning' => poweredOn')
    BY <2>3, <2>4
  <2> QED BY <2>1, <2>2, <2>3, <2>5, <2>6, <2>7 DEF Event
<1>10. CASE UNCHANGED scanVars
  BY <1>10 DEF scanVars
<1> QED
  BY <1>1, <1>2, <1>3, <1>4, <1>5, <1>7, <1>8, <1>9, <1>10 DEF ScanNext

LEMMA ScanInvariant == ScanSpec => []ScanInv
BY InitScanInv, ScanInvKept, PTL DEF ScanSpec

(* The scanner keeps its state of its types, and the system scans for the  *)
(* app only with Bluetooth on.                                             *)
THEOREM ScanTypeCorrect == ScanSpec => []ScanTypeOK
<1>1. ScanInv => ScanTypeOK
  BY DEF ScanInv
<1> QED BY <1>1, ScanInvariant, PTL

(* As long as the app is not ended, a cool-down lies between any two of    *)
(* its notifications, however many reports are on their way when the first *)
(* is handled, and whatever happens to Bluetooth.                          *)
THEOREM RestsBetweenPrompts == ScanSpec => RestsAfterPrompt
<1>1. ScanInv /\ [ScanNext]_scanVars => [prompted' => cooldowns = 0 /\ cooldowns' = 1]_scanVars
  <2>1. SUFFICES ASSUME ScanInv, ScanNext, prompted' PROVE cooldowns = 0 /\ cooldowns' = 1
    BY DEF scanVars
  <2>2. DidDiscover
    BY <2>1 DEF ScanNext, Switch, KeyMoves, Advertise, End, Launch, DidUpdateState, CooldownOver, Silent
  <2>3. running /\ ~isDeviceFound /\ cooldowns' = cooldowns + 1
    BY <2>1, <2>2 DEF DidDiscover, Delivered, Ignored
  <2> QED BY <2>1, <2>3 DEF ScanInv, Cooldowns
<1> QED BY <1>1, ScanInvariant, PTL DEF ScanSpec, RestsAfterPrompt
=============================================================================
