------------------------- MODULE DeviceTrackerProofs -------------------------
(* Proofs about DeviceTracker for every set of devices, every length of the  *)
(* grace periods and every bound.                                            *)
EXTENDS DeviceTracker, TLAPS

Up == {"new", "online"}
InPass == stage \in {"seen", "stale"}
Unvisited(d) == stage = "seen" /\ d \in todo
Visited(d) == InPass /\ d \in present /\ ~Unvisited(d)
Based == baselined \/ (InPass /\ tick <= 1)

\* Where the locals of a pass and the two views of the tables stand.
PassShape ==
  /\ ~InPass => work = db
  /\ stage = "seen" => todo \subseteq present
  /\ stage = "stale" => todo \cap present = {}
  /\ \A d \in Devices : sighted[d] <= tick
  /\ InPass => \A d \in present : sighted[d] = tick

\* What the pass has written and not committed is a silent move of each device,
\* and no move at all of a device it still has to visit.
PendingMoves ==
  \A d \in Devices :
    /\ Lifecycle!Silent(db[d].status, work[d].status)
    /\ InPass /\ d \in todo => work[d].status = db[d].status
    /\ stage = "seen" /\ d \notin present => work[d].status = db[d].status

\* The rows keep up with the evidence, unless a pass was abandoned.
RowsKeepUp ==
  \A d \in Devices :
    /\ Visited(d) => work[d].status \in Up /\ work[d].seen = tick
    /\ d \notin missed /\ work[d].status \in Up /\ ~Unvisited(d)
         => sighted[d] <= work[d].seen
    /\ d \notin missed /\ db[d].status \in Up /\ ~(InPass /\ d \in present)
         => sighted[d] <= db[d].seen
    /\ d \notin missed /\ work[d].status = "offline" /\ db[d].status # "offline"
         => sighted[d] + OfflineGraceTicks <= tick
    /\ stage = "stale" /\ d \in todo => IsStale(d)

\* After the baseline no row runs ahead of the evidence, and the stale walk
\* leaves no stale device behind.
RowsNotAhead ==
  \A d \in Devices :
    /\ Based /\ HasRow(d) => work[d].seen <= LastSign(d)
    /\ baselined /\ db[d].status # "unknown" => db[d].seen <= LastSign(d)
    /\ stage = "stale" /\ d \notin todo /\ work[d].status \in Up
         => tick < work[d].seen + OfflineGraceTicks

IInv == TypeOK /\ PassShape /\ PendingMoves /\ RowsKeepUp /\ RowsNotAhead

-----------------------------------------------------------------------------
(* Types.  The provers take numbers and Boolean variables better apart.      *)

Counters ==
  /\ tick \in 0 .. MaxTick
  /\ uptime \in 0 .. GraceSleeps
  /\ faults \in 0 .. MaxFaults
  /\ resets \in 0 .. MaxResets
  /\ crashes \in 0 .. MaxCrashes
  /\ sighted \in [Devices -> 0 .. MaxTick]

Tables ==
  /\ db \in [Devices -> Rows]
  /\ work \in [Devices -> Rows]
  /\ told \in [Devices -> Alerts]

Control ==
  /\ population \in {"unchecked", "empty", "populated"}
  /\ stage \in Stages
  /\ heardSince \subseteq Devices
  /\ present \subseteq Devices
  /\ todo \subseteq Devices
  /\ missed \subseteq Devices

Flags ==
  /\ prevKnown \in BOOLEAN
  /\ quiet \in BOOLEAN
  /\ initial \in BOOLEAN
  /\ baselined \in BOOLEAN

\* The four groups of conjuncts make up TypeOK.
LEMMA TypeParts == TypeOK <=> Counters /\ Tables /\ Control /\ Flags
  BY DEF TypeOK, Counters, Tables, Control, Flags

\* The initial state satisfies the inductive invariant.
LEMMA InitIInv == Init => IInv
<1> SUFFICES ASSUME Init PROVE IInv
  OBVIOUS
<1> USE TrackerConstants DEF Init
<1>1. NoRow \in Rows
  BY DEF NoRow, Rows, Statuses
<1>2. TypeOK
  <2>1. Counters
    BY DEF Counters
  <2>2. Tables
    BY <1>1 DEF Tables, Alerts
  <2>3. Control
    BY DEF Control, Stages
  <2>4. Flags
    BY DEF Flags
  <2> QED
    BY <2>1, <2>2, <2>3, <2>4, TypeParts
<1>3. PassShape
  BY DEF PassShape, InPass
<1>4. PendingMoves
  BY DEF PendingMoves, Lifecycle!Silent, InPass
<1>5. RowsKeepUp
  BY DEF RowsKeepUp, NoRow, Up, Visited, InPass
<1>6. RowsNotAhead
  BY DEF RowsNotAhead, NoRow, HasRow, Based, InPass
<1> QED
  BY <1>2, <1>3, <1>4, <1>5, <1>6 DEF IInv

\* The row a device gets when its status and tick are written is a row.
LEMMA RowWrites ==
  ASSUME NEW row \in Rows, NEW s \in Statuses, NEW t \in 0 .. MaxTick
  PROVE  /\ [row EXCEPT !.status = s, !.seen = t] \in Rows
         /\ [row EXCEPT !.seen = t] \in Rows
  BY DEF Rows

\* So is the row of a device whose outage is counted.
LEMMA OutageRows ==
  ASSUME NEW row \in Rows
  PROVE  [row EXCEPT !.status = "offline",
            !.outages = IF @ < FlapThreshold THEN @ + 1 ELSE @] \in Rows
<1>1. (IF row.outages < FlapThreshold THEN row.outages + 1 ELSE row.outages)
        \in 0 .. FlapThreshold
  BY TrackerConstants DEF Rows
<1> QED
  BY <1>1 DEF Rows, Statuses

\* The flapping finding changes nothing else of a row.
LEMMA FlappingRows ==
  ASSUME NEW row \in Rows, NEW next \in CheckFlapping(row)
  PROVE  next \in Rows /\ next.status = row.status /\ next.seen = row.seen
<1>1. CheckFlapping(row) \subseteq {row, [row EXCEPT !.flapping = TRUE]}
  BY DEF CheckFlapping
<1> QED
  BY <1>1 DEF Rows

-----------------------------------------------------------------------------
(* What a visit of the two walks does to the rows, whichever of its branches *)
(* is taken.                                                                 *)

Same(r, s) == r.status = s.status /\ r.seen = s.seen

\* The alert of the visit, with the commit inside it, or no alert at all.
Reports(d) ==
  \/ NoAlert /\ Lifecycle!Silent(work[d].status, work'[d].status)
  \/ /\ \A e \in Devices : Same(db'[e], work'[e])
     /\ db' \in [Devices -> Rows]
     /\ baselined' = (baselined \/ tick <= 1)
     /\ told' \in [Devices -> Alerts]
     /\ \A e \in Devices \ {d} : told'[e] = told[e]
     /\ Lifecycle!Announced(work[d].status, work'[d].status, told'[d])

Visits(d) ==
  /\ work' \in [Devices -> Rows]
  /\ \A e \in Devices \ {d} : work'[e] = work[e]
  /\ d \in todo /\ todo' = todo \ {d}
  /\ UNCHANGED <<tick, process, stage, present, quiet, initial, budget, sighted,
                 missed>>
  /\ Reports(d)

\* A commit of rows together with an alert about d.
LEMMA CommitReports ==
  ASSUME NEW d \in Devices, TypeOK, NEW rows \in [Devices -> Rows],
         NEW alert \in Alerts, CommitWith(rows, d, alert),
         \A e \in Devices : Same(rows[e], work'[e]),
         Lifecycle!Announced(work[d].status, work'[d].status, alert)
  PROVE  Reports(d)
<1>1. db' = rows /\ told' = [told EXCEPT ![d] = alert]
      /\ baselined' = (baselined \/ tick <= 1)
  BY DEF CommitWith
<1>2. told \in [Devices -> Alerts]
  BY DEF TypeOK
<1>3. told' \in [Devices -> Alerts] /\ told'[d] = alert
      /\ \A e \in Devices \ {d} : told'[e] = told[e]
  BY <1>1, <1>2
<1> QED
  BY <1>1, <1>3, Zenon DEF Reports

\* A visit to a present device leaves it up and seen at this tick.
LEMMA SeenVisits ==
  ASSUME TypeOK, NEW d \in Devices, Seen(d)
  PROVE  /\ Visits(d) /\ stage = "seen"
         /\ work'[d].status \in Up /\ work'[d].seen = tick
<1>1. stage = "seen" /\ d \in todo /\ todo' = todo \ {d}
      /\ UNCHANGED <<tick, process, stage, present, quiet, initial, budget,
                     sighted, missed>>
  BY DEF Seen
<1>2. work \in [Devices -> Rows] /\ tick \in 0 .. MaxTick
  BY DEF TypeOK
<1>3. "new" \in Statuses /\ "online" \in Statuses
  BY DEF Statuses
<1>4. "new_device" \in Alerts /\ "device_online" \in Alerts
  BY DEF Alerts
<1>5. CASE SeenNew(d)
  <2> DEFINE row == [work[d] EXCEPT !.status = "new", !.seen = tick]
             rows == [work EXCEPT ![d].status = "new", ![d].seen = tick]
  <2>1. rows = [work EXCEPT ![d] = row]
    BY <1>2
  <2>2. row \in Rows /\ row.status = "new" /\ row.seen = tick
    BY <1>2, <1>3, RowWrites DEF Rows
  <2>3. work' = rows /\ rows \in [Devices -> Rows] /\ rows[d] = row
        /\ \A e \in Devices \ {d} : rows[e] = work[e]
    BY <1>2, <1>5, <2>1, <2>2 DEF SeenNew
  <2>4. CASE initial
    <3>1. NoAlert /\ work[d].status = "unknown"
      BY <1>5, <2>4 DEF SeenNew, HasRow
    <3> QED
      BY <1>1, <2>2, <2>3, <2>4, <3>1
      DEF Visits, Reports, Up, Lifecycle!Silent
  <2>5. CASE ~initial
    <3>1. CommitWith(rows, d, "new_device") /\ work[d].status = "unknown"
      BY <1>5, <2>5 DEF SeenNew, HasRow
    <3>2. Lifecycle!Announced(work[d].status, work'[d].status, "new_device")
      BY <2>2, <2>3, <3>1 DEF Lifecycle!Announced
    <3>3. \A e \in Devices : Same(rows[e], work'[e])
      BY <2>3 DEF Same
    <3>4. Reports(d)
      BY <1>4, <2>3, <3>1, <3>2, <3>3, CommitReports
    <3> QED
      BY <1>1, <2>2, <2>3, <3>4 DEF Visits, Up
  <2> QED
    BY <2>4, <2>5
<1>6. CASE SeenAgain(d)
  <2> DEFINE row == [work[d] EXCEPT !.status = "online", !.seen = tick]
  <2>1. work' = [work EXCEPT ![d] = row]
    BY <1>2, <1>6 DEF SeenAgain
  <2>2. row \in Rows /\ row.status = "online" /\ row.seen = tick
    BY <1>2, <1>3, RowWrites DEF Rows
  <2>3. work' \in [Devices -> Rows] /\ work'[d] = row
        /\ \A e \in Devices \ {d} : work'[e] = work[e]
    BY <1>2, <2>1, <2>2
  <2>4. NoAlert /\ work[d].status \in {"new", "online"}
    BY <1>6 DEF SeenAgain
  <2> QED
    BY <1>1, <2>2, <2>3, <2>4 DEF Visits, Reports, Up, Lifecycle!Silent
<1>7. CASE SeenBack(d)
  <2> DEFINE row == [work[d] EXCEPT !.status = "online", !.seen = tick]
             rows == [work EXCEPT ![d] = row]
  <2>1. row \in Rows /\ row.status = "online" /\ row.seen = tick
    BY <1>2, <1>3, RowWrites DEF Rows
  <2>2. PICK next \in CheckFlapping(row) : work' = [work EXCEPT ![d] = next]
    BY <1>7 DEF SeenBack
  <2>3. next \in Rows /\ next.status = "online" /\ next.seen = tick
    BY <2>1, <2>2, FlappingRows
  <2>4. work' \in [Devices -> Rows] /\ work'[d] = next
        /\ \A e \in Devices \ {d} : work'[e] = work[e]
    BY <1>2, <2>2, <2>3
  <2>5. rows \in [Devices -> Rows] /\ \A e \in Devices : Same(rows[e], work'[e])
    BY <1>2, <2>1, <2>3, <2>4 DEF Same
  <2>6. CASE quiet
    <3>1. NoAlert /\ work[d].status = "offline"
      BY <1>7, <2>6 DEF SeenBack
    <3> QED
      BY <1>1, <2>3, <2>4, <2>6, <3>1
      DEF Visits, Reports, Up, Lifecycle!Silent
  <2>7. CASE ~quiet
    <3>1. CommitWith(rows, d, "device_online") /\ work[d].status = "offline"
      BY <1>7, <2>7 DEF SeenBack
    <3>2. Lifecycle!Announced(work[d].status, work'[d].status, "device_online")
      BY <2>3, <2>4, <3>1 DEF Lifecycle!Announced
    <3>3. Reports(d)
      BY <1>4, <2>5, <3>1, <3>2, CommitReports
    <3> QED
      BY <1>1, <2>3, <2>4, <3>3 DEF Visits, Up
  <2> QED
    BY <2>6, <2>7
<1> QED
  BY <1>5, <1>6, <1>7 DEF Seen

\* A visit to a stale device leaves it offline.
LEMMA StaleVisits ==
  ASSUME TypeOK, NEW d \in Devices, Stale(d), work[d].status \in Up
  PROVE  /\ Visits(d) /\ stage = "stale"
         /\ work'[d].status = "offline" /\ work'[d].seen = work[d].seen
<1> DEFINE row == [work[d] EXCEPT !.status = "offline",
                     !.outages = IF @ < FlapThreshold THEN @ + 1 ELSE @]
           rows == [work EXCEPT ![d] = row]
<1>1. stage = "stale" /\ d \in todo /\ todo' = todo \ {d}
      /\ UNCHANGED <<tick, process, stage, present, quiet, initial, budget,
                     sighted, missed>>
  BY DEF Stale
<1>2. work \in [Devices -> Rows] /\ tick \in 0 .. MaxTick
  BY DEF TypeOK
<1>3. "device_offline" \in Alerts
  BY DEF Alerts
<1>4. row \in Rows
  BY <1>2, OutageRows
<1> HIDE DEF row
<1>5. row.status = "offline" /\ row.seen = work[d].seen
  BY <1>2 DEF row, Rows
<1>6. PICK next \in CheckFlapping(row) : work' = [work EXCEPT ![d] = next]
  BY DEF Stale, row
<1>7. next \in Rows /\ next.status = "offline" /\ next.seen = work[d].seen
  BY <1>4, <1>5, <1>6, FlappingRows
<1>8. work' \in [Devices -> Rows] /\ work'[d] = next
      /\ \A e \in Devices \ {d} : work'[e] = work[e]
  BY <1>2, <1>6, <1>7
<1>9. rows \in [Devices -> Rows] /\ \A e \in Devices : Same(rows[e], work'[e])
  BY <1>2, <1>4, <1>5, <1>7, <1>8 DEF Same
<1>10. Reports(d)
  <2>1. CASE quiet
    <3>1. NoAlert
      BY <2>1 DEF Stale
    <3> QED
      BY <1>7, <1>8, <2>1, <3>1 DEF Reports, Up, Lifecycle!Silent
  <2>2. CASE ~quiet
    <3>1. CommitWith(rows, d, "device_offline")
      BY <2>2 DEF Stale, row
    <3>2. Lifecycle!Announced(work[d].status, work'[d].status, "device_offline")
      BY <1>7, <1>8 DEF Lifecycle!Announced, Up
    <3> QED
      BY <1>3, <1>9, <3>1, <3>2, CommitReports
  <2> QED
    BY <2>1, <2>2
<1> QED
  BY <1>1, <1>7, <1>8, <1>10 DEF Visits

\* The stale walk visits only stale devices, which are up.
LEMMA StaleIsUp ==
  ASSUME IInv, NEW d \in Devices, Stale(d)
  PROVE  IsStale(d) /\ work[d].status \in Up /\ d \notin present
  BY DEF IInv, RowsKeepUp, PassShape, Stale, IsStale, Up

\* The baseline writes rows, and changes no status.
LEMMA BaselineRows ==
  ASSUME TypeOK
  PROVE  /\ Baseline \in [Devices -> Rows]
         /\ \A d \in Devices : Baseline[d].status = work[d].status
         /\ \A d \in Devices : HasRow(d)
              => Baseline[d].seen = IF tick <= 1 THEN tick ELSE work[d].seen
<1>1. work \in [Devices -> Rows] /\ tick \in 0 .. MaxTick
  BY DEF TypeOK
<1>2. ASSUME NEW d \in Devices
      PROVE  /\ [work[d] EXCEPT !.seen = tick] \in Rows
             /\ [work[d] EXCEPT !.seen = tick].status = work[d].status
             /\ [work[d] EXCEPT !.seen = tick].seen = tick
  BY <1>1 DEF Rows
<1>3. CASE tick <= 1
  <2>1. Baseline = [d \in Devices |-> IF HasRow(d)
                      THEN [work[d] EXCEPT !.seen = tick] ELSE work[d]]
    BY <1>3 DEF Baseline
  <2> QED
    BY <1>1, <1>2, <1>3, <2>1, Zenon
<1>4. CASE ~(tick <= 1)
  BY <1>1, <1>4 DEF Baseline
<1> QED
  BY <1>3, <1>4

-----------------------------------------------------------------------------
(* Every step preserves the types.                                          *)

\* Walking over a device keeps the types.
LEMMA VisitTypes ==
  ASSUME TypeOK, NEW d \in Devices, Visits(d)
  PROVE  TypeOK'
<1>1. Counters'
  BY DEF TypeOK, Counters, Visits, process, budget
<1>2. Tables'
  <2>1. work' \in [Devices -> Rows]
    BY DEF Visits
  <2>2. CASE NoAlert
    BY <2>1, <2>2 DEF NoAlert, Tables, TypeOK
  <2>3. CASE ~NoAlert
    BY <2>1, <2>3 DEF Visits, Reports, Tables
  <2> QED
    BY <2>2, <2>3
<1>3. Control'
  BY DEF TypeOK, Control, Visits, process
<1>4. Flags'
  <2>1. UNCHANGED <<prevKnown, quiet, initial>>
    BY DEF Visits, process
  <2>2. baselined' \in BOOLEAN
    BY Zenon DEF Visits, Reports, NoAlert, TypeOK
  <2> QED
    BY <2>1, <2>2 DEF TypeOK, Flags
<1> QED
  BY <1>1, <1>2, <1>3, <1>4, TypeParts, PTL

\* Beginning a pass keeps the types.
LEMMA BeginTypes ==
  ASSUME TypeOK, NEW located \in SUBSET Devices, NEW heard \in SUBSET Devices,
         BeginPass(located, heard)
  PROVE  TypeOK'
<1>1. Counters'
  BY DEF TypeOK, Counters, BeginPass, budget
<1>2. Tables'
  BY BaselineRows DEF TypeOK, Tables, BeginPass
<1>3. Control'
  <2>1. population' \in {"unchecked", "empty", "populated"}
    BY DEF BeginPass, FirstLook, TypeOK
  <2>2. present' \subseteq Devices
    BY DEF BeginPass, FreshBindings, TypeOK
  <2> QED
    BY <2>1, <2>2 DEF BeginPass, Control, Stages, TypeOK
<1>4. Flags'
  <2>1. quiet' = (uptime < GraceSleeps)
        /\ initial' = (population' = "empty" /\ tick <= PopulationWindow)
    BY DEF BeginPass
  <2>2. (uptime < GraceSleeps) \in BOOLEAN
        /\ (population' = "empty" /\ tick <= PopulationWindow) \in BOOLEAN
    OBVIOUS
  <2>3. quiet' \in BOOLEAN
    BY <2>1, <2>2, Zenon
  <2>4. initial' \in BOOLEAN
    BY <2>1, <2>2, Zenon
  <2> QED
    BY <2>3, <2>4 DEF BeginPass, Flags, TypeOK
<1> QED
  BY <1>1, <1>2, <1>3, <1>4, TypeParts, PTL

\* Erasing noise keeps the types.
LEMMA PurgeTypes ==
  ASSUME TypeOK, NEW noise \in SUBSET Devices, PurgeNoise(noise)
  PROVE  TypeOK'
<1>1. \A d \in Devices : [NoRow EXCEPT !.flapping = db[d].flapping] \in Rows
  BY TrackerConstants DEF TypeOK, NoRow, Rows, Statuses
<1>2. Tables'
  BY <1>1 DEF PurgeNoise, Tables, TypeOK, Alerts
<1>3. Counters'
  BY DEF TypeOK, Counters, PurgeNoise, process, budget, history
<1>4. Control'
  BY DEF TypeOK, Control, PurgeNoise, EndPass, Stages, process, history
<1>5. Flags'
  BY DEF TypeOK, Flags, PurgeNoise, EndPass, process, history
<1> QED
  BY <1>2, <1>3, <1>4, <1>5, TypeParts, PTL

\* Every step keeps the types.
LEMMA NextTypes == IInv /\ [Next]_vars => TypeOK'
<1> SUFFICES ASSUME IInv, [Next]_vars PROVE TypeOK'
  OBVIOUS
<1>0. TypeOK
  BY DEF IInv
<1>1. ASSUME NEW located \in SUBSET Devices, NEW heard \in SUBSET Devices,
             BeginPass(located, heard)
      PROVE  TypeOK'
  BY <1>0, <1>1, BeginTypes
<1>2. ASSUME NEW d \in Devices, Seen(d) \/ Stale(d) PROVE TypeOK'
  BY <1>0, <1>2, SeenVisits, StaleVisits, StaleIsUp, VisitTypes
<1>3. ASSUME NEW noise \in SUBSET Devices, PurgeNoise(noise) PROVE TypeOK'
  BY <1>0, <1>3, PurgeTypes
<1>4. ASSUME NEW heard \in SUBSET Devices, RaiseBefore(heard) \/ FailAtStart(heard)
      PROVE  TypeOK'
  <2>1. Counters'
    BY <1>0, <1>4, TrackerConstants DEF TypeOK, Counters, RaiseBefore,
       FailAtStart, Fault, history
  <2>2. Tables' /\ Control' /\ Flags'
    BY <1>0, <1>4 DEF TypeOK, Tables, Control, Flags, Stages, RaiseBefore,
       FailAtStart, tables, pass, history
  <2> QED
    BY <2>1, <2>2, TypeParts, PTL
<1>5. CASE QueryStale \/ Commit \/ Abort \/ RaiseAfter
  <2>1. Counters'
    BY <1>0, <1>5, TrackerConstants DEF TypeOK, Counters, QueryStale, Commit,
       Abort, RaiseAfter, Fault, process, budget, history
  <2>2. Tables'
    BY <1>0, <1>5 DEF TypeOK, Tables, QueryStale, Commit, Abort, RaiseAfter, tables
  <2>3. Control'
    BY <1>0, <1>5 DEF TypeOK, Control, Stages, QueryStale, Commit, Abort,
       RaiseAfter, EndPass, process, history
  <2>4. Flags'
    <3>1. prevKnown' = prevKnown /\ quiet' \in BOOLEAN /\ initial' \in BOOLEAN
      BY <1>0, <1>5 DEF TypeOK, QueryStale, Commit, Abort, RaiseAfter, EndPass,
         process
    <3>2. baselined' \in BOOLEAN
      BY <1>0, <1>5, Zenon DEF TypeOK, QueryStale, Commit, Abort, RaiseAfter,
         history
    <3> QED
      BY <1>0, <3>1, <3>2 DEF TypeOK, Flags
  <2> QED
    BY <2>1, <2>2, <2>3, <2>4, TypeParts, PTL
<1>6. CASE FinishTick \/ TimePasses \/ ResetTick
  <2>1. Counters'
    BY <1>0, <1>6, TrackerConstants DEF TypeOK, Counters, FinishTick, NextTick,
       TimePasses, ResetTick, StartOver, process, budget, history
  <2>2. Tables' /\ Control' /\ Flags'
    BY <1>0, <1>6 DEF TypeOK, Tables, Control, Flags, Stages, FinishTick,
       EndPass, TimePasses, ResetTick, StartOver, process, tables, pass, history
  <2> QED
    BY <2>1, <2>2, TypeParts, PTL
<1>7. CASE Crash
  <2>1. Counters'
    BY <1>0, <1>7, TrackerConstants DEF TypeOK, Counters, Crash, StartOver
  <2>2. NoRow \in Rows
    BY TrackerConstants DEF NoRow, Rows, Statuses
  <2>3. Tables'
    BY <1>0, <1>7, <2>2 DEF TypeOK, Tables, Crash, Alerts
  <2>4. Control' /\ Flags'
    BY <1>7 DEF Control, Flags, Stages, Crash, StartOver, EndPass
  <2> QED
    BY <2>1, <2>3, <2>4, TypeParts, PTL
<1>8. CASE UNCHANGED vars
  BY <1>0, <1>8 DEF TypeOK, vars, process, tables, pass, budget, history
<1> QED
  BY <1>1, <1>2, <1>3, <1>4, <1>5, <1>6, <1>7, <1>8 DEF Next

-----------------------------------------------------------------------------
(* Every step preserves the shape of a pass and what it has pending.        *)

\* Every step keeps the shape of a pass.
LEMMA NextShape == IInv /\ [Next]_vars => PassShape'
<1> SUFFICES ASSUME IInv, [Next]_vars PROVE PassShape'
  OBVIOUS
<1>0. TypeOK /\ PassShape
  BY DEF IInv
<1> USE DEF PassShape, InPass
<1>1. ASSUME NEW located \in SUBSET Devices, NEW heard \in SUBSET Devices,
             BeginPass(located, heard)
      PROVE  PassShape'
  <2>1. present' \subseteq Devices
    BY <1>0, <1>1 DEF BeginPass, FreshBindings, TypeOK
  <2>2. stage' = "seen" /\ todo' = present' /\ tick' = tick
        /\ sighted' = [d \in Devices |-> IF d \in present' THEN tick ELSE sighted[d]]
    BY <1>1 DEF BeginPass
  <2> QED
    BY <1>0, <2>1, <2>2 DEF TypeOK
<1>2. ASSUME NEW d \in Devices, Seen(d) \/ Stale(d) PROVE PassShape'
  BY <1>0, <1>2, SeenVisits, StaleVisits, StaleIsUp DEF Visits
<1>3. ASSUME NEW noise \in SUBSET Devices, PurgeNoise(noise) PROVE PassShape'
  BY <1>0, <1>3 DEF PurgeNoise, EndPass, history
<1>4. ASSUME NEW heard \in SUBSET Devices, RaiseBefore(heard)
      PROVE  PassShape'
  BY <1>0, <1>4 DEF RaiseBefore, tables, pass, history
<1>5. ASSUME NEW heard \in SUBSET Devices, FailAtStart(heard)
      PROVE  PassShape'
  BY <1>0, <1>5 DEF FailAtStart, tables, TypeOK
<1>6. CASE QueryStale
  BY <1>0, <1>6 DEF QueryStale, tables, history
<1>7. CASE Commit \/ Abort \/ RaiseAfter
  BY <1>0, <1>7 DEF Commit, Abort, RaiseAfter, EndPass, tables, history
<1>8. CASE FinishTick
  BY <1>0, <1>8 DEF FinishTick, NextTick, EndPass, tables, history, TypeOK
<1>9. CASE TimePasses \/ ResetTick
  BY <1>0, <1>9 DEF TimePasses, ResetTick, StartOver, tables, pass, history
<1>10. CASE Crash
  BY <1>10 DEF Crash, StartOver, EndPass
<1>11. CASE UNCHANGED vars
  BY <1>0, <1>11 DEF vars, tables, pass, history
<1> QED
  BY <1>1, <1>2, <1>3, <1>4, <1>5, <1>6, <1>7, <1>8, <1>9, <1>10, <1>11 DEF Next

\* Silence is reflexive.
LEMMA SilentStays == \A s : Lifecycle!Silent(s, s)
  BY DEF Lifecycle!Silent

\* A visit is silent, and then it is pending; or it is committed.
LEMMA VisitMoves ==
  ASSUME IInv, NEW d \in Devices, Visits(d), InPass,
         stage = "seen" => d \in present
  PROVE  PendingMoves'
<1>1. UNCHANGED <<quiet, initial, stage, present>> /\ todo' = todo \ {d} /\ d \in todo
  BY DEF Visits
<1>2. PendingMoves /\ work[d].status = db[d].status
  BY <1>1 DEF IInv, PendingMoves
<1>3. CASE NoAlert /\ Lifecycle!Silent(work[d].status, work'[d].status)
  <2>1. db' = db /\ \A e \in Devices \ {d} : work'[e] = work[e]
    BY <1>3 DEF NoAlert, Visits
  <2>2. \A e \in Devices : Lifecycle!Silent(db'[e].status, work'[e].status)
    BY <1>2, <1>3, <2>1 DEF PendingMoves
  <2>3. \A e \in Devices : Lifecycle!Silent(db[e].status, work[e].status)'
    BY <1>1, <2>2 DEF Lifecycle!Silent
  <2>4. ASSUME NEW e \in Devices, InPass', e \in todo'
        PROVE  work'[e].status = db'[e].status
    BY <1>1, <1>2, <2>1, <2>4 DEF PendingMoves, InPass
  <2>5. ASSUME NEW e \in Devices, stage' = "seen", e \notin present'
        PROVE  work'[e].status = db'[e].status
    BY <1>1, <1>2, <2>1, <2>5 DEF PendingMoves
  <2> QED
    BY <2>3, <2>4, <2>5 DEF PendingMoves
<1>4. CASE \A e \in Devices : Same(db'[e], work'[e])
  <2>1. \A e \in Devices : work'[e].status = db'[e].status
    BY <1>4 DEF Same
  <2>2. \A e \in Devices : Lifecycle!Silent(db[e].status, work[e].status)'
    BY <2>1 DEF Lifecycle!Silent
  <2> QED
    BY <2>1, <2>2 DEF PendingMoves
<1> QED
  BY <1>3, <1>4 DEF Visits, Reports

\* Outside a pass nothing is pending.
LEMMA NothingPending == work = db => PendingMoves
  BY SilentStays DEF PendingMoves

\* Every step keeps the pending moves legal.
LEMMA NextMoves == IInv /\ [Next]_vars => PendingMoves'
<1> SUFFICES ASSUME IInv, [Next]_vars PROVE PendingMoves'
  OBVIOUS
<1>0. TypeOK /\ PassShape /\ PendingMoves
  BY DEF IInv
<1>1. ASSUME NEW located \in SUBSET Devices, NEW heard \in SUBSET Devices,
             BeginPass(located, heard)
      PROVE  PendingMoves'
  <2>1. work = db /\ db' = db /\ work' = Baseline
    BY <1>0, <1>1 DEF BeginPass, PassShape, InPass
  <2>2. \A d \in Devices : work'[d].status = db'[d].status
    BY <1>0, <2>1, BaselineRows
  <2>3. \A d \in Devices : Lifecycle!Silent(db[d].status, work[d].status)'
    BY <2>2 DEF Lifecycle!Silent
  <2> QED
    BY <2>2, <2>3 DEF PendingMoves
<1>2. ASSUME NEW d \in Devices, Seen(d) \/ Stale(d) PROVE PendingMoves'
  <2>1. Visits(d) /\ InPass
    BY <1>0, <1>2, SeenVisits, StaleVisits, StaleIsUp DEF InPass
  <2>2. stage = "seen" => d \in present
    BY <1>0, <2>1 DEF PassShape, Visits
  <2> QED
    BY <2>1, <2>2, VisitMoves
<1>3. (work = db)' => PendingMoves'
  BY NothingPending, PTL
<1>4. CASE \/ \E heard \in SUBSET Devices : RaiseBefore(heard) \/ FailAtStart(heard)
           \/ \E noise \in SUBSET Devices : PurgeNoise(noise)
           \/ Commit \/ Abort \/ RaiseAfter \/ Crash
           \/ FinishTick \/ TimePasses \/ ResetTick
  <2>1. (work = db)'
    BY <1>0, <1>4 DEF PassShape, InPass, RaiseBefore, FailAtStart, PurgeNoise,
       Commit, Abort, RaiseAfter, Crash, FinishTick, TimePasses, ResetTick,
       tables
  <2> QED
    BY <1>3, <2>1
<1>5. CASE QueryStale
  <2>1. UNCHANGED <<db, work, present, quiet, initial>> /\ stage = "seen"
        /\ todo' \cap present = {} /\ stage' = "stale"
    BY <1>5 DEF QueryStale, tables
  <2>2. \A d \in Devices : Lifecycle!Silent(db[d].status, work[d].status)'
    BY <1>0, <2>1 DEF PendingMoves, Lifecycle!Silent
  <2>3. \A d \in Devices : d \in todo' => work'[d].status = db'[d].status
    BY <1>0, <2>1 DEF PendingMoves
  <2> QED
    BY <2>1, <2>2, <2>3 DEF PendingMoves
<1>6. CASE UNCHANGED vars
  BY <1>0, <1>6 DEF vars, tables, pass, PendingMoves, Lifecycle!Silent, InPass
<1> QED
  BY <1>1, <1>2, <1>4, <1>5, <1>6 DEF Next

-----------------------------------------------------------------------------
(* Every step keeps the rows up with the evidence.                          *)

\* The beginning of a pass keeps the rows up with the evidence.
LEMMA BeginKeepsUp ==
  ASSUME IInv, NEW located \in SUBSET Devices, NEW heard \in SUBSET Devices,
         BeginPass(located, heard)
  PROVE  RowsKeepUp'
<1>0. TypeOK /\ PassShape /\ RowsKeepUp
  BY DEF IInv
<1>1. /\ stage = "scan" /\ stage' = "seen" /\ todo' = present'
      /\ UNCHANGED <<tick, db, missed>> /\ work' = Baseline /\ work = db
      /\ sighted' = [d \in Devices |-> IF d \in present' THEN tick ELSE sighted[d]]
  BY <1>0 DEF BeginPass, PassShape, InPass
<1> SUFFICES ASSUME NEW d \in Devices
             PROVE  /\ ~Visited(d)'
                    /\ d \notin missed /\ work'[d].status \in Up /\ ~Unvisited(d)'
                         => sighted'[d] <= work'[d].seen
                    /\ d \notin missed /\ db[d].status \in Up /\ d \notin present'
                         => sighted'[d] <= db[d].seen
                    /\ work'[d].status = db'[d].status
  BY <1>1 DEF RowsKeepUp, InPass
<1>2. Unvisited(d)' <=> d \in present'
  BY <1>1 DEF Unvisited
<1>3. ~Visited(d)'
  BY <1>2 DEF Visited
<1>4. work'[d].status = work[d].status /\ work[d].status = db[d].status
      /\ (HasRow(d) => work'[d].seen = IF tick <= 1 THEN tick ELSE work[d].seen)
  BY <1>0, <1>1, BaselineRows
<1>5. d \notin missed /\ work[d].status \in Up
        => sighted[d] <= work[d].seen /\ sighted[d] <= db[d].seen
  BY <1>0, <1>1 DEF RowsKeepUp, Unvisited, InPass
<1>6. sighted[d] <= tick /\ tick \in Nat /\ sighted[d] \in Nat
  BY <1>0, TrackerConstants DEF PassShape, TypeOK
<1>7. work[d].status \in Up => HasRow(d)
  BY DEF HasRow, Up
<1>8. d \notin present' => sighted'[d] = sighted[d]
  BY <1>1
<1> QED
  BY <1>1, <1>2, <1>3, <1>4, <1>5, <1>6, <1>7, <1>8

\* A visit, to a present device or to a stale one.
LEMMA VisitKeepsUp ==
  ASSUME IInv, NEW d \in Devices, Visits(d), InPass,
         \/ /\ stage = "seen" /\ d \in present
            /\ work'[d].status \in Up /\ work'[d].seen = tick
         \/ /\ stage = "stale" /\ d \notin present /\ IsStale(d)
            /\ work[d].status \in Up
            /\ work'[d].status = "offline" /\ work'[d].seen = work[d].seen
  PROVE  RowsKeepUp'
<1>0. TypeOK /\ PassShape /\ RowsKeepUp
  BY DEF IInv
<1>1. /\ UNCHANGED <<tick, stage, present, sighted, missed>>
      /\ d \in todo /\ todo' = todo \ {d}
      /\ \A e \in Devices \ {d} : work'[e] = work[e]
  BY DEF Visits
<1>2. \/ db' = db
      \/ \A e \in Devices : db'[e].status = work'[e].status
                            /\ db'[e].seen = work'[e].seen
  BY DEF Visits, Reports, NoAlert, Same
<1>3. sighted[d] \in Nat /\ tick \in Nat /\ work[d].seen \in Nat
      /\ sighted[d] <= tick
  BY <1>0, TrackerConstants DEF TypeOK, PassShape, Rows
<1>4. ASSUME NEW e \in Devices, Visited(e)'
      PROVE  work'[e].status \in Up /\ work'[e].seen = tick
  <2>1. CASE e = d
    BY <1>1, <1>4, <2>1 DEF Visited, InPass
  <2>2. CASE e # d
    BY <1>0, <1>1, <1>4, <2>2 DEF Visited, InPass, Unvisited, RowsKeepUp
  <2> QED
    BY <2>1, <2>2
<1>5. ASSUME NEW e \in Devices, e \notin missed, work'[e].status \in Up,
             ~Unvisited(e)'
      PROVE  sighted[e] <= work'[e].seen
  <2>1. CASE e = d
    BY <1>3, <1>5, <2>1 DEF Up
  <2>2. CASE e # d
    BY <1>0, <1>1, <1>5, <2>2 DEF Unvisited, RowsKeepUp
  <2> QED
    BY <2>1, <2>2
<1>6. ASSUME NEW e \in Devices, e \notin missed, db'[e].status \in Up,
             e \notin present
      PROVE  sighted[e] <= db'[e].seen
  <2>1. CASE db' = db
    BY <1>0, <1>6, <2>1 DEF RowsKeepUp
  <2>2. CASE db' # db
    <3>1. db'[e].status = work'[e].status /\ db'[e].seen = work'[e].seen
      BY <1>2, <2>2
    <3>2. ~Unvisited(e)'
      BY <1>0, <1>1, <1>6 DEF Unvisited, PassShape
    <3> QED
      BY <1>5, <1>6, <3>1, <3>2
  <2> QED
    BY <2>1, <2>2
<1>7. ASSUME NEW e \in Devices, e \notin missed, work'[e].status = "offline",
             db'[e].status # "offline"
      PROVE  sighted[e] + OfflineGraceTicks <= tick
  <2>1. db' = db
    BY <1>2, <1>7
  <2>2. CASE e # d
    BY <1>0, <1>1, <1>7, <2>1, <2>2 DEF RowsKeepUp
  <2>3. CASE e = d
    <3>1. stage = "stale" /\ IsStale(d) /\ work[d].status \in Up
      BY <1>7, <2>3 DEF Up
    <3>2. sighted[d] <= work[d].seen
      BY <1>0, <1>7, <2>3, <3>1 DEF RowsKeepUp, Unvisited
    <3> QED
      BY <1>3, <2>3, <3>1, <3>2, TrackerConstants DEF IsStale
  <2> QED
    BY <2>2, <2>3
<1>8. ASSUME NEW e \in Devices, stage' = "stale", e \in todo' PROVE IsStale(e)'
  BY <1>0, <1>1, <1>8 DEF RowsKeepUp, IsStale
<1> QED
  BY <1>1, <1>4, <1>5, <1>6, <1>7, <1>8 DEF RowsKeepUp, InPass

\* The commit of a pass keeps the rows up with the evidence.
LEMMA CommitKeepsUp ==
  ASSUME IInv, Commit
  PROVE  RowsKeepUp'
<1>0. TypeOK /\ PassShape /\ RowsKeepUp
  BY DEF IInv
<1>1. /\ stage = "stale" /\ stage' = "rest" /\ db' = work /\ work' = work
      /\ missed' = missed \ present /\ UNCHANGED <<tick, sighted>>
  BY DEF Commit, EndPass
<1>2. ASSUME NEW d \in Devices, d \notin missed', work[d].status \in Up
      PROVE  sighted[d] <= work[d].seen
  <2>1. CASE d \in present
    <3>1. work[d].seen = tick
      BY <1>0, <1>1, <2>1 DEF RowsKeepUp, Visited, Unvisited, InPass
    <3> QED
      BY <1>0, <3>1 DEF PassShape
  <2>2. CASE d \notin present
    BY <1>0, <1>1, <1>2, <2>2 DEF RowsKeepUp, Unvisited
  <2> QED
    BY <2>1, <2>2
<1> QED
  BY <1>1, <1>2 DEF RowsKeepUp, Visited, InPass

\* Every step keeps the rows up with the evidence.
LEMMA NextKeepsUp == IInv /\ [Next]_vars => RowsKeepUp'
<1> SUFFICES ASSUME IInv, [Next]_vars PROVE RowsKeepUp'
  OBVIOUS
<1>0. TypeOK /\ PassShape /\ RowsKeepUp
  BY DEF IInv
<1>1. ASSUME NEW located \in SUBSET Devices, NEW heard \in SUBSET Devices,
             BeginPass(located, heard)
      PROVE  RowsKeepUp'
  BY <1>1, BeginKeepsUp
<1>2. ASSUME NEW d \in Devices, Seen(d) \/ Stale(d) PROVE RowsKeepUp'
  <2>1. Visits(d) /\ InPass
    BY <1>0, <1>2, SeenVisits, StaleVisits, StaleIsUp DEF InPass
  <2>2. stage = "seen" => d \in present
    BY <1>0, <2>1 DEF PassShape, Visits
  <2> QED
    BY <1>0, <1>2, <2>1, <2>2, SeenVisits, StaleVisits, StaleIsUp, VisitKeepsUp
<1>3. CASE Commit
  BY <1>3, CommitKeepsUp
\* The steps below end outside a pass; only two of them touch a row.
<1>4. CASE \E heard \in SUBSET Devices : RaiseBefore(heard)
  BY <1>0, <1>4 DEF RaiseBefore, tables, pass, history, RowsKeepUp, Visited,
     Unvisited, InPass, IsStale
<1>5. CASE \E heard \in SUBSET Devices : FailAtStart(heard)
  <2>1. PICK heard \in SUBSET Devices : FailAtStart(heard)
    BY <1>5
  <2>2. /\ stage = "scan" /\ stage' = "rest" /\ UNCHANGED <<tick, db, work>>
        /\ missed' = missed \cup heard
        /\ \A d \in Devices \ heard : sighted'[d] = sighted[d]
    BY <2>1 DEF FailAtStart, tables
  <2> QED
    BY <1>0, <2>2 DEF PassShape, RowsKeepUp, Visited, Unvisited, InPass
<1>6. CASE Abort
  <2>1. /\ stage' = "rest" /\ work' = db /\ UNCHANGED <<tick, db, sighted>>
        /\ missed' = missed \cup present
    BY <1>6 DEF Abort, EndPass
  <2> QED
    BY <1>0, <2>1 DEF RowsKeepUp, Visited, Unvisited, InPass
<1>7. CASE \E noise \in SUBSET Devices : PurgeNoise(noise)
  <2>1. PICK noise \in SUBSET Devices : PurgeNoise(noise)
    BY <1>7
  <2>2. /\ stage = "rest" /\ stage' = "done" /\ work' = db'
        /\ UNCHANGED <<tick, missed, sighted>>
        /\ \A d \in Devices : db'[d].status \in Up => db'[d] = db[d]
    BY <2>1 DEF PurgeNoise, EndPass, history, NoRow, Up
  <2> QED
    BY <1>0, <2>2 DEF RowsKeepUp, Visited, Unvisited, InPass, Up
<1>8. CASE RaiseAfter \/ FinishTick \/ TimePasses
  <2>1. /\ stage \in {"rest", "done", "scan"} /\ stage' = "scan"
        /\ UNCHANGED <<db, work, missed, sighted>> /\ work = db
    BY <1>0, <1>8 DEF RaiseAfter, FinishTick, TimePasses, EndPass, tables, pass,
       history, PassShape, InPass
  <2> QED
    BY <1>0, <2>1 DEF RowsKeepUp, Visited, Unvisited, InPass
<1>9. CASE ResetTick \/ Crash
  <2>1. /\ stage' = "scan" /\ work' = db' /\ \A d \in Devices : sighted'[d] = 0
    BY <1>0, <1>9 DEF ResetTick, Crash, StartOver, EndPass, tables, pass,
       PassShape, InPass
  <2>2. \A d \in Devices : db'[d].seen \in Nat
    BY <1>9, NextTypes, TrackerConstants DEF TypeOK, Rows
  <2> QED
    BY <2>1, <2>2 DEF RowsKeepUp, Visited, Unvisited, InPass
<1>10. CASE QueryStale
  <2>1. /\ stage = "seen" /\ todo = {} /\ stage' = "stale"
        /\ todo' = {d \in Devices : IsStale(d)} \ present
        /\ UNCHANGED <<tick, db, work, present, sighted, missed>>
    BY <1>10 DEF QueryStale, tables, history
  <2>2. \A d \in Devices : d \in todo' => IsStale(d)'
    BY <2>1 DEF IsStale
  <2> QED
    BY <1>0, <2>1, <2>2 DEF RowsKeepUp, Visited, Unvisited, InPass
<1>11. CASE UNCHANGED vars
  BY <1>0, <1>11 DEF vars, tables, pass, history, RowsKeepUp, Visited,
     Unvisited, InPass, IsStale
<1> QED
  BY <1>1, <1>2, <1>3, <1>4, <1>5, <1>6, <1>7, <1>8, <1>9, <1>10, <1>11 DEF Next

-----------------------------------------------------------------------------
(* Every step keeps the rows, once based, behind the evidence.              *)

\* Evidence only adds up within a count.
LEMMA LastSignGrows ==
  ASSUME TypeOK, TypeOK', NEW d \in Devices, sighted[d] <= sighted'[d]
  PROVE  LastSign(d) <= LastSign(d)' /\ LastSign(d) \in Nat /\ LastSign(d)' \in Nat
<1>1. sighted[d] \in Nat /\ sighted'[d] \in Nat
  BY TrackerConstants DEF TypeOK
<1> QED
  BY <1>1 DEF LastSign

\* The beginning of a pass leaves no row ahead of the evidence.
LEMMA BeginNotAhead ==
  ASSUME IInv, TypeOK', NEW located \in SUBSET Devices,
         NEW heard \in SUBSET Devices, BeginPass(located, heard)
  PROVE  RowsNotAhead'
<1>0. TypeOK /\ PassShape /\ RowsNotAhead
  BY DEF IInv
<1>1. /\ stage' = "seen" /\ UNCHANGED <<tick, db, baselined>>
      /\ work' = Baseline /\ stage = "scan"
      /\ sighted' = [d \in Devices |-> IF d \in present' THEN tick ELSE sighted[d]]
  BY DEF BeginPass
<1> SUFFICES ASSUME NEW d \in Devices
             PROVE  /\ Based' /\ HasRow(d)' => work'[d].seen <= LastSign(d)'
                    /\ baselined /\ db[d].status # "unknown"
                         => db[d].seen <= LastSign(d)'
  BY <1>1 DEF RowsNotAhead
<1>2. tick \in Nat /\ sighted[d] \in Nat /\ sighted[d] <= tick
      /\ work[d].seen \in Nat /\ db[d].seen \in Nat
  BY <1>0, TrackerConstants DEF TypeOK, PassShape, Rows
<1>3. sighted[d] <= sighted'[d]
  BY <1>1, <1>2
<1>4. LastSign(d) <= LastSign(d)' /\ LastSign(d) \in Nat /\ LastSign(d)' \in Nat
  BY <1>0, <1>3, LastSignGrows
<1>5. baselined /\ db[d].status # "unknown" => db[d].seen <= LastSign(d)'
  <2>1. baselined /\ db[d].status # "unknown" => db[d].seen <= LastSign(d)
    BY <1>0 DEF RowsNotAhead
  <2> QED
    BY <1>2, <1>4, <2>1
<1>6. HasRow(d)' => HasRow(d) /\ work'[d].seen = IF tick <= 1 THEN tick
                                                 ELSE work[d].seen
  BY <1>0, <1>1, BaselineRows DEF HasRow
<1>7. Based' <=> (baselined \/ tick <= 1)
  BY <1>1 DEF Based, InPass
<1>8. LastSign(d)' >= 1 \/ LastSign(d)' = tick
  BY <1>1, <1>2 DEF LastSign
<1>9. LastSign(d)' >= 1
  BY <1>1, <1>2 DEF LastSign
<1>10. CASE tick <= 1
  BY <1>2, <1>4, <1>5, <1>6, <1>9, <1>10
<1>11. CASE ~(tick <= 1)
  <2>1. Based' /\ HasRow(d)' => work[d].seen <= LastSign(d)
    BY <1>0, <1>6, <1>7, <1>11, Zenon DEF RowsNotAhead, Based
  <2> QED
    BY <1>2, <1>4, <1>5, <1>6, <1>11, <2>1
<1> QED
  BY <1>10, <1>11

\* A visit leaves no row ahead of the evidence.
LEMMA VisitNotAhead ==
  ASSUME IInv, NEW d \in Devices, Visits(d), InPass,
         \/ /\ stage = "seen" /\ d \in present /\ work'[d].seen = tick
         \/ /\ stage = "stale" /\ work[d].status \in Up
            /\ work'[d].status = "offline" /\ work'[d].seen = work[d].seen
  PROVE  RowsNotAhead'
<1>0. TypeOK /\ PassShape /\ RowsNotAhead
  BY DEF IInv
<1>1. /\ UNCHANGED <<tick, stage, present, sighted>>
      /\ d \in todo /\ todo' = todo \ {d}
      /\ \A e \in Devices \ {d} : work'[e] = work[e]
  BY DEF Visits
<1>2. \/ db' = db /\ baselined' = baselined
      \/ /\ \A e \in Devices : db'[e].status = work'[e].status
                               /\ db'[e].seen = work'[e].seen
         /\ baselined' = (baselined \/ tick <= 1)
  BY Zenon DEF Visits, Reports, NoAlert, Same
<1>3. Based' => Based
  BY <1>1, <1>2, Zenon DEF Based, InPass
<1>4. baselined' => Based
  BY <1>2, Zenon DEF Based
<1>5. \A e \in Devices : LastSign(e)' = LastSign(e)
  BY <1>1 DEF LastSign
<1>6. ASSUME NEW e \in Devices, Based, HasRow(e)'
      PROVE  work'[e].seen <= LastSign(e)
  <2>1. CASE e # d
    BY <1>0, <1>1, <1>6, <2>1, Zenon DEF RowsNotAhead, HasRow
  <2>2. CASE e = d /\ stage = "seen"
    <3>1. work'[d].seen = tick /\ sighted[d] = tick /\ tick \in Nat
      BY <1>0, <2>2, TrackerConstants DEF PassShape, InPass, TypeOK
    <3> QED
      BY <2>2, <3>1 DEF LastSign
  <2>3. CASE e = d /\ stage = "stale"
    <3>1. HasRow(d) /\ work'[d].seen = work[d].seen
      BY <2>3 DEF HasRow, Up
    <3>2. work[d].seen <= LastSign(d)
      BY <1>0, <1>6, <3>1, Zenon DEF RowsNotAhead
    <3> QED
      BY <2>3, <3>1, <3>2
  <2> QED
    BY <2>1, <2>2, <2>3 DEF InPass
<1>7. ASSUME NEW e \in Devices, baselined', db'[e].status # "unknown"
      PROVE  db'[e].seen <= LastSign(e)
  <2>1. CASE db' = db /\ baselined' = baselined
    BY <1>0, <1>7, <2>1, Zenon DEF RowsNotAhead
  <2>2. CASE ~(db' = db /\ baselined' = baselined)
    <3>1. db'[e].status = work'[e].status /\ db'[e].seen = work'[e].seen
      BY <1>2, <2>2, Zenon
    <3>2. HasRow(e)'
      BY <1>7, <3>1 DEF HasRow
    <3> QED
      BY <1>4, <1>6, <1>7, <3>1, <3>2, Zenon
  <2> QED
    BY <2>1, <2>2, Zenon
<1>8. ASSUME NEW e \in Devices, stage' = "stale", e \notin todo',
             work'[e].status \in Up
      PROVE  tick < work'[e].seen + OfflineGraceTicks
  <2>1. e # d
    BY <1>1, <1>8 DEF Up
  <2> QED
    BY <1>0, <1>1, <1>8, <2>1 DEF RowsNotAhead
<1>9. \A e \in Devices : Based' /\ HasRow(e)' => work'[e].seen <= LastSign(e)'
  BY <1>3, <1>5, <1>6, Zenon
<1>10. \A e \in Devices : baselined' /\ db'[e].status # "unknown"
                            => db'[e].seen <= LastSign(e)'
  BY <1>5, <1>7, Zenon
<1>11. \A e \in Devices : stage' = "stale" /\ e \notin todo'
                          /\ work'[e].status \in Up
                            => tick' < work'[e].seen + OfflineGraceTicks
  BY <1>1, <1>8
<1> QED
  BY <1>9, <1>10, <1>11, Zenon DEF RowsNotAhead

\* Outside a pass, based means committed, and the tables agree.
LEMMA OutOfPassNotAhead ==
  ASSUME ~InPass, work = db,
         \A d \in Devices : baselined /\ db[d].status # "unknown"
                              => db[d].seen <= LastSign(d)
  PROVE  RowsNotAhead
<1>1. stage # "stale" /\ (Based <=> baselined)
  BY DEF InPass, Based
<1> QED
  BY <1>1, Zenon DEF RowsNotAhead, HasRow

\* Every step keeps the rows from running ahead of the evidence.
LEMMA NextNotAhead == IInv /\ [Next]_vars => RowsNotAhead'
<1> SUFFICES ASSUME IInv, [Next]_vars PROVE RowsNotAhead'
  OBVIOUS
<1>0. TypeOK /\ TypeOK' /\ PassShape /\ RowsNotAhead
  BY NextTypes DEF IInv
<1> DEFINE DbNotAhead == \A d \in Devices : baselined /\ db[d].status # "unknown"
                                              => db[d].seen <= LastSign(d)
<1>1. DbNotAhead
  BY <1>0 DEF RowsNotAhead
<1>2. ASSUME ~InPass', (work = db)', DbNotAhead' PROVE RowsNotAhead'
  BY <1>2, OutOfPassNotAhead, PTL
<1> HIDE DEF DbNotAhead
<1>3. ASSUME NEW located \in SUBSET Devices, NEW heard \in SUBSET Devices,
             BeginPass(located, heard)
      PROVE  RowsNotAhead'
  BY <1>0, <1>3, BeginNotAhead
<1>4. ASSUME NEW d \in Devices, Seen(d) \/ Stale(d) PROVE RowsNotAhead'
  <2>1. Visits(d) /\ InPass
    BY <1>0, <1>4, SeenVisits, StaleVisits, StaleIsUp DEF InPass
  <2>2. stage = "seen" => d \in present
    BY <1>0, <2>1 DEF PassShape, Visits
  <2> QED
    BY <1>0, <1>4, <2>1, <2>2, SeenVisits, StaleVisits, StaleIsUp, VisitNotAhead
<1>5. CASE QueryStale
  <2>1. /\ stage = "seen" /\ stage' = "stale" /\ todo = {}
        /\ todo' = {d \in Devices : IsStale(d)} \ present
        /\ UNCHANGED <<tick, db, work, present, sighted, baselined>>
    BY <1>5 DEF QueryStale, tables, history
  <2>2. ASSUME NEW d \in Devices, d \notin todo', work[d].status \in Up
        PROVE  tick < work[d].seen + OfflineGraceTicks
    <3>1. work[d].seen \in Nat /\ tick \in Nat
      BY <1>0, TrackerConstants DEF TypeOK, Rows
    <3>2. CASE d \in present
      <4>1. work[d].seen = tick
        BY <2>1, <3>2 DEF IInv, RowsKeepUp, Visited, Unvisited, InPass
      <4> QED
        BY <3>1, <4>1, TrackerConstants
    <3>3. CASE d \notin present
      BY <2>1, <2>2, <3>1, <3>3, TrackerConstants DEF IsStale, Up
    <3> QED
      BY <3>2, <3>3
  <2>3. \A d \in Devices : LastSign(d)' = LastSign(d)
    BY <2>1 DEF LastSign
  <2>4. Based' => Based
    BY <2>1, Zenon DEF Based, InPass
  <2>5. \A d \in Devices : /\ Based' /\ HasRow(d)' => work'[d].seen <= LastSign(d)'
                           /\ baselined' /\ db'[d].status # "unknown"
                                => db'[d].seen <= LastSign(d)'
    BY <1>0, <2>1, <2>3, <2>4, Zenon DEF RowsNotAhead, HasRow
  <2>6. \A d \in Devices : stage' = "stale" /\ d \notin todo'
                           /\ work'[d].status \in Up
                             => tick' < work'[d].seen + OfflineGraceTicks
    BY <2>1, <2>2
  <2> QED
    BY <2>5, <2>6, Zenon DEF RowsNotAhead
<1>6. CASE Commit
  <2>1. /\ stage = "stale" /\ stage' = "rest" /\ db' = work /\ work' = work
        /\ UNCHANGED <<tick, sighted>>
    BY <1>6 DEF Commit, EndPass
  <2>2. baselined' => Based
    BY <1>6, <2>1, Zenon DEF Commit, Based, InPass
  <2>3. \A d \in Devices : LastSign(d)' = LastSign(d)
    BY <2>1 DEF LastSign
  <2>4. DbNotAhead'
    BY <1>0, <2>1, <2>2, <2>3, Zenon DEF DbNotAhead, RowsNotAhead, HasRow
  <2> QED
    BY <1>2, <2>1, <2>4 DEF InPass
<1>7. CASE Abort
  <2>1. /\ stage' = "rest" /\ work' = db /\ UNCHANGED <<db, sighted, baselined>>
    BY <1>7 DEF Abort, EndPass
  <2>2. DbNotAhead'
    BY <1>1, <2>1 DEF DbNotAhead, LastSign
  <2> QED
    BY <1>2, <2>1, <2>2 DEF InPass
<1>8. CASE \E heard \in SUBSET Devices : RaiseBefore(heard) \/ FailAtStart(heard)
  <2>1. /\ stage = "scan" /\ stage' \in {"scan", "rest"} /\ work = db
        /\ UNCHANGED <<tick, db, work, baselined>>
        /\ \A d \in Devices : sighted'[d] = sighted[d] \/ sighted'[d] = tick
    BY <1>0, <1>8 DEF RaiseBefore, FailAtStart, tables, pass, history, PassShape,
       InPass, TypeOK
  <2>2. \A d \in Devices : sighted[d] <= sighted'[d] /\ sighted[d] \in Nat
    BY <1>0, <2>1, TrackerConstants DEF PassShape, TypeOK
  <2>3. \A d \in Devices : LastSign(d) <= LastSign(d)'
                           /\ LastSign(d) \in Nat /\ LastSign(d)' \in Nat
    BY <1>0, <2>2, LastSignGrows
  <2>4. \A d \in Devices : db[d].seen \in Nat
    BY <1>0, TrackerConstants DEF TypeOK, Rows
  <2>5. \A d \in Devices : db[d].seen <= LastSign(d) => db[d].seen <= LastSign(d)'
    BY <2>3, <2>4
  <2>6. DbNotAhead'
    BY <1>1, <2>1, <2>5, Zenon DEF DbNotAhead
  <2> QED
    BY <1>2, <2>1, <2>6 DEF InPass
<1>9. CASE RaiseAfter \/ FinishTick \/ TimePasses
  <2>1. /\ stage \in {"rest", "done", "scan"} /\ stage' = "scan"
        /\ UNCHANGED <<db, work, sighted, baselined>> /\ work = db
    BY <1>0, <1>9 DEF RaiseAfter, FinishTick, TimePasses, EndPass, tables, pass,
       history, PassShape, InPass
  <2>2. DbNotAhead'
    BY <1>1, <2>1 DEF DbNotAhead, LastSign
  <2> QED
    BY <1>2, <2>1, <2>2 DEF InPass
<1>10. CASE \E noise \in SUBSET Devices : PurgeNoise(noise)
  <2>1. PICK noise \in SUBSET Devices : PurgeNoise(noise)
    BY <1>10
  <2>2. /\ stage' = "done" /\ work' = db' /\ UNCHANGED <<sighted, baselined>>
        /\ \A d \in Devices : db'[d].status # "unknown" => db'[d] = db[d]
    BY <2>1 DEF PurgeNoise, EndPass, history, NoRow
  <2>3. DbNotAhead'
    BY <1>1, <2>2 DEF DbNotAhead, LastSign
  <2> QED
    BY <1>2, <2>2, <2>3 DEF InPass
<1>11. CASE ResetTick \/ Crash
  <2>1. stage' = "scan" /\ work' = db' /\ ~baselined'
    BY <1>0, <1>11 DEF ResetTick, Crash, StartOver, EndPass, tables, pass,
       PassShape, InPass
  <2>2. DbNotAhead'
    BY <2>1, Zenon DEF DbNotAhead
  <2> QED
    BY <1>2, <2>1, <2>2 DEF InPass
<1>12. CASE UNCHANGED vars
  BY <1>0, <1>12 DEF vars, tables, pass, history, RowsNotAhead, Based, InPass,
     HasRow, LastSign
<1> QED
  BY <1>3, <1>4, <1>5, <1>6, <1>7, <1>8, <1>9, <1>10, <1>11, <1>12 DEF Next

-----------------------------------------------------------------------------
(* Theorems.                                                                *)

\* The inductive invariant holds throughout.
THEOREM Invariant == Spec => []IInv
<1>1. IInv /\ [Next]_vars => IInv'
  BY NextTypes, NextShape, NextMoves, NextKeepsUp, NextNotAhead DEF IInv
<1> QED
  BY InitIInv, <1>1, PTL DEF Spec

\* The tracker's state is well typed.
THEOREM TypeCorrect == Spec => []TypeOK
  BY Invariant, PTL DEF IInv

\* A step commits no offline device but a pending one or the one it visits.
LEMMA OfflineStep ==
  ASSUME IInv, [Next]_vars, NEW d \in Devices, GoesOffline(d), d \notin missed
  PROVE  sighted[d] + OfflineGraceTicks <= tick
<1>0. TypeOK /\ PassShape /\ RowsKeepUp
  BY DEF IInv
<1>1. CASE work[d].status = "offline"
  BY <1>0, <1>1 DEF RowsKeepUp, GoesOffline
<1>2. CASE work[d].status # "offline"
  <2>1. ASSUME NEW e \in Devices, Seen(e) \/ Stale(e)
        PROVE  e = d /\ stage = "stale" /\ IsStale(d) /\ work[d].status \in Up
    <3>1. Visits(e)
      BY <1>0, <2>1, SeenVisits, StaleVisits, StaleIsUp
    <3>2. work'[d].status = "offline"
      BY <3>1 DEF Visits, Reports, NoAlert, Same, GoesOffline
    <3>3. e = d
      BY <1>2, <3>1, <3>2 DEF Visits
    <3> QED
      BY <1>0, <2>1, <3>2, <3>3, SeenVisits, StaleIsUp DEF Up, Stale
  <2>2. ASSUME NEW e \in Devices, Seen(e) \/ Stale(e)
        PROVE  sighted[d] + OfflineGraceTicks <= tick
    <3>1. sighted[d] <= work[d].seen
      BY <1>0, <2>1, <2>2 DEF RowsKeepUp, Unvisited
    <3>2. work[d].seen \in Nat /\ sighted[d] \in Nat /\ tick \in Nat
      BY <1>0, TrackerConstants DEF TypeOK, Rows
    <3> QED
      BY <2>1, <2>2, <3>1, <3>2, TrackerConstants DEF IsStale
  <2>3. \/ UNCHANGED db
        \/ \A e \in Devices : db'[e].status \in {"unknown", db[e].status}
        \/ db' = work
        \/ \E e \in Devices : Seen(e) \/ Stale(e)
    BY DEF Next, BeginPass, RaiseBefore, FailAtStart, QueryStale, Commit, Abort,
       RaiseAfter, PurgeNoise, FinishTick, TimePasses, ResetTick, Crash, NoRow,
       tables, vars
  <2> QED
    BY <1>2, <2>2, <2>3 DEF GoesOffline
<1> QED
  BY <1>1, <1>2

\* No device is declared offline while there was evidence of it within the last
\* OfflineGraceTicks cycles, unless a pass that had it was abandoned.
THEOREM OfflineMeansAbsent == Spec => OfflineOnlyWhenAbsent
<1>1. IInv /\ [Next]_vars
        => [\A d \in Devices : GoesOffline(d) /\ d \notin missed
                                 => tick >= sighted[d] + OfflineGraceTicks]_vars
  <2> SUFFICES ASSUME IInv, [Next]_vars, NEW d \in Devices, GoesOffline(d),
                      d \notin missed
               PROVE  tick >= sighted[d] + OfflineGraceTicks
    OBVIOUS
  <2>1. sighted[d] + OfflineGraceTicks <= tick
    BY OfflineStep
  <2>2. sighted[d] \in Nat /\ tick \in Nat
    BY TrackerConstants DEF IInv, TypeOK
  <2> QED
    BY <2>1, <2>2, TrackerConstants
<1> QED
  BY Invariant, <1>1, PTL DEF Spec, OfflineOnlyWhenAbsent

\* A based pass that completes leaves no device up that was without evidence
\* for the whole grace period.
THEOREM AbsentMeansOffline == Spec => OfflineWithinGrace
<1>1. IInv /\ [Next]_vars
        => [Commit /\ baselined' =>
              \A d \in Devices : db'[d].status \in {"new", "online"}
                                   => tick < LastSign(d) + OfflineGraceTicks]_vars
  <2> SUFFICES ASSUME IInv, Commit, baselined', NEW d \in Devices,
                      db'[d].status \in {"new", "online"}
               PROVE  tick < LastSign(d) + OfflineGraceTicks
    OBVIOUS
  <2>1. stage = "stale" /\ todo = {} /\ db' = work
    BY DEF Commit
  <2>2. Based
    BY <2>1, Zenon DEF Commit, Based, InPass
  <2>3. RowsNotAhead /\ work[d].status \in Up /\ HasRow(d)
    BY <2>1 DEF IInv, Up, HasRow
  <2>4. work[d].seen <= LastSign(d)
    BY <2>2, <2>3, Zenon DEF RowsNotAhead
  <2>5. tick < work[d].seen + OfflineGraceTicks
    BY <2>1, <2>3 DEF RowsNotAhead
  <2>6. work[d].seen \in Nat /\ sighted[d] \in Nat /\ tick \in Nat
    BY TrackerConstants DEF IInv, TypeOK, Rows
  <2> QED
    BY <2>4, <2>5, <2>6, TrackerConstants DEF LastSign
<1> QED
  BY Invariant, <1>1, PTL DEF Spec, OfflineWithinGrace

\* Each step is a step of the lifecycle, or leaves the lifecycle alone.
LEMMA StepRefines ==
  ASSUME IInv, TypeOK', Next
  PROVE  Lifecycle!Next \/ UNCHANGED Lifecycle!vars
<1>0. TypeOK /\ PassShape /\ PendingMoves
  BY DEF IInv
<1> DEFINE Moved(d) ==
             \/ Lifecycle!Silent(db[d].status, db'[d].status) /\ told'[d] = told[d]
             \/ Lifecycle!Announced(db[d].status, db'[d].status, told'[d])
             \/ db'[d].status = "unknown" /\ told'[d] = "none"
<1>1. ASSUME \A d \in Devices : Moved(d)
      PROVE  Lifecycle!Next
  <2>1. db' \in [Devices -> Rows] /\ told' \in [Devices -> Alerts]
        /\ quiet' \in BOOLEAN /\ initial' \in BOOLEAN
    BY <1>0 DEF TypeOK
  <2>2. [d \in Devices |-> db'[d].status] \in [Devices -> Statuses]
    BY <2>1 DEF Rows
  <2>3. ASSUME NEW d \in Devices PROVE Lifecycle!Moves(d)
    <3>1. Moved(d)
      BY <1>1
    <3> QED
      BY <3>1 DEF Lifecycle!Moves
  <2> QED
    BY <2>1, <2>2, <2>3 DEF Lifecycle!Next, Lifecycle!Statuses, Lifecycle!Alerts,
       Statuses, Alerts
<1>2. ASSUME UNCHANGED <<db, told>> PROVE Lifecycle!Next
  <2>1. \A d \in Devices : Moved(d)
    BY <1>2, SilentStays
  <2> QED
    BY <1>1, <2>1
<1> HIDE DEF Moved
<1>3. ASSUME NEW d \in Devices, Seen(d) \/ Stale(d)
      PROVE  Lifecycle!Next
  <2>1. Visits(d)
    BY <1>0, <1>3, SeenVisits, StaleVisits, StaleIsUp
  <2>2. CASE NoAlert
    BY <1>2, <2>2 DEF NoAlert
  <2>3. CASE ~NoAlert
    <3>1. /\ \A e \in Devices : db'[e].status = work'[e].status
          /\ \A e \in Devices \ {d} : told'[e] = told[e]
          /\ Lifecycle!Announced(work[d].status, work'[d].status, told'[d])
      BY <2>1, <2>3 DEF Visits, Reports, Same
    <3>2. work[d].status = db[d].status
      BY <1>0, <1>3, <2>1, SeenVisits, StaleVisits, StaleIsUp
      DEF PendingMoves, Visits, InPass
    <3>3. Moved(d)
      BY <3>1, <3>2 DEF Moved
    <3>4. ASSUME NEW e \in Devices \ {d} PROVE Moved(e)
      <4>1. work'[e] = work[e] /\ Lifecycle!Silent(db[e].status, work[e].status)
        BY <1>0, <2>1 DEF Visits, PendingMoves
      <4> QED
        BY <3>1, <4>1 DEF Moved
    <3> QED
      BY <1>1, <3>3, <3>4
  <2> QED
    BY <2>2, <2>3
<1>4. CASE Commit
  <2>1. db' = work /\ told' = told
    BY <1>4 DEF Commit
  <2>2. \A d \in Devices : Moved(d)
    BY <1>0, <2>1 DEF Moved, PendingMoves
  <2> QED
    BY <1>1, <2>2
<1>5. CASE (\E noise \in SUBSET Devices : PurgeNoise(noise)) \/ Crash
  <2>1. \A d \in Devices : \/ db'[d] = db[d] /\ told'[d] = told[d]
                           \/ db'[d].status = "unknown" /\ told'[d] = "none"
    BY <1>0, <1>5 DEF PurgeNoise, Crash, NoRow, TypeOK
  <2>2. \A d \in Devices : Moved(d)
    BY <2>1, SilentStays DEF Moved
  <2> QED
    BY <1>1, <2>2
<1>6. CASE \/ \E located, heard \in SUBSET Devices : BeginPass(located, heard)
           \/ \E heard \in SUBSET Devices : RaiseBefore(heard) \/ FailAtStart(heard)
           \/ QueryStale \/ Abort \/ RaiseAfter
           \/ FinishTick \/ TimePasses \/ ResetTick
  <2>1. UNCHANGED <<db, told>>
    BY <1>6 DEF BeginPass, RaiseBefore, FailAtStart, QueryStale, Abort,
       RaiseAfter, FinishTick, TimePasses, ResetTick, tables
  <2> QED
    BY <1>2, <2>1
<1> QED
  BY <1>3, <1>4, <1>5, <1>6 DEF Next

\* The tracker implements the lifecycle: what a reader of network.db sees are
\* legal moves of devices, each together with its alert.
THEOREM TrackerImplementsLifecycle == Spec => ImplementsLifecycle
<1>1. Init => Lifecycle!Init
  BY DEF Init, Lifecycle!Init, NoRow
<1>2. IInv /\ [Next]_vars => [Lifecycle!Next]_Lifecycle!vars
  <2> SUFFICES ASSUME IInv, [Next]_vars
               PROVE  Lifecycle!Next \/ UNCHANGED Lifecycle!vars
    OBVIOUS
  <2>1. CASE Next
    BY <2>1, NextTypes, StepRefines
  <2>2. CASE UNCHANGED vars
    BY <2>2 DEF vars, tables, pass, Lifecycle!vars
  <2> QED
    BY <2>1, <2>2
<1> QED
  BY Invariant, <1>1, <1>2, PTL DEF Spec, ImplementsLifecycle, Lifecycle!Spec
=============================================================================
