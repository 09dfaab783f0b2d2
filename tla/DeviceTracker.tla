---------------------------- MODULE DeviceTracker ----------------------------
(***************************************************************************)
(* The device state tracker, src/pollers/device_state_tracker.py, inside   *)
(* the tick loop that calls it.  A pass reads who is present, walks over   *)
(* the present devices and then over the stale ones, and commits at its    *)
(* end; but each alert it raises commits everything the pass has written   *)
(* so far, and any statement may find network.db locked by the alert       *)
(* dispatcher or the API, which abandons the pass while the tick goes on.  *)
(* So db is what is committed and work is what this connection sees.       *)
(***************************************************************************)
EXTENDS Naturals

CONSTANTS
  Devices,            \* MAC addresses
  OfflineGraceTicks,  \* OFFLINE_GRACE_TICKS
  PopulationWindow,   \* INITIAL_POPULATION_TICK_WINDOW
  GraceSleeps,        \* STARTUP_GRACE_SECONDS in sleeps of the loop (180 / 60)
  FlapThreshold,      \* FLAP_THRESHOLD
  SlowInterval,       \* SLOW_CYCLE_INTERVAL
  ArchiveOnBoot,      \* DB_ARCHIVE_ON_BOOT
  MaxTick,            \* bound on the tick counter
  MaxResets,          \* bound on rebuilds and other resets of the tick counter
  MaxCrashes,         \* bound on restarts of the process
  MaxFaults           \* bound on abandoned passes and raising stages

ASSUME TrackerConstants ==
  /\ OfflineGraceTicks \in Nat \ {0}
  /\ PopulationWindow \in Nat
  /\ GraceSleeps \in Nat
  /\ FlapThreshold \in Nat \ {0}
  /\ SlowInterval \in Nat \ {0}
  /\ ArchiveOnBoot \in BOOLEAN
  /\ MaxTick \in Nat
  /\ MaxResets \in Nat
  /\ MaxCrashes \in Nat
  /\ MaxFaults \in Nat

VARIABLES
  tick,        \* tick_counter of the loop
  uptime,      \* sleeps since the process started, at most GraceSleeps
  population,  \* _initial_population_detected
  prevKnown,   \* _previous_tick_started_at is set
  heardSince,  \* devices whose l3_bindings row was refreshed since that moment
  db,          \* device_state and its history, as committed
  work,        \* the same as the pass sees it
  told,        \* newest alert about each device in the inbox
  stage,       \* where the tick is
  present,     \* present_macs of the pass
  todo,        \* devices the walk at hand still has to visit
  quiet,       \* suppress_alerts of the pass
  initial,     \* suppress_new_device_alerts of the pass
  faults,      \* number of faults so far
  resets,      \* number of resets of the tick counter so far
  crashes,     \* number of restarts of the process so far
  sighted,     \* history: last tick since the reset with evidence of a device
  missed,      \* history: a pass that had evidence of a device was abandoned
  baselined    \* history: the baseline was committed since the last reset

process == <<uptime, population, prevKnown, heardSince>>
tables == <<db, work, told>>
pass == <<stage, present, todo, quiet, initial>>
budget == <<faults, resets, crashes>>
history == <<sighted, missed, baselined>>
vars == <<tick, process, tables, pass, budget, history>>

Stages == {"scan", "seen", "stale", "rest", "done"}
Statuses == {"unknown", "new", "online", "offline"}
Alerts == {"none", "new_device", "device_online", "device_offline"}
Rows == [status : Statuses, seen : 0 .. MaxTick,
         outages : 0 .. FlapThreshold, flapping : BOOLEAN]

\* Types: device_state as committed and as the pass sees it, and the pass itself.
TypeOK ==
  /\ tick \in 0 .. MaxTick
  /\ uptime \in 0 .. GraceSleeps
  /\ population \in {"unchecked", "empty", "populated"}
  /\ prevKnown \in BOOLEAN
  /\ heardSince \subseteq Devices
  /\ db \in [Devices -> Rows]
  /\ work \in [Devices -> Rows]
  /\ told \in [Devices -> Alerts]
  /\ stage \in Stages
  /\ present \subseteq Devices
  /\ todo \subseteq Devices
  /\ quiet \in BOOLEAN
  /\ initial \in BOOLEAN
  /\ faults \in 0 .. MaxFaults
  /\ resets \in 0 .. MaxResets
  /\ crashes \in 0 .. MaxCrashes
  /\ sighted \in [Devices -> 0 .. MaxTick]
  /\ missed \subseteq Devices
  /\ baselined \in BOOLEAN

NoRow == [status |-> "unknown", seen |-> 0, outages |-> 0, flapping |-> FALSE]

Init ==
  /\ tick = 0
  /\ uptime = 0 /\ population = "unchecked"
  /\ prevKnown = FALSE /\ heardSince = {}
  /\ db = [d \in Devices |-> NoRow] /\ work = db
  /\ told = [d \in Devices |-> "none"]
  /\ stage = "scan" /\ present = {} /\ todo = {}
  /\ quiet = FALSE /\ initial = FALSE
  /\ faults = 0 /\ resets = 0 /\ crashes = 0
  /\ sighted = [d \in Devices |-> 0] /\ missed = {} /\ baselined = FALSE

Fault == faults < MaxFaults /\ faults' = faults + 1
NoFault == UNCHANGED faults

-----------------------------------------------------------------------------
(* The start of a pass.                                                     *)

HasRow(d) == work[d].status # "unknown"

\* _reset_tick_baseline_if_needed()
MutantBaseline == work

Baseline ==
  IF tick <= 1
  THEN [d \in Devices |->
          IF HasRow(d) THEN [work[d] EXCEPT !.seen = tick] ELSE work[d]]
  ELSE work

\* _in_initial_population() looks at the table once in the life of a process.
FirstLook == IF \E d \in Devices : HasRow(d) THEN "populated" ELSE "empty"

\* Evidence refreshed since the start of the previous call, by stages of this
\* attempt (heard) or of earlier ones; the first call of a process only looks
\* at its own attempt.
FreshBindings(heard) == IF prevKnown THEN heardSince \cup heard ELSE heard

\* The scanning stages leave some rows in endpoint_locations (located), old or
\* new, and refresh some rows of l3_bindings; then the pass reads them.
BeginPass(located, heard) ==
  /\ stage = "scan"
  /\ stage' = "seen"
  /\ present' = located \cup FreshBindings(heard)
  /\ todo' = present'
  /\ heardSince' = heard
  /\ prevKnown' = TRUE
  /\ population' = IF population = "unchecked" THEN FirstLook ELSE population
  /\ quiet' = (uptime < GraceSleeps)
  /\ initial' = (population' = "empty" /\ tick <= PopulationWindow)
  /\ work' = Baseline
  /\ sighted' = [d \in Devices |-> IF d \in present' THEN tick ELSE sighted[d]]
  /\ UNCHANGED <<tick, uptime, db, told, budget, missed, baselined>>

\* A stage before the tracker raises: the loop retries the tick.
RaiseBefore(heard) ==
  /\ stage = "scan"
  /\ Fault
  /\ heardSince' = IF prevKnown THEN heardSince \cup heard ELSE {}
  /\ UNCHANGED <<tick, uptime, population, prevKnown, tables, pass, resets,
                 crashes, history>>

\* The baseline update is the first statement of a pass to need the lock.
FailAtStart(heard) ==
  /\ stage = "scan" /\ tick <= 1
  /\ Fault
  /\ stage' = "rest"
  /\ heardSince' = IF prevKnown THEN heardSince \cup heard ELSE {}
  /\ sighted' = [d \in Devices |-> IF d \in heard THEN tick ELSE sighted[d]]
  /\ missed' = missed \cup heard
  /\ UNCHANGED <<tick, uptime, population, prevKnown, tables, present, todo,
                 quiet, initial, resets, crashes, baselined>>

-----------------------------------------------------------------------------
(* The two walks.                                                           *)

\* create_alert() commits whatever the pass has written so far.
CommitWith(rows, d, alert) ==
  /\ db' = rows
  /\ told' = [told EXCEPT ![d] = alert]
  /\ baselined' = (baselined \/ tick <= 1)

NoAlert == UNCHANGED <<db, told, baselined>>

\* The move at hand is counted once more, after its history row.
MutantCheckFlapping(row) == {[row EXCEPT !.outages = @ + 1]}

\* _check_flapping() counts the outages of the last half hour, which may be
\* fewer than all of them.
CheckFlapping(row) ==
  IF row.outages >= FlapThreshold THEN {row, [row EXCEPT !.flapping = TRUE]}
                                  ELSE {row}

SeenNew(d) ==
  LET rows == [work EXCEPT ![d].status = "new", ![d].seen = tick]
  IN  /\ ~HasRow(d)
      /\ work' = rows
      /\ IF initial THEN NoAlert ELSE CommitWith(rows, d, "new_device")

SeenAgain(d) ==
  /\ work[d].status \in {"new", "online"}
  /\ work' = [work EXCEPT ![d].status = "online", ![d].seen = tick]
  /\ NoAlert

\* The alert goes out, with its commit, before the new status is written.
MutantSeenBack(d) ==
  /\ work[d].status = "offline"
  /\ work' = [work EXCEPT ![d].status = "online", ![d].seen = tick]
  /\ IF quiet THEN NoAlert ELSE CommitWith(work, d, "device_online")

SeenBack(d) ==
  LET row == [work[d] EXCEPT !.status = "online", !.seen = tick]
  IN  /\ work[d].status = "offline"
      /\ \E next \in CheckFlapping(row) : work' = [work EXCEPT ![d] = next]
      /\ IF quiet THEN NoAlert
                  ELSE CommitWith([work EXCEPT ![d] = row], d, "device_online")

Seen(d) ==
  /\ stage = "seen" /\ d \in todo
  /\ SeenNew(d) \/ SeenAgain(d) \/ SeenBack(d)
  /\ todo' = todo \ {d}
  /\ UNCHANGED <<tick, process, stage, present, quiet, initial, budget,
                 sighted, missed>>

MutantIsStale(d) ==
  /\ work[d].status \in {"new", "online"}
  /\ tick + 1 >= work[d].seen + OfflineGraceTicks

IsStale(d) ==
  /\ work[d].status \in {"new", "online"}
  /\ tick >= work[d].seen + OfflineGraceTicks

QueryStale ==
  /\ stage = "seen" /\ todo = {}
  /\ stage' = "stale"
  /\ todo' = {d \in Devices : IsStale(d)} \ present
  /\ UNCHANGED <<tick, process, tables, present, quiet, initial, budget,
                 history>>

Stale(d) ==
  LET row == [work[d] EXCEPT !.status = "offline",
                !.outages = IF @ < FlapThreshold THEN @ + 1 ELSE @]
  IN  /\ stage = "stale" /\ d \in todo
      /\ \E next \in CheckFlapping(row) : work' = [work EXCEPT ![d] = next]
      /\ IF quiet THEN NoAlert
                  ELSE CommitWith([work EXCEPT ![d] = row], d, "device_offline")
      /\ todo' = todo \ {d}
      /\ UNCHANGED <<tick, process, stage, present, quiet, initial, budget,
                     sighted, missed>>

-----------------------------------------------------------------------------
(* The end of a pass, and of the tick.                                      *)

\* The locals of the call are gone.
EndPass(st) ==
  /\ stage' = st
  /\ present' = {} /\ todo' = {}
  /\ quiet' = FALSE /\ initial' = FALSE

Commit ==
  /\ stage = "stale" /\ todo = {}
  /\ EndPass("rest")
  /\ db' = work
  /\ baselined' = (baselined \/ tick <= 1)
  /\ missed' = missed \ present
  /\ UNCHANGED <<tick, process, work, told, budget, sighted>>

\* An exception, "database is locked" for one: the pass is rolled back and the
\* loop never hears of it.
Abort ==
  /\ stage \in {"seen", "stale"}
  /\ Fault
  /\ EndPass("rest")
  /\ work' = db
  /\ missed' = missed \cup present
  /\ UNCHANGED <<tick, process, db, told, resets, crashes, sighted, baselined>>

\* A stage after the tracker raises: the same tick is run again.
RaiseAfter ==
  /\ stage = "rest"
  /\ Fault
  /\ EndPass("scan")
  /\ UNCHANGED <<tick, process, tables, resets, crashes, history>>

\* stage_purge_router_arp_cache_noise() ends a deep scan.  It erases devices
\* that turn out to be no neighbours, except for their device_findings.
PurgeNoise(noise) ==
  /\ stage = "rest"
  /\ tick <= 1 \/ tick % SlowInterval = 0
  /\ EndPass("done")
  /\ db' = [d \in Devices |->
              IF d \in noise
              THEN [NoRow EXCEPT !.flapping = db[d].flapping] ELSE db[d]]
  /\ work' = db'
  /\ told' = [d \in Devices |-> IF d \in noise THEN "none" ELSE told[d]]
  /\ UNCHANGED <<tick, process, budget, history>>

NextTick == tick + 1

\* The second tick follows the first without a sleep.
FinishTick ==
  /\ stage \in {"rest", "done"} /\ tick < MaxTick
  /\ tick' = NextTick
  /\ EndPass("scan")
  /\ uptime' = IF tick > 0 /\ uptime < GraceSleeps THEN uptime + 1 ELSE uptime
  /\ UNCHANGED <<population, prevKnown, heardSince, tables, budget, history>>

\* A cycle, a pause or a retry takes as long as it takes.
TimePasses ==
  /\ stage = "scan" /\ uptime < GraceSleeps
  /\ uptime' = GraceSleeps
  /\ UNCHANGED <<tick, population, prevKnown, heardSince, tables, pass, budget,
                 history>>

-----------------------------------------------------------------------------
(* The tick counter starts over.                                            *)

StartOver ==
  /\ tick' = 0
  /\ sighted' = [d \in Devices |-> 0]
  /\ missed' = {}
  /\ baselined' = FALSE

\* A forced rebuild, a resumed time-limited run, or RESTART in native mode:
\* the process, and with it the state of this module, lives on.
ResetTick ==
  /\ stage = "scan" /\ tick > 0
  /\ resets < MaxResets
  /\ resets' = resets + 1
  /\ StartOver
  /\ UNCHANGED <<process, tables, pass, faults, crashes>>

\* The process dies anywhere and is started again, maybe over a new network.db.
Crash ==
  /\ crashes < MaxCrashes
  /\ crashes' = crashes + 1
  /\ StartOver
  /\ uptime' = 0 /\ population' = "unchecked"
  /\ prevKnown' = FALSE /\ heardSince' = {}
  /\ EndPass("scan")
  /\ \/ UNCHANGED <<db, told>>
     \/ /\ ArchiveOnBoot
        /\ db' = [d \in Devices |-> NoRow]
        /\ told' = [d \in Devices |-> "none"]
  /\ work' = db'
  /\ UNCHANGED <<faults, resets>>

-----------------------------------------------------------------------------
Next ==
  \/ \E located, heard \in SUBSET Devices : BeginPass(located, heard)
  \/ \E heard \in SUBSET Devices : RaiseBefore(heard) \/ FailAtStart(heard)
  \/ \E d \in Devices : Seen(d) \/ Stale(d)
  \/ QueryStale \/ Commit \/ Abort
  \/ RaiseAfter \/ (\E noise \in SUBSET Devices : PurgeNoise(noise))
  \/ FinishTick \/ TimePasses
  \/ ResetTick \/ Crash

Spec == Init /\ [][Next]_vars

-----------------------------------------------------------------------------
(* Properties.                                                              *)

\* device_state and the inbox together: whatever is committed, in the middle
\* of a pass or at its end, moves each device along a legal edge together with
\* the alert that the edge calls for (device_state_tracker.py 351-413 and the
\* commit inside create_alert, alerting.py 85-114).
Lifecycle == INSTANCE DeviceLifecycle WITH
  status <- [d \in Devices |-> db[d].status]

ImplementsLifecycle == Lifecycle!Spec

GoesOffline(d) == db[d].status # "offline" /\ db'[d].status = "offline"

\* A device is declared offline only when no cycle of the last
\* OfflineGraceTicks had evidence of it, unless a pass with such evidence was
\* abandoned on the way (device_state_tracker.py 18-23, 392-403).
OfflineOnlyWhenAbsent ==
  [][\A d \in Devices : GoesOffline(d) /\ d \notin missed
                          => tick >= sighted[d] + OfflineGraceTicks]_vars

LastSign(d) == IF sighted[d] = 0 THEN 1 ELSE sighted[d]

\* A completed pass leaves no device new or online that has been without
\* evidence for OfflineGraceTicks ticks of this count, however old its row is
\* and however often the count started over, once the new baseline has been
\* committed (device_state_tracker.py 102-116, 392-398).
OfflineWithinGrace ==
  [][Commit /\ baselined' =>
       \A d \in Devices : db'[d].status \in {"new", "online"}
                            => tick < LastSign(d) + OfflineGraceTicks]_vars
=============================================================================
