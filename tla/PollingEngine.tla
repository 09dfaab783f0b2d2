---------------------------- MODULE PollingEngine ----------------------------
(***************************************************************************)
(* The tick loop of the poller, background_polling_engine() in             *)
(* src/main.py, and the requests the API process places in config.db and   *)
(* in the IPC store for it.  One pass of the loop is cut where another     *)
(* process can slip in between: every read and every write of a shared     *)
(* setting is a step of its own.  What the discovery stages do is left to  *)
(* the other modules; here a group of stages either completes or raises.   *)
(***************************************************************************)
EXTENDS Integers

CONSTANTS
  SlowInterval,   \* SLOW_CYCLE_INTERVAL: ticks between structural deep scans
  MaxTick,        \* bound: a later tick is folded back by SlowInterval
  MaxRequests,    \* bound on the requests made through the API
  MaxCrashes,     \* bound on process crashes
  Native,         \* NETLANVAS_MODE = "native": RESTART stays in the process
  ArchiveOnBoot   \* DB_ARCHIVE_ON_BOOT: booting starts from an empty network.db

\* Folding keeps every test the loop makes of tick_counter: "<= 1", "= 2" and
\* "divisible by SlowInterval".
ASSUME EngineConstants ==
  /\ SlowInterval \in Nat \ {0}
  /\ MaxTick \in Nat /\ MaxTick >= SlowInterval + 2
  /\ MaxRequests \in Nat
  /\ MaxCrashes \in Nat
  /\ Native \in BOOLEAN
  /\ ArchiveOnBoot \in BOOLEAN

VARIABLES
  tick,        \* tick_counter, a local of the loop
  engineTick,  \* ENGINE_TICK, what the UI is told
  stage,       \* where the loop is
  command,     \* ENGINE_COMMAND = "RESTART" is waiting in the IPC store
  rebuild,     \* FORCE_TOPOLOGY_REBUILD
  setup,       \* SETUP_COMPLETE
  limited,     \* POLLING_MODE = "time_limited"
  active,      \* _POLLING_ACTIVE
  started,     \* _POLLING_STARTED_AT: blank, inside the duration, or past it
  pausedAt,    \* _POLLING_PAUSED_AT is set
  discovered,  \* _INITIAL_DISCOVERY_COMPLETE
  startNow,    \* progress of the API's POST /api/polling/start
  requests,    \* number of API requests so far
  crashes,     \* number of crashes so far
  scans,       \* history: deep scans completed over this network.db (at most 2)
  damaged      \* history: the last rotation removed network.db, then failed

loopVars == <<tick, engineTick, stage>>
settings == <<rebuild, setup, limited, active, started, pausedAt, discovered>>
history == <<scans, damaged>>
vars == <<loopVars, settings, history, command, startNow, requests, crashes>>

Stages == {"top", "gate", "active", "timer", "expire", "expired", "fast",
           "deep", "finish"}
StartedAt == {"blank", "running", "elapsed"}

\* Types: settings, the stage of the pass and its counters, in every interleaving.
TypeOK ==
  /\ tick \in 0 .. MaxTick
  /\ engineTick \in 0 .. MaxTick
  /\ stage \in Stages
  /\ command \in BOOLEAN
  /\ rebuild \in BOOLEAN
  /\ setup \in BOOLEAN
  /\ limited \in BOOLEAN
  /\ active \in BOOLEAN
  /\ started \in StartedAt
  /\ pausedAt \in BOOLEAN
  /\ discovered \in BOOLEAN
  /\ startNow \in {"idle", "activated", "cleared"}
  /\ requests \in 0 .. MaxRequests
  /\ crashes \in 0 .. MaxCrashes
  /\ scans \in 0 .. 2
  /\ damaged \in BOOLEAN

Init ==
  /\ tick = 0 /\ engineTick = 0 /\ stage = "top"
  /\ command = FALSE
  /\ rebuild = FALSE /\ setup = FALSE /\ limited = FALSE
  /\ active = TRUE /\ started = "blank" /\ pausedAt = FALSE
  /\ discovered = FALSE
  /\ startNow = "idle"
  /\ requests = 0 /\ crashes = 0 /\ scans = 0 /\ damaged = FALSE

-----------------------------------------------------------------------------
(* Process start.  rotate_database() copies and removes network.db and its   *)
(* WAL files one by one and clears the discovery flag after the last one; an *)
(* exception on the way is logged and the boot goes on.                      *)

MutantArchive == scans' = 0 /\ damaged' = FALSE /\ UNCHANGED discovered

Archive == scans' = 0 /\ damaged' = FALSE /\ discovered' = FALSE

ArchiveInPart == scans' = 0 /\ damaged' = TRUE /\ UNCHANGED discovered

RotateDatabase ==
  \/ ArchiveOnBoot /\ Archive
  \/ ArchiveOnBoot /\ ArchiveInPart
  \/ UNCHANGED <<discovered, history>>   \* persistent mode, or nothing copied

EnterLoop == tick' = 0 /\ engineTick' = 0 /\ stage' = "top"

\* The IPC store is a Redis server that outlives the poller, except in native
\* mode, where it is an object of the process that dies.
Crash ==
  /\ crashes < MaxCrashes
  /\ crashes' = crashes + 1
  /\ EnterLoop
  /\ RotateDatabase
  /\ command' = IF Native THEN FALSE ELSE command
  /\ startNow' = IF Native THEN "idle" ELSE startNow
  /\ UNCHANGED <<rebuild, setup, limited, active, started, pausedAt, requests>>

-----------------------------------------------------------------------------
(* One pass of the loop.                                                    *)

\* RESTART leaves the loop.  A container exits and is started again; native
\* mode enters the loop again without passing through rotate_database().
ServeRestart ==
  /\ stage = "top" /\ command
  /\ command' = FALSE
  /\ EnterLoop
  /\ IF Native THEN UNCHANGED <<discovered, history>> ELSE RotateDatabase
  /\ UNCHANGED <<rebuild, setup, limited, active, started, pausedAt,
                 startNow, requests, crashes>>

\* A reset that counts on the increment at the end of the pass.
MutantServeRebuild ==
  /\ stage = "top" /\ ~command
  /\ stage' = "gate"
  /\ tick' = IF rebuild THEN -1 ELSE tick
  /\ rebuild' = FALSE
  /\ UNCHANGED <<engineTick, setup, limited, active, started, pausedAt,
                 discovered, command, startNow, requests, crashes, history>>

\* A forced topology rebuild restarts the tick count inside the same process.
ServeRebuild ==
  /\ stage = "top" /\ ~command
  /\ stage' = "gate"
  /\ tick' = IF rebuild THEN 0 ELSE tick
  /\ rebuild' = FALSE
  /\ UNCHANGED <<engineTick, setup, limited, active, started, pausedAt,
                 discovered, command, startNow, requests, crashes, history>>

Idle(st, next) ==
  /\ stage = st
  /\ stage' = next
  /\ UNCHANGED <<tick, engineTick, settings, command, startNow, requests,
                 crashes, history>>

AwaitSetup == ~setup /\ Idle("gate", "top")

ReadMode == setup /\ Idle("gate", IF limited THEN "active" ELSE "fast")

ReadActive == Idle("active", IF active THEN "timer" ELSE "top")

\* A blank start time is stamped by the pass that resumes the work.
StampStart ==
  /\ stage = "timer" /\ started = "blank"
  /\ started' = "running"
  /\ tick' = 0
  /\ stage' = "fast"
  /\ UNCHANGED <<engineTick, rebuild, setup, limited, active, pausedAt,
                 discovered, command, startNow, requests, crashes, history>>

CheckTimer ==
  /\ started # "blank"
  /\ Idle("timer", IF started = "elapsed" THEN "expire" ELSE "fast")

MutantExpire == Idle("expire", "expired")

Expire ==
  /\ stage = "expire"
  /\ active' = FALSE
  /\ stage' = "expired"
  /\ UNCHANGED <<tick, engineTick, rebuild, setup, limited, started, pausedAt,
                 discovered, command, startNow, requests, crashes, history>>

StampPause ==
  /\ stage = "expired"
  /\ pausedAt' = TRUE
  /\ stage' = "top"
  /\ UNCHANGED <<tick, engineTick, rebuild, setup, limited, active, started,
                 discovered, command, startNow, requests, crashes, history>>

MutantIsDeepScanTick == tick <= 1

IsDeepScanTick == tick <= 1 \/ tick % SlowInterval = 0

RunFastStages == Idle("fast", IF IsDeepScanTick THEN "deep" ELSE "finish")

RunDeepStages ==
  /\ stage = "deep"
  /\ stage' = "finish"
  /\ scans' = IF scans < 2 THEN scans + 1 ELSE scans
  /\ UNCHANGED <<tick, engineTick, settings, command, startNow, requests,
                 crashes, damaged>>

\* A stage that raises is retried ten seconds later, under the same tick.
StageRaises == Idle("fast", "top") \/ Idle("deep", "top")

NextTick == IF tick < MaxTick THEN tick + 1 ELSE tick + 1 - SlowInterval

FinishTick ==
  /\ stage = "finish"
  /\ tick' = NextTick
  /\ engineTick' = NextTick
  /\ discovered' = (discovered \/ NextTick = 2)
  /\ stage' = "top"
  /\ UNCHANGED <<rebuild, setup, limited, active, started, pausedAt, command,
                 startNow, requests, crashes, history>>

-----------------------------------------------------------------------------
(* The API process, and time.                                               *)

Request ==
  /\ requests < MaxRequests
  /\ requests' = requests + 1

RequestRestart ==
  /\ Request
  /\ command' = TRUE
  /\ UNCHANGED <<loopVars, settings, startNow, crashes, history>>

RequestRebuild ==
  /\ Request
  /\ rebuild' = TRUE
  /\ UNCHANGED <<loopVars, setup, limited, active, started, pausedAt,
                 discovered, command, startNow, crashes, history>>

\* The wizard completes the setup once; the schedule card sets the mode.
CompleteSetup ==
  /\ ~setup
  /\ setup' = TRUE
  /\ UNCHANGED <<loopVars, rebuild, limited, active, started, pausedAt,
                 discovered, command, startNow, requests, crashes, history>>

SetPollingMode ==
  /\ Request
  /\ limited' = ~limited
  /\ UNCHANGED <<loopVars, rebuild, setup, active, started, pausedAt,
                 discovered, command, startNow, crashes, history>>

\* start_polling_now() writes three settings, each in a transaction of its own.
StartActivate ==
  /\ startNow = "idle"
  /\ Request
  /\ active' = TRUE
  /\ startNow' = "activated"
  /\ UNCHANGED <<loopVars, rebuild, setup, limited, started, pausedAt,
                 discovered, command, crashes, history>>

StartClearStamp ==
  /\ startNow = "activated"
  /\ started' = "blank"
  /\ startNow' = "cleared"
  /\ UNCHANGED <<loopVars, rebuild, setup, limited, active, pausedAt,
                 discovered, command, requests, crashes, history>>

StartReply ==
  /\ startNow = "cleared"
  /\ pausedAt' = FALSE
  /\ startNow' = "idle"
  /\ UNCHANGED <<loopVars, rebuild, setup, limited, active, started,
                 discovered, command, requests, crashes, history>>

DurationElapses ==
  /\ started = "running"
  /\ started' = "elapsed"
  /\ UNCHANGED <<loopVars, rebuild, setup, limited, active, pausedAt,
                 discovered, command, startNow, requests, crashes, history>>

-----------------------------------------------------------------------------
Loop ==
  \/ ServeRestart \/ ServeRebuild
  \/ AwaitSetup \/ ReadMode \/ ReadActive
  \/ StampStart \/ CheckTimer \/ Expire \/ StampPause
  \/ RunFastStages \/ RunDeepStages \/ FinishTick

StartPollingNow == StartActivate \/ StartClearStamp \/ StartReply

Api ==
  \/ RequestRestart \/ RequestRebuild
  \/ CompleteSetup \/ SetPollingMode \/ StartPollingNow

Next == Loop \/ StageRaises \/ Api \/ DurationElapses \/ Crash

\* The loop is one coroutine that always runs on; a stage may raise now and
\* then but not for ever; an API handler that has begun ends.
Fairness ==
  /\ WF_vars(Loop)
  /\ SF_vars(RunFastStages)
  /\ SF_vars(RunDeepStages)
  /\ WF_vars(StartClearStamp \/ StartReply)

Spec == Init /\ [][Next]_vars /\ Fairness

-----------------------------------------------------------------------------
(* Properties.                                                              *)

Suspended == ~setup \/ (limited /\ ~active)

\* The flag that unlocks the dashboard (main.py 1505-1529) means that two deep
\* scans, the two phases of initial discovery, have completed over the very
\* network.db that is being shown, whatever restarts, rebuilds, resumed runs,
\* failed stages and archived databases came in between.
UnlockedAfterBothPhases == discovered /\ ~damaged => scans = 2

\* A time-limited run whose duration is over is paused, stamped afresh, or
\* switched back to continuous mode: the loop cannot run past the limit
\* however often its stages raise (main.py 1374-1391).
LimitedRunEnds ==
  (setup /\ limited /\ active /\ started = "elapsed")
    ~> (~active \/ started = "blank" \/ ~limited)

\* Structural deep scans never die out while polling is allowed: no sequence
\* of restarts, rebuilds, mode changes and failed stages leaves the loop
\* ticking without them (main.py 1407, 1468-1494).
DeepScansRecur == []<>(stage = "deep") \/ <>[]Suspended

\* What the handler of "Start Now" promises when it replies (server.py
\* 1617-1631): polling is active, so that the loop's next pass stamps a fresh
\* start time and resumes the work.
StartNowTakesEffect ==
  [][startNow = "cleared" /\ startNow' = "idle" => active']_vars
=============================================================================
