------------------------- MODULE PollingEngineProofs -------------------------
(* Proofs about PollingEngine for every value of its constants.              *)
EXTENDS PollingEngine, TLAPS

\* The flag is raised by the step that makes the tick 2, so the scans have to
\* be counted along the ticks, up to the point just before that step.
ScansFollowTicks ==
  /\ tick >= 1 => scans >= 1
  /\ tick >= 2 => scans = 2
  /\ stage = "finish" /\ tick = 0 => scans >= 1
  /\ stage = "finish" /\ tick = 1 => scans = 2

\* The type invariant in three parts, since provers take counters and flags
\* differently.
Counters ==
  /\ tick \in 0 .. MaxTick /\ engineTick \in 0 .. MaxTick
  /\ requests \in 0 .. MaxRequests /\ crashes \in 0 .. MaxCrashes
  /\ scans \in 0 .. 2

Control ==
  /\ stage \in Stages
  /\ started \in StartedAt
  /\ startNow \in {"idle", "activated", "cleared"}

Flags ==
  /\ command \in BOOLEAN /\ rebuild \in BOOLEAN /\ setup \in BOOLEAN
  /\ limited \in BOOLEAN /\ active \in BOOLEAN /\ pausedAt \in BOOLEAN
  /\ discovered \in BOOLEAN /\ damaged \in BOOLEAN

\* The parts make up the whole.
LEMMA TypeParts == TypeOK <=> Counters /\ Control /\ Flags
  BY DEF TypeOK, Counters, Control, Flags

IInv == TypeOK /\ ScansFollowTicks /\ UnlockedAfterBothPhases

\* The initial state satisfies the inductive invariant.
LEMMA InitIInv == Init => IInv
<1> SUFFICES ASSUME Init PROVE IInv
  OBVIOUS
<1>1. Counters
  BY EngineConstants DEF Init, Counters
<1>2. Control
  BY DEF Init, Control, Stages, StartedAt
<1>3. Flags
  BY DEF Init, Flags
<1>4. ScansFollowTicks
  BY DEF Init, ScansFollowTicks
<1>5. UnlockedAfterBothPhases
  BY DEF Init, UnlockedAfterBothPhases
<1> QED
  BY <1>1, <1>2, <1>3, <1>4, <1>5, TypeParts DEF IInv

\* Folding a tick back never makes it 0, 1 or 2, so it is never taken for the
\* tick that unlocks the dashboard.
LEMMA NextTickFacts ==
  ASSUME tick \in 0 .. MaxTick
  PROVE  /\ NextTick \in 0 .. MaxTick
         /\ NextTick = 1 => tick = 0
         /\ NextTick = 2 => tick = 1
         /\ NextTick >= 2 => tick >= 1
  BY EngineConstants DEF NextTick

\* A step that keeps tick, discovered and the history, and does not reach the
\* end of a tick, keeps the parts that relate them.
LEMMA Untouched ==
  ASSUME TypeOK, ScansFollowTicks, UnlockedAfterBothPhases,
         UNCHANGED <<discovered, scans, damaged>>,
         tick' = tick \/ tick' = 0,
         stage' # "finish"
  PROVE  ScansFollowTicks' /\ UnlockedAfterBothPhases'
<1>1. tick \in 0 .. MaxTick
  BY DEF TypeOK
<1>2. ScansFollowTicks'
  BY <1>1, EngineConstants DEF ScansFollowTicks
<1>3. UnlockedAfterBothPhases'
  BY DEF UnlockedAfterBothPhases
<1> QED
  BY <1>2, <1>3

\* Every step preserves the types.
LEMMA NextTypes == TypeOK /\ [Next]_vars => TypeOK'
<1> SUFFICES ASSUME TypeOK, [Next]_vars PROVE TypeOK'
  OBVIOUS
<1>0. Counters /\ Control /\ Flags
  BY TypeParts
<1>p. ASSUME Counters', Control', Flags' PROVE TypeOK'
  BY <1>p DEF TypeOK, Counters, Control, Flags
<1>1. CASE ServeRestart
  <2>1. Counters'
    BY <1>0, <1>1, EngineConstants DEF Counters, ServeRestart, EnterLoop,
      RotateDatabase, Archive, ArchiveInPart, history
  <2>2. Control'
    BY <1>0, <1>1 DEF Control, Stages, StartedAt, ServeRestart, EnterLoop,
      RotateDatabase, Archive, ArchiveInPart, history
  <2>3. Flags'
    BY <1>0, <1>1 DEF Flags, ServeRestart, EnterLoop, RotateDatabase,
      Archive, ArchiveInPart, history
  <2> QED
    BY <1>p, <2>1, <2>2, <2>3
<1>2. CASE ServeRebuild
  <2>1. Counters'
    BY <1>0, <1>2, EngineConstants DEF Counters, ServeRebuild, history
  <2>2. Control'
    BY <1>0, <1>2 DEF Control, Stages, StartedAt, ServeRebuild, history
  <2>3. Flags'
    BY <1>0, <1>2 DEF Flags, ServeRebuild, history
  <2> QED
    BY <1>p, <2>1, <2>2, <2>3
<1>3. CASE AwaitSetup \/ ReadMode \/ ReadActive \/ CheckTimer
  <2>1. Counters'
    BY <1>0, <1>3, EngineConstants DEF Counters, AwaitSetup, ReadMode,
      ReadActive, CheckTimer, Idle, settings, history
  <2>2. Control'
    BY <1>0, <1>3 DEF Control, Stages, StartedAt, AwaitSetup, ReadMode,
      ReadActive, CheckTimer, Idle, settings, history
  <2>3. Flags'
    BY <1>0, <1>3 DEF Flags, AwaitSetup, ReadMode, ReadActive, CheckTimer,
      Idle, settings, history
  <2> QED
    BY <1>p, <2>1, <2>2, <2>3
<1>4. CASE StampStart
  <2>1. Counters'
    BY <1>0, <1>4, EngineConstants DEF Counters, StampStart, history
  <2>2. Control'
    BY <1>0, <1>4 DEF Control, Stages, StartedAt, StampStart, history
  <2>3. Flags'
    BY <1>0, <1>4 DEF Flags, StampStart, history
  <2> QED
    BY <1>p, <2>1, <2>2, <2>3
<1>5. CASE Expire \/ StampPause
  <2>1. Counters'
    BY <1>0, <1>5, EngineConstants DEF Counters, Expire, StampPause,
      history
  <2>2. Control'
    BY <1>0, <1>5 DEF Control, Stages, StartedAt, Expire, StampPause,
      history
  <2>3. Flags'
    BY <1>0, <1>5 DEF Flags, Expire, StampPause, history
  <2> QED
    BY <1>p, <2>1, <2>2, <2>3
<1>6. CASE RunFastStages \/ StageRaises
  <2>1. Counters'
    BY <1>0, <1>6, EngineConstants DEF Counters, RunFastStages,
      StageRaises, Idle, settings, history
  <2>2. Control'
    BY <1>0, <1>6 DEF Control, Stages, StartedAt, RunFastStages,
      StageRaises, Idle, settings, history
  <2>3. Flags'
    BY <1>0, <1>6 DEF Flags, RunFastStages, StageRaises, Idle, settings,
      history
  <2> QED
    BY <1>p, <2>1, <2>2, <2>3
<1>7. CASE RunDeepStages
  <2>1. Counters'
    BY <1>0, <1>7, EngineConstants DEF Counters, RunDeepStages, settings
  <2>2. Control'
    BY <1>0, <1>7 DEF Control, Stages, StartedAt, RunDeepStages, settings
  <2>3. Flags'
    BY <1>0, <1>7 DEF Flags, RunDeepStages, settings
  <2> QED
    BY <1>p, <2>1, <2>2, <2>3
<1>8. CASE FinishTick
  <2>1. Counters'
    BY <1>0, <1>8, EngineConstants, NextTickFacts DEF Counters,
      FinishTick, history
  <2>2. Control'
    BY <1>0, <1>8 DEF Control, Stages, StartedAt, FinishTick, history
  <2>3. Flags'
    BY <1>0, <1>8 DEF Flags, FinishTick, history
  <2> QED
    BY <1>p, <2>1, <2>2, <2>3
<1>9. CASE RequestRestart \/ RequestRebuild
  <2>1. Counters'
    BY <1>0, <1>9, EngineConstants DEF Counters, RequestRestart,
      RequestRebuild, Request, loopVars, settings, history
  <2>2. Control'
    BY <1>0, <1>9 DEF Control, Stages, StartedAt, RequestRestart,
      RequestRebuild, Request, loopVars, settings, history
  <2>3. Flags'
    BY <1>0, <1>9 DEF Flags, RequestRestart, RequestRebuild, Request,
      loopVars, settings, history
  <2> QED
    BY <1>p, <2>1, <2>2, <2>3
<1>10. CASE CompleteSetup \/ SetPollingMode
  <2>1. Counters'
    BY <1>0, <1>10, EngineConstants DEF Counters, CompleteSetup,
      SetPollingMode, Request, loopVars, history
  <2>2. Control'
    BY <1>0, <1>10 DEF Control, Stages, StartedAt, CompleteSetup,
      SetPollingMode, Request, loopVars, history
  <2>3. Flags'
    BY <1>0, <1>10 DEF Flags, CompleteSetup, SetPollingMode, Request,
      loopVars, history
  <2> QED
    BY <1>p, <2>1, <2>2, <2>3
<1>11. CASE StartPollingNow
  <2>1. Counters'
    BY <1>0, <1>11, EngineConstants DEF Counters, StartPollingNow,
      StartActivate, StartClearStamp, StartReply, Request, loopVars,
      history
  <2>2. Control'
    BY <1>0, <1>11 DEF Control, Stages, StartedAt, StartPollingNow,
      StartActivate, StartClearStamp, StartReply, Request, loopVars,
      history
  <2>3. Flags'
    BY <1>0, <1>11 DEF Flags, StartPollingNow, StartActivate,
      StartClearStamp, StartReply, Request, loopVars, history
  <2> QED
    BY <1>p, <2>1, <2>2, <2>3
<1>12. CASE DurationElapses
  <2>1. Counters'
    BY <1>0, <1>12, EngineConstants DEF Counters, DurationElapses,
      loopVars, history
  <2>2. Control'
    BY <1>0, <1>12 DEF Control, Stages, StartedAt, DurationElapses,
      loopVars, history
  <2>3. Flags'
    BY <1>0, <1>12 DEF Flags, DurationElapses, loopVars, history
  <2> QED
    BY <1>p, <2>1, <2>2, <2>3
<1>13. CASE Crash
  <2>1. Counters'
    BY <1>0, <1>13, EngineConstants DEF Counters, Crash, EnterLoop,
      RotateDatabase, Archive, ArchiveInPart, history
  <2>2. Control'
    BY <1>0, <1>13 DEF Control, Stages, StartedAt, Crash, EnterLoop,
      RotateDatabase, Archive, ArchiveInPart, history
  <2>3. Flags'
    BY <1>0, <1>13 DEF Flags, Crash, EnterLoop, RotateDatabase, Archive,
      ArchiveInPart, history
  <2> QED
    BY <1>p, <2>1, <2>2, <2>3
<1>14. CASE UNCHANGED vars
  <2>1. Counters'
    BY <1>0, <1>14, EngineConstants DEF Counters, vars, loopVars,
      settings, history
  <2>2. Control'
    BY <1>0, <1>14 DEF Control, Stages, StartedAt, vars, loopVars,
      settings, history
  <2>3. Flags'
    BY <1>0, <1>14 DEF Flags, vars, loopVars, settings, history
  <2> QED
    BY <1>p, <2>1, <2>2, <2>3
<1> QED
  BY <1>1, <1>2, <1>3, <1>4, <1>5, <1>6, <1>7, <1>8, <1>9, <1>10, <1>11,
    <1>12, <1>13, <1>14 DEF Next, Loop, Api

\* Every step preserves the rest of the inductive invariant.
LEMMA NextScans ==
  IInv /\ [Next]_vars => ScansFollowTicks' /\ UnlockedAfterBothPhases'
<1> SUFFICES ASSUME IInv, [Next]_vars
             PROVE  ScansFollowTicks' /\ UnlockedAfterBothPhases'
  OBVIOUS
<1>0. /\ TypeOK /\ ScansFollowTicks /\ UnlockedAfterBothPhases
      /\ tick \in 0 .. MaxTick /\ scans \in 0 .. 2
  BY DEF IInv, TypeOK
<1>1. CASE UNCHANGED <<tick, stage, discovered, scans, damaged>>
  BY <1>0, <1>1 DEF ScansFollowTicks, UnlockedAfterBothPhases
<1>2. CASE RequestRestart \/ RequestRebuild \/ CompleteSetup \/ SetPollingMode
  BY <1>1, <1>2 DEF RequestRestart, RequestRebuild, CompleteSetup,
     SetPollingMode, loopVars, settings, history
<1>3. CASE StartPollingNow \/ DurationElapses \/ UNCHANGED vars
  BY <1>1, <1>3 DEF StartPollingNow, StartActivate, StartClearStamp, StartReply,
     DurationElapses, vars, loopVars, settings, history
<1>4. CASE ServeRebuild \/ StampStart \/ Expire \/ StampPause
  <2>1. stage' # "finish" /\ (tick' = tick \/ tick' = 0)
    BY <1>4 DEF ServeRebuild, StampStart, Expire, StampPause
  <2>2. UNCHANGED <<discovered, scans, damaged>>
    BY <1>4 DEF ServeRebuild, StampStart, Expire, StampPause, history
  <2> QED
    BY <1>0, <2>1, <2>2, Untouched
<1>5. CASE AwaitSetup \/ ReadMode \/ ReadActive \/ CheckTimer \/ StageRaises
  <2>1. stage' # "finish"
    BY <1>5 DEF AwaitSetup, ReadMode, ReadActive, CheckTimer, StageRaises, Idle
  <2>2. UNCHANGED <<tick, discovered, scans, damaged>>
    BY <1>5 DEF AwaitSetup, ReadMode, ReadActive, CheckTimer, StageRaises, Idle,
       settings, history
  <2> QED
    BY <1>0, <2>1, <2>2, Untouched
<1>6. CASE RunFastStages
  <2>1. tick <= 1 => stage' = "deep"
    BY <1>6 DEF RunFastStages, Idle, IsDeepScanTick
  <2>2. UNCHANGED <<tick, discovered, scans, damaged>>
    BY <1>6 DEF RunFastStages, Idle, settings, history
  <2>3. ScansFollowTicks'
    BY <1>0, <2>1, <2>2 DEF ScansFollowTicks
  <2>4. UnlockedAfterBothPhases'
    BY <1>0, <2>2 DEF UnlockedAfterBothPhases
  <2> QED
    BY <2>3, <2>4
<1>7. CASE RunDeepStages
  <2>1. UNCHANGED <<tick, discovered, damaged>>
    BY <1>7 DEF RunDeepStages, settings
  <2>2. scans' = IF scans < 2 THEN scans + 1 ELSE scans
    BY <1>7 DEF RunDeepStages
  <2>3. ScansFollowTicks'
    BY <1>0, <2>1, <2>2 DEF ScansFollowTicks
  <2>4. UnlockedAfterBothPhases'
    BY <1>0, <2>1, <2>2 DEF UnlockedAfterBothPhases
  <2> QED
    BY <2>3, <2>4
<1>8. CASE FinishTick
  <2>1. /\ stage = "finish" /\ stage' = "top" /\ tick' = NextTick
        /\ UNCHANGED <<scans, damaged>>
    BY <1>8 DEF FinishTick, history
  <2>2. discovered' => discovered \/ tick' = 2
    BY <1>8 DEF FinishTick
  <2>3. ScansFollowTicks'
    BY <1>0, <2>1, NextTickFacts DEF ScansFollowTicks
  <2>4. tick' = 2 => scans' = 2
    BY <2>3 DEF ScansFollowTicks
  <2>5. UnlockedAfterBothPhases'
    BY <1>0, <2>1, <2>2, <2>4 DEF UnlockedAfterBothPhases
  <2> QED
    BY <2>3, <2>5
<1>9. CASE ServeRestart \/ Crash
  <2>1. tick' = 0 /\ stage' = "top"
    BY <1>9 DEF ServeRestart, Crash, EnterLoop
  <2>2. \/ UNCHANGED <<discovered, scans, damaged>>
        \/ ~discovered' \/ damaged'
    BY <1>9 DEF ServeRestart, Crash, RotateDatabase, Archive, ArchiveInPart,
       history
  <2>3. ScansFollowTicks'
    BY <2>1 DEF ScansFollowTicks
  <2>4. UnlockedAfterBothPhases'
    BY <1>0, <2>2 DEF UnlockedAfterBothPhases
  <2> QED
    BY <2>3, <2>4
<1> QED
  BY <1>2, <1>3, <1>4, <1>5, <1>6, <1>7, <1>8, <1>9 DEF Next, Loop, Api

\* The inductive invariant holds throughout.
THEOREM Invariant == Spec => []IInv
<1>1. IInv /\ [Next]_vars => IInv'
  BY NextTypes, NextScans DEF IInv
<1> QED
  BY InitIInv, <1>1, PTL DEF Spec

\* Every variable stays in its type, whatever the interval and the bounds.
THEOREM TypeCorrect == Spec => []TypeOK
<1>1. IInv => TypeOK
  BY DEF IInv
<1> QED
  BY Invariant, <1>1, PTL

\* The dashboard is unlocked only over a network.db that both deep scans of
\* the initial discovery have completed on.
THEOREM DashboardUnlockedAfterBothPhases == Spec => []UnlockedAfterBothPhases
<1>1. IInv => UnlockedAfterBothPhases
  BY DEF IInv
<1> QED
  BY Invariant, <1>1, PTL
=============================================================================
