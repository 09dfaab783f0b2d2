------------------------- MODULE AlertDispatchProofs -------------------------
(* Proofs about AlertDispatch for every number of alerts, batch size, set of *)
(* channels and bound on the faults.                                         *)
EXTENDS AlertDispatch, TLAPS

\* What a job has sent or marked was delivered, or was not asked for.
WorkAccounted ==
  /\ \A j \in Jobs : sent[j] \cup marks[j] \subseteq delivered \cup waived
  /\ settled \subseteq delivered \cup waived

\* A job that is not under way holds nothing, and the loop waits for the job
\* that it runs in line.
OnlyRunningJobsHold ==
  /\ \A j \in Jobs : running[j] \/ (Held(j) = {} /\ lock # j)
  /\ running["inline"] => engine = "waiting"

\* No delivery is at once before and behind a job in the same transaction.
JobsApart == \A j \in Jobs : todo[j] \cap (sent[j] \cup marks[j]) = {}

\* A delivery that was made and is not settled is either excused, or safe in
\* the hands of the job that made it.
DeliveredIsKept ==
  \A p \in delivered \ settled :
    p \in excused \/ \E j \in Jobs : p \in sent[j] \cup marks[j]

\* A delivery that a job is still going to make has not been made before, and
\* is in no other job's hands, unless it is excused.
NextIsFirst ==
  \A j \in Jobs : todo[j] \cap (delivered \cup Held(Other(j))) \subseteq excused

IInv == Types /\ WorkAccounted /\ OnlyRunningJobsHold /\ JobsApart
              /\ DeliveredIsKept /\ NextIsFirst

\* There are two jobs, each the other one of the other.
LEMMA JobFacts ==
  /\ "inline" \in Jobs /\ "task" \in Jobs
  /\ \A j \in Jobs : Other(j) \in Jobs /\ Other(j) # j /\ Other(Other(j)) = j
  /\ \A j, k \in Jobs : k = j \/ k = Other(j)
  BY DEF Jobs, Other

\* A batch is made of deliveries that are not settled.
LEMMA BatchFacts ==
  ASSUME Types
  PROVE  BatchDeliveries \subseteq Deliveries \ settled
  BY DEF BatchDeliveries, Batch, Deliveries, Types

\* The initial state satisfies the inductive invariant.
LEMMA InitIInv == Init => IInv
<1> SUFFICES ASSUME Init PROVE IInv
  OBVIOUS
<1> USE DEF Init, NoWork, Jobs
<1>1. Types
  BY DispatchConstants DEF Types
<1>2. WorkAccounted
  BY DEF WorkAccounted
<1>3. OnlyRunningJobsHold
  BY DEF OnlyRunningJobsHold, Held
<1>4. DeliveredIsKept
  BY DEF DeliveredIsKept
<1>5. NextIsFirst
  BY DEF NextIsFirst, Held
<1>6. JobsApart
  BY DEF JobsApart
<1> QED
  BY <1>1, <1>2, <1>3, <1>4, <1>5, <1>6 DEF IInv

\* Every step preserves the types.
LEMMA NextTypes == Types /\ [Next]_vars => Types'
<1> SUFFICES ASSUME Types, [Next]_vars PROVE Types'
  OBVIOUS
<1> USE DispatchConstants DEF Types
<1>1. CASE ReachDispatch \/ SkipDispatch \/ Retry \/ FinishTick \/ ResetTick
  BY <1>1 DEF ReachDispatch, SkipDispatch, Retry, FinishTick, NextTick,
     ResetTick, inbox, jobs, history
<1>2. CASE Dispatch
  <2>1. PICK j \in Jobs : Start(j)
    BY <1>2, JobFacts DEF Dispatch, DispatchInline, DispatchInBackground
  <2>2. running' \in [Jobs -> BOOLEAN] /\ todo' \in [Jobs -> SUBSET Deliveries]
    BY <2>1, BatchFacts DEF Start
  <2>3. excused' \subseteq Deliveries
    BY <2>1, BatchFacts DEF Start
  <2>4. engine' \in {"waiting", "rest"}
    BY <1>2 DEF Dispatch, DispatchInline, DispatchInBackground
  <2>5. UNCHANGED <<lock, sent, marks, delivered, waived, tick, resets, crashes,
                    inbox, timeouts>>
    BY <1>2, <2>1 DEF Dispatch, DispatchInline, DispatchInBackground, Start
  <2> QED
    BY <2>2, <2>3, <2>4, <2>5 DEF inbox
<1>3. CASE CreateAlert
  BY <1>3 DEF CreateAlert, Alerts, loop, jobs, history
<1>4. ASSUME NEW as \in SUBSET live, DeleteAlerts(as) PROVE Types'
  BY <1>4 DEF DeleteAlerts, loop, jobs, history
<1>5. CASE Crash
  BY <1>5, JobFacts DEF Crash, NoWork, inbox
<1>6. ASSUME NEW j \in Jobs, NEW p \in Deliveries,
             Send(j, p) \/ SendFails(j, p) \/ SendTimesOut(j, p) \/ Waive(j, p)
      PROVE  Types'
  BY <1>6 DEF Send, SendFails, SendTimesOut, Waive, Advance, loop, inbox,
     history
<1>7. ASSUME NEW j \in Jobs, Mark(j) PROVE Types'
  BY <1>7 DEF Mark, loop, inbox, history
<1>8. ASSUME NEW j \in Jobs, Commit(j) PROVE Types'
  BY <1>8 DEF Commit, End
<1>9. ASSUME NEW j \in Jobs, Abort(j) PROVE Types'
  BY <1>9 DEF Abort, End
<1>10. CASE UNCHANGED vars
  BY <1>10 DEF vars, loop, inbox, jobs, history
<1> QED
  BY <1>1, <1>2, <1>3, <1>4, <1>5, <1>6, <1>7, <1>8, <1>9, <1>10
     DEF Next, LoopStep, JobStep

\* Every step keeps the work accounted for.
LEMMA NextAccounted ==
  Types /\ WorkAccounted /\ [Next]_vars => WorkAccounted'
<1> SUFFICES ASSUME Types, WorkAccounted, [Next]_vars PROVE WorkAccounted'
  OBVIOUS
<1> USE DEF Types, WorkAccounted
<1>1. CASE UNCHANGED <<settled, sent, marks, delivered, waived>>
  BY <1>1
<1>2. CASE ReachDispatch \/ SkipDispatch \/ Retry \/ FinishTick \/ ResetTick
           \/ CreateAlert \/ UNCHANGED vars
  BY <1>1, <1>2 DEF ReachDispatch, SkipDispatch, Retry, FinishTick, ResetTick,
     CreateAlert, vars, loop, inbox, jobs, history
<1>3. CASE Dispatch
  BY <1>1, <1>3 DEF Dispatch, DispatchInline, DispatchInBackground, Start, inbox
<1>4. ASSUME NEW as \in SUBSET live, DeleteAlerts(as) PROVE WorkAccounted'
  BY <1>1, <1>4 DEF DeleteAlerts, jobs, history
<1>5. CASE Crash
  BY <1>5 DEF Crash, NoWork, inbox
<1>6. ASSUME NEW j \in Jobs, NEW p \in Deliveries,
             Send(j, p) \/ SendFails(j, p) \/ SendTimesOut(j, p) \/ Waive(j, p)
      PROVE  WorkAccounted'
  BY <1>6 DEF Send, SendFails, SendTimesOut, Waive, Advance, inbox, history
<1>7. ASSUME NEW j \in Jobs, Mark(j) PROVE WorkAccounted'
  BY <1>7 DEF Mark, inbox, history
<1>8. ASSUME NEW j \in Jobs, Commit(j) \/ Abort(j) PROVE WorkAccounted'
  BY <1>8 DEF Commit, Abort, End
<1> QED
  BY <1>2, <1>3, <1>4, <1>5, <1>6, <1>7, <1>8 DEF Next, LoopStep, JobStep

\* Every step keeps the jobs that are not under way empty-handed.
LEMMA NextHold ==
  Types /\ OnlyRunningJobsHold /\ [Next]_vars => OnlyRunningJobsHold'
<1> SUFFICES ASSUME Types, OnlyRunningJobsHold, [Next]_vars
             PROVE  OnlyRunningJobsHold'
  OBVIOUS
<1> USE DEF Types, OnlyRunningJobsHold, Held
<1>1. CASE /\ UNCHANGED <<running, todo, sent, marks, lock>>
           /\ engine = "waiting" => engine' = "waiting"
  BY <1>1
<1>2. CASE ReachDispatch \/ SkipDispatch \/ Retry \/ FinishTick \/ ResetTick
           \/ CreateAlert \/ UNCHANGED vars
  BY <1>1, <1>2 DEF ReachDispatch, SkipDispatch, Retry, FinishTick, ResetTick,
     CreateAlert, vars, loop, inbox, jobs, history
<1>3. CASE DispatchInline
  BY <1>3, JobFacts DEF DispatchInline, Start, inbox
<1>9. CASE DispatchInBackground
  BY <1>9, JobFacts DEF DispatchInBackground, Start, inbox
<1>4. ASSUME NEW as \in SUBSET live, DeleteAlerts(as) PROVE OnlyRunningJobsHold'
  BY <1>1, <1>4 DEF DeleteAlerts, loop, jobs, history
<1>5. CASE Crash
  BY <1>5, JobFacts DEF Crash, NoWork, inbox
<1>6. ASSUME NEW j \in Jobs, NEW p \in Deliveries,
             Send(j, p) \/ SendFails(j, p) \/ SendTimesOut(j, p) \/ Waive(j, p)
      PROVE  OnlyRunningJobsHold'
  BY <1>6 DEF Send, SendFails, SendTimesOut, Waive, Advance, At, loop, inbox,
     history
<1>7. ASSUME NEW j \in Jobs, Mark(j) PROVE OnlyRunningJobsHold'
  BY <1>7 DEF Mark, loop, inbox, history
<1>8. ASSUME NEW j \in Jobs, Commit(j) \/ Abort(j) PROVE OnlyRunningJobsHold'
  BY <1>8 DEF Commit, Abort, End, Jobs
<1> QED
  BY <1>2, <1>3, <1>4, <1>5, <1>6, <1>7, <1>8, <1>9
     DEF Next, LoopStep, JobStep, Dispatch

\* A delivery at hand is one that job j has still to do.
LEMMA AtFacts == \A j, p : At(j, p) => p \in todo[j] /\ sent[j] = {}
  BY DEF At

\* Every step keeps what a job has done apart from what it has to do.
LEMMA NextApart ==
  Types /\ OnlyRunningJobsHold /\ JobsApart /\ [Next]_vars => JobsApart'
<1> SUFFICES ASSUME Types, OnlyRunningJobsHold, JobsApart, [Next]_vars
             PROVE  JobsApart'
  OBVIOUS
<1> USE DEF Types, JobsApart
<1>1. CASE UNCHANGED <<todo, sent, marks>>
  BY <1>1
<1>2. CASE ReachDispatch \/ SkipDispatch \/ Retry \/ FinishTick \/ ResetTick
           \/ CreateAlert \/ UNCHANGED vars
  BY <1>1, <1>2 DEF ReachDispatch, SkipDispatch, Retry, FinishTick, ResetTick,
     CreateAlert, vars, loop, inbox, jobs, history
<1>3. CASE Dispatch
  <2>1. PICK j \in Jobs : Start(j) /\ ~running[j]
    BY <1>3, JobFacts DEF Dispatch, DispatchInline, DispatchInBackground,
       OnlyRunningJobsHold
  <2>2. sent[j] = {} /\ marks[j] = {}
    BY <2>1 DEF OnlyRunningJobsHold, Held
  <2> QED
    BY <2>1, <2>2, BatchFacts DEF Start
<1>4. ASSUME NEW as \in SUBSET live, DeleteAlerts(as) PROVE JobsApart'
  BY <1>1, <1>4 DEF DeleteAlerts, jobs, history
<1>5. CASE Crash
  BY <1>5 DEF Crash, NoWork
<1>6. ASSUME NEW j \in Jobs, NEW p \in Deliveries,
             Send(j, p) \/ SendFails(j, p) \/ SendTimesOut(j, p) \/ Waive(j, p)
      PROVE  JobsApart'
  BY <1>6, AtFacts DEF Send, SendFails, SendTimesOut, Waive, Advance
<1>7. ASSUME NEW j \in Jobs, Mark(j) PROVE JobsApart'
  BY <1>7 DEF Mark
<1>8. ASSUME NEW j \in Jobs, Commit(j) \/ Abort(j) PROVE JobsApart'
  BY <1>8 DEF Commit, Abort, End
<1> QED
  BY <1>2, <1>3, <1>4, <1>5, <1>6, <1>7, <1>8
     DEF Next, LoopStep, JobStep

\* Every step keeps the deliveries that were made.
LEMMA NextDelivered ==
  Types /\ DeliveredIsKept /\ [Next]_vars => DeliveredIsKept'
<1> SUFFICES ASSUME Types, DeliveredIsKept, [Next]_vars
             PROVE  DeliveredIsKept'
  OBVIOUS
<1> USE DEF Types, DeliveredIsKept
<1>1. CASE UNCHANGED <<settled, sent, marks, delivered, excused>>
  BY <1>1
<1>2. CASE ReachDispatch \/ SkipDispatch \/ Retry \/ FinishTick \/ ResetTick
           \/ CreateAlert \/ UNCHANGED vars
  BY <1>1, <1>2 DEF ReachDispatch, SkipDispatch, Retry, FinishTick, ResetTick,
     CreateAlert, vars, loop, inbox, jobs, history
<1>3. CASE Dispatch
  BY <1>3 DEF Dispatch, DispatchInline, DispatchInBackground, Start, inbox
<1>4. ASSUME NEW as \in SUBSET live, DeleteAlerts(as) PROVE DeliveredIsKept'
  BY <1>1, <1>4 DEF DeleteAlerts, jobs, history
<1>5. CASE Crash
  BY <1>5 DEF Crash, NoWork, inbox
<1>6. ASSUME NEW j \in Jobs, NEW p \in Deliveries, Send(j, p)
      PROVE  DeliveredIsKept'
  BY <1>6, AtFacts DEF Send, Advance, inbox
<1>7. ASSUME NEW j \in Jobs, NEW p \in Deliveries,
             SendFails(j, p) \/ SendTimesOut(j, p) \/ Waive(j, p)
      PROVE  DeliveredIsKept'
  BY <1>7, AtFacts DEF SendFails, SendTimesOut, Waive, Advance, inbox, history
<1>8. ASSUME NEW j \in Jobs, Mark(j) PROVE DeliveredIsKept'
  BY <1>8 DEF Mark, inbox, history
<1>9. ASSUME NEW j \in Jobs, Commit(j) PROVE DeliveredIsKept'
  BY <1>9 DEF Commit, End
<1>10. ASSUME NEW j \in Jobs, Abort(j) PROVE DeliveredIsKept'
  BY <1>10 DEF Abort, End
<1> QED
  BY <1>2, <1>3, <1>4, <1>5, <1>6, <1>7, <1>8, <1>9, <1>10
     DEF Next, LoopStep, JobStep

\* Every step keeps the deliveries at hand first ones, or excused ones.
LEMMA NextFirst == IInv /\ [Next]_vars => NextIsFirst'
<1> SUFFICES ASSUME IInv, [Next]_vars PROVE NextIsFirst'
  OBVIOUS
<1> USE DEF Types, NextIsFirst, Held
<1>0. Types /\ NextIsFirst /\ DeliveredIsKept /\ OnlyRunningJobsHold
  BY DEF IInv
<1>1. CASE UNCHANGED <<todo, sent, marks, delivered, excused>>
  BY <1>0, <1>1
<1>2. CASE ReachDispatch \/ SkipDispatch \/ Retry \/ FinishTick \/ ResetTick
           \/ CreateAlert \/ UNCHANGED vars
  BY <1>1, <1>2 DEF ReachDispatch, SkipDispatch, Retry, FinishTick, ResetTick,
     CreateAlert, vars, loop, inbox, jobs, history
<1>3. CASE Dispatch
  <2>1. PICK j \in Jobs : Start(j) /\ ~running[j]
    BY <1>0, <1>3, JobFacts DEF Dispatch, DispatchInline, DispatchInBackground,
       OnlyRunningJobsHold
  <2>2. sent[j] = {} /\ marks[j] = {} /\ todo[j] = {}
    BY <1>0, <2>1 DEF OnlyRunningJobsHold
  <2>3. todo'[j] \cap (delivered' \cup Held(Other(j))') \subseteq excused'
    BY <1>0, <2>1, <2>2, JobFacts, BatchFacts DEF Start, DeliveredIsKept
  <2>4. todo'[Other(j)] \cap (delivered' \cup Held(j)') \subseteq excused'
    BY <1>0, <2>1, <2>2, JobFacts, BatchFacts DEF Start
  <2> QED
    BY <2>3, <2>4, JobFacts
<1>4. ASSUME NEW as \in SUBSET live, DeleteAlerts(as) PROVE NextIsFirst'
  BY <1>1, <1>4 DEF DeleteAlerts, jobs, history
<1>5. CASE Crash
  BY <1>5 DEF Crash, NoWork
<1>6. ASSUME NEW j \in Jobs, NEW p \in Deliveries, Send(j, p)
      PROVE  NextIsFirst'
  <2>1. todo'[j] \cap (delivered' \cup Held(Other(j))') \subseteq excused'
    BY <1>0, <1>6, JobFacts, AtFacts DEF Send, Advance
  <2>2. todo'[Other(j)] \cap (delivered' \cup Held(j)') \subseteq excused'
    BY <1>0, <1>6, JobFacts, AtFacts DEF Send, Advance
  <2> QED
    BY <2>1, <2>2, JobFacts
<1>7. ASSUME NEW j \in Jobs, NEW p \in Deliveries,
             SendFails(j, p) \/ SendTimesOut(j, p) \/ Waive(j, p)
      PROVE  NextIsFirst'
  <2>1. todo'[j] \cap (delivered' \cup Held(Other(j))') \subseteq excused'
    BY <1>0, <1>7, JobFacts, AtFacts
       DEF SendFails, SendTimesOut, Waive, Advance, history
  <2>2. todo'[Other(j)] \cap (delivered' \cup Held(j)') \subseteq excused'
    BY <1>0, <1>7, JobFacts, AtFacts
       DEF SendFails, SendTimesOut, Waive, Advance, history
  <2> QED
    BY <2>1, <2>2, JobFacts
<1>8. ASSUME NEW j \in Jobs, Mark(j) PROVE NextIsFirst'
  <2>1. UNCHANGED <<todo, delivered, excused>>
    BY <1>8 DEF Mark, history
  <2>2. \A k \in Jobs : Held(k)' = Held(k)
    BY <1>0, <1>8 DEF Mark
  <2> QED
    BY <1>0, <2>1, <2>2, JobFacts
<1>9. ASSUME NEW j \in Jobs, Commit(j) \/ Abort(j) PROVE NextIsFirst'
  BY <1>0, <1>9, JobFacts DEF Commit, Abort, End
<1> QED
  BY <1>2, <1>3, <1>4, <1>5, <1>6, <1>7, <1>8, <1>9
     DEF Next, LoopStep, JobStep

\* The inductive invariant holds throughout.
THEOREM Invariant == Spec => []IInv
<1>1. IInv /\ [Next]_vars => IInv'
  BY NextTypes, NextAccounted, NextHold, NextApart, NextDelivered, NextFirst
     DEF IInv
<1> QED
  BY InitIInv, <1>1, PTL DEF Spec

\* Every variable stays in its type, and the jobs stay well formed.
THEOREM TypeCorrect == Spec => []TypeOK
<1>1. IInv => TypeOK
  BY DEF IInv, OnlyRunningJobsHold, JobsApart, TypeOK, JobsWellFormed
<1> QED
  BY Invariant, <1>1, PTL

\* No delivery is settled that was neither made nor found not to be due.
THEOREM NothingLostSilently == Spec => []NoSilentLoss
<1>1. IInv => NoSilentLoss
  BY DEF IInv, WorkAccounted, NoSilentLoss
<1> QED
  BY Invariant, <1>1, PTL

\* A message is repeated only where a fault accounts for it.
THEOREM RepetitionsHaveFaults == Spec => DuplicatesNeedFault
<1> DEFINE Accounted ==
      \A j \in Jobs, p \in Deliveries :
        (Send(j, p) \/ SendTimesOut(j, p)) /\ p \in delivered => p \in excused
<1>1. IInv /\ [Next]_vars => [Accounted]_vars
  <2> SUFFICES ASSUME IInv PROVE Accounted
    OBVIOUS
  <2> QED
    BY AtFacts DEF IInv, NextIsFirst, Send, SendTimesOut
<1> QED
  BY Invariant, <1>1, PTL DEF Spec, DuplicatesNeedFault
=============================================================================
