---------------------------- MODULE AlertDispatch ----------------------------
(***************************************************************************)
(* Delivery of the alerts in the inbox: dispatch_pending_alerts() in       *)
(* src/engine/alert_dispatcher.py and the stage of the tick loop that runs *)
(* it, awaited in line during ticks 0 and 1 and as a background task from  *)
(* then on.  A job sends first and marks the alert afterwards, inside one  *)
(* transaction of network.db that is committed after the whole batch; the  *)
(* database has one write lock, which the first mark takes.                *)
(***************************************************************************)
EXTENDS Naturals, FiniteSets

CONSTANTS
  Channels,     \* "email" and "webhook", or one of them for a smaller model
  Answering,    \* the channels whose recipients answer if tried often enough
  MaxAlerts,    \* bound: alerts 1 .. MaxAlerts are created in this order
  BatchLimit,   \* DISPATCH_BATCH_LIMIT, in alerts
  MaxResets,    \* bound on rebuilds and other resets of the tick counter
  MaxCrashes,   \* bound on restarts of the process
  MaxTimeouts,  \* bound on deliveries whose answer is lost
  MaxDeletes    \* bound on alerts deleted or pruned

ASSUME DispatchConstants ==
  /\ Channels \subseteq {"email", "webhook"}
  /\ Answering \subseteq Channels
  /\ MaxAlerts \in Nat
  /\ BatchLimit \in Nat \ {0}
  /\ MaxResets \in Nat
  /\ MaxCrashes \in Nat
  /\ MaxTimeouts \in Nat
  /\ MaxDeletes \in Nat

Alerts == 1 .. MaxAlerts
Deliveries == Alerts \X Channels
Jobs == {"inline", "task"}
Other(j) == IF j = "inline" THEN "task" ELSE "inline"

VARIABLES
  tick,       \* tick_counter: 0, 1, or 2 for any later tick
  engine,     \* where the loop is
  created,    \* number of alerts created so far
  live,       \* alerts in the inbox
  settled,    \* deliveries whose *_dispatched_at is set, as committed
  lock,       \* the job that holds the write lock of network.db, or "free"
  running,    \* running[j]: job j is under way
  todo,       \* todo[j]: deliveries of its batch that job j has not got to
  sent,       \* sent[j]: deliveries sent, or found not due, but not marked yet
  marks,      \* marks[j]: deliveries marked in its open transaction
  resets,     \* number of resets of the tick counter so far
  crashes,    \* number of restarts so far
  timeouts,   \* number of lost answers so far
  delivered,  \* history: deliveries that reached their recipient
  excused,    \* history: deliveries that a fault may cause to be repeated
  waived      \* history: deliveries some job found not due

loop == <<tick, engine, resets, crashes>>
inbox == <<created, live, settled>>
jobs == <<lock, running, todo, sent, marks>>
history == <<delivered, excused, waived>>
vars == <<loop, inbox, jobs, timeouts, history>>

Types ==
  /\ tick \in 0 .. 2
  /\ engine \in {"stages", "dispatch", "waiting", "rest"}
  /\ created \in 0 .. MaxAlerts
  /\ live \subseteq Alerts
  /\ settled \subseteq Deliveries
  /\ lock \in Jobs \cup {"free"}
  /\ running \in [Jobs -> BOOLEAN]
  /\ todo \in [Jobs -> SUBSET Deliveries]
  /\ sent \in [Jobs -> SUBSET Deliveries]
  /\ marks \in [Jobs -> SUBSET Deliveries]
  /\ resets \in 0 .. MaxResets
  /\ crashes \in 0 .. MaxCrashes
  /\ timeouts \in 0 .. MaxTimeouts
  /\ delivered \subseteq Deliveries
  /\ excused \subseteq Deliveries
  /\ waived \subseteq Deliveries

\* Deliveries that job j holds: still to do, or done and not committed.
Held(j) == todo[j] \cup sent[j] \cup marks[j]

JobsWellFormed ==
  \A j \in Jobs :
    /\ running[j] \/ (Held(j) = {} /\ lock # j)
    /\ todo[j] \cap (sent[j] \cup marks[j]) = {}

\* Types: the marks of each channel, and the batch and place of both jobs.  A
\* job that is not under way has no batch and no lock, and a job never has
\* again before it what it has done in the same transaction.
TypeOK == Types /\ JobsWellFormed

NoWork == [j \in Jobs |-> {}]

Init ==
  /\ tick = 0 /\ engine = "stages" /\ resets = 0 /\ crashes = 0
  /\ created = 0 /\ live = {} /\ settled = {}
  /\ lock = "free" /\ running = [j \in Jobs |-> FALSE]
  /\ todo = NoWork /\ sent = NoWork /\ marks = NoWork
  /\ timeouts = 0
  /\ delivered = {} /\ excused = {} /\ waived = {}

-----------------------------------------------------------------------------
(* The inbox.                                                               *)

\* create_alert(), by a stage of the loop; with the database locked for longer
\* than the timeout the stage fails and the alert is never made.
CreateAlert ==
  /\ engine \in {"stages", "rest"} /\ lock = "free"
  /\ created < MaxAlerts
  /\ created' = created + 1
  /\ live' = live \cup {created'}
  /\ UNCHANGED <<loop, settled, jobs, timeouts, history>>

\* The user deletes alerts, or they are pruned for their age.
DeleteAlerts(as) ==
  /\ lock = "free"
  /\ as # {} /\ as \subseteq live
  /\ created - Cardinality(live) + Cardinality(as) <= MaxDeletes
  /\ live' = live \ as
  /\ UNCHANGED <<loop, created, settled, jobs, timeouts, history>>

-----------------------------------------------------------------------------
(* A job.                                                                   *)

Unsettled(a) == \E c \in Channels : <<a, c>> \notin settled

MutantBatch == {a \in live : Cardinality({b \in live : b < a}) < BatchLimit}

\* The oldest BatchLimit alerts with a channel left to settle.
Batch ==
  LET pending == {a \in live : Unsettled(a)}
  IN  {a \in pending : Cardinality({b \in pending : b < a}) < BatchLimit}

BatchDeliveries == (Batch \X Channels) \ settled

Start(j) ==
  /\ running' = [running EXCEPT ![j] = TRUE]
  /\ todo' = [todo EXCEPT ![j] = BatchDeliveries]
  /\ excused' = excused \cup (BatchDeliveries \cap Held(Other(j)))
  /\ UNCHANGED <<lock, sent, marks, delivered, waived>>

\* Job j gets to delivery p, oldest alert first and its email before its
\* webhook, once it has marked the one before.
At(j, p) ==
  /\ sent[j] = {} /\ p \in todo[j]
  /\ \A q \in todo[j] :
       p[1] < q[1] \/ (p[1] = q[1] /\ (p[2] = "email" \/ q[2] = "webhook"))

Advance(j, p, next) ==
  /\ todo' = [todo EXCEPT ![j] = @ \ {p}]
  /\ sent' = [sent EXCEPT ![j] = next]
  /\ UNCHANGED <<loop, inbox, lock, running, marks>>

\* Whether a delivery is due at all, the channel being enabled, permitted and
\* its threshold met, was settled by what the job read at its start; that may
\* be anything, so each delivery is either sent or waived.
Send(j, p) ==
  /\ At(j, p)
  /\ delivered' = delivered \cup {p}
  /\ excused' = excused \ IF p \in delivered \ Held(Other(j)) THEN {p} ELSE {}
  /\ Advance(j, p, {p})
  /\ UNCHANGED <<timeouts, waived>>

MutantSendFails(j, p) ==
  /\ At(j, p)
  /\ Advance(j, p, {p})
  /\ UNCHANGED <<timeouts, history>>

SendFails(j, p) ==
  /\ At(j, p)
  /\ Advance(j, p, {})
  /\ UNCHANGED <<timeouts, history>>

\* The message gets through but its answer does not.
SendTimesOut(j, p) ==
  /\ At(j, p)
  /\ timeouts < MaxTimeouts
  /\ timeouts' = timeouts + 1
  /\ delivered' = delivered \cup {p}
  /\ excused' = excused \cup {p}
  /\ Advance(j, p, {})
  /\ UNCHANGED waived

Waive(j, p) ==
  /\ At(j, p)
  /\ waived' = waived \cup {p}
  /\ Advance(j, p, {p})
  /\ UNCHANGED <<timeouts, delivered, excused>>

Mark(j) ==
  /\ sent[j] # {} /\ lock \in {"free", j}
  /\ marks' = [marks EXCEPT ![j] = @ \cup sent[j]]
  /\ sent' = [sent EXCEPT ![j] = {}]
  /\ lock' = j
  /\ UNCHANGED <<loop, inbox, running, todo, timeouts, history>>

\* The thread ends; a loop that waits for it goes on.
End(j) ==
  /\ running' = [running EXCEPT ![j] = FALSE]
  /\ todo' = [todo EXCEPT ![j] = {}]
  /\ sent' = [sent EXCEPT ![j] = {}]
  /\ marks' = [marks EXCEPT ![j] = {}]
  /\ lock' = IF lock = j THEN "free" ELSE lock
  /\ engine' = IF j = "inline" THEN "rest" ELSE engine
  /\ UNCHANGED <<tick, resets, crashes, created, live, timeouts, delivered,
                 waived>>

MutantCommit(j) ==
  /\ running[j] /\ todo[j] = {} /\ sent[j] = {}
  /\ End(j)
  /\ UNCHANGED <<settled, excused>>

Commit(j) ==
  /\ running[j] /\ todo[j] = {} /\ sent[j] = {}
  /\ settled' = settled \cup marks[j]
  /\ End(j)
  /\ UNCHANGED excused

\* "database is locked": the other job has held the lock for too long.
Abort(j) ==
  /\ sent[j] # {} /\ lock = Other(j)
  /\ excused' = excused \cup sent[j] \cup marks[j]
  /\ End(j)
  /\ UNCHANGED settled

Deliver(p) == \E j \in Jobs : Send(j, p) \/ Waive(j, p)

JobStep(j) ==
  \/ \E p \in Deliveries : Send(j, p) \/ SendFails(j, p) \/ Waive(j, p)
  \/ Mark(j) \/ Commit(j) \/ Abort(j)

-----------------------------------------------------------------------------
(* The loop.                                                                *)

ReachDispatch ==
  /\ engine = "stages"
  /\ engine' = "dispatch"
  /\ UNCHANGED <<tick, resets, crashes, inbox, jobs, timeouts, history>>

DispatchInline ==
  /\ engine = "dispatch" /\ tick <= 1
  /\ engine' = "waiting"
  /\ Start("inline")
  /\ UNCHANGED <<tick, resets, crashes, inbox, timeouts>>

MutantDispatchInBackground ==
  /\ engine = "dispatch" /\ tick > 1
  /\ engine' = "rest"
  /\ Start("task")
  /\ UNCHANGED <<tick, resets, crashes, inbox, timeouts>>

DispatchInBackground ==
  /\ engine = "dispatch" /\ tick > 1 /\ ~running["task"]
  /\ engine' = "rest"
  /\ Start("task")
  /\ UNCHANGED <<tick, resets, crashes, inbox, timeouts>>

SkipDispatch ==
  /\ engine = "dispatch" /\ tick > 1 /\ running["task"]
  /\ engine' = "rest"
  /\ UNCHANGED <<tick, resets, crashes, inbox, jobs, timeouts, history>>

NextTick == IF tick < 2 THEN tick + 1 ELSE tick

FinishTick ==
  /\ engine = "rest"
  /\ tick' = NextTick
  /\ engine' = "stages"
  /\ UNCHANGED <<resets, crashes, inbox, jobs, timeouts, history>>

\* A stage before or after the dispatch raises, and the tick is run again.
Retry ==
  /\ engine \in {"dispatch", "rest"}
  /\ engine' = "stages"
  /\ UNCHANGED <<tick, resets, crashes, inbox, jobs, timeouts, history>>

\* A rebuild, a resumed run or RESTART in native mode: the task runs on.
ResetTick ==
  /\ engine = "stages" /\ tick > 0
  /\ resets < MaxResets
  /\ resets' = resets + 1
  /\ tick' = 0
  /\ UNCHANGED <<engine, crashes, inbox, jobs, timeouts, history>>

Crash ==
  /\ crashes < MaxCrashes
  /\ crashes' = crashes + 1
  /\ tick' = 0 /\ engine' = "stages"
  /\ excused' = excused \cup UNION {sent[j] \cup marks[j] : j \in Jobs}
  /\ lock' = "free" /\ running' = [j \in Jobs |-> FALSE]
  /\ todo' = NoWork /\ sent' = NoWork /\ marks' = NoWork
  /\ UNCHANGED <<resets, inbox, timeouts, delivered, waived>>

-----------------------------------------------------------------------------
Dispatch == DispatchInline \/ DispatchInBackground

LoopStep == ReachDispatch \/ Dispatch \/ SkipDispatch \/ FinishTick

Next ==
  \/ LoopStep \/ Retry \/ ResetTick \/ Crash
  \/ CreateAlert \/ (\E as \in SUBSET live : DeleteAlerts(as))
  \/ \E j \in Jobs : JobStep(j) \/ (\E p \in Deliveries : SendTimesOut(j, p))

\* The loop and the dispatcher's threads run on; the loop does not fail at
\* every tick; a recipient of an answering channel that is tried again and
\* again answers at last.  Nothing is assumed of the other channels: a webhook
\* address may be wrong for good.
Fairness ==
  /\ WF_vars(LoopStep)
  /\ SF_vars(Dispatch)
  /\ SF_vars(FinishTick)
  /\ \A j \in Jobs : WF_vars(JobStep(j))
  /\ \A p \in Alerts \X Answering : SF_vars(Deliver(p))

Spec == Init /\ [][Next]_vars /\ Fairness

-----------------------------------------------------------------------------
(* Properties.                                                              *)

\* No channel of an alert is ever settled unless the message was delivered or
\* a job found that the configuration did not ask for it: a failed send, an
\* aborted job and a crash all leave it pending.  This is what the code does and
\* the comment in it says (alert_dispatcher.py 205-222).  The head of the same
\* file (11-14) says the opposite, that an attempt settles the channel with or
\* without success; the code does not follow it, and neither does this property.
NoSilentLoss == settled \subseteq delivered \cup waived

\* A message is repeated only where a fault since its last repetition accounts
\* for it: a lost answer, a job that died or was locked out after sending, or a
\* job that took the delivery while the other one held it
\* (alert_dispatcher.py 173-242).
DuplicatesNeedFault ==
  [][\A j \in Jobs, p \in Deliveries :
       (Send(j, p) \/ SendTimesOut(j, p)) /\ p \in delivered
         => p \in excused]_vars

\* A batch is filled for good, ahead of alert a, with older alerts that a
\* channel out of order keeps pending.
ShutOut(a) ==
  Cardinality({b \in live : b < a /\ \E c \in Channels \ Answering :
                                       <<b, c>> \notin settled}) >= BatchLimit

\* On a channel whose recipient answers, every alert that is not deleted is
\* settled in the end: no overlap of jobs, restart, rebuild or older alert
\* leaves it behind.  The one exception is what the query allows: it takes the
\* oldest BatchLimit alerts with either mark missing, so BatchLimit older
\* alerts stuck on a dead channel shut out all later ones on every channel
\* (alert_dispatcher.py 173-178, main.py 1453-1466).
EventuallySettled ==
  \A a \in Alerts, c \in Answering :
    \/ a \in live ~> (a \notin live \/ <<a, c>> \in settled)
    \/ <>[]ShutOut(a)
=============================================================================
