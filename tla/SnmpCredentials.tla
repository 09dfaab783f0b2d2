--------------------------- MODULE SnmpCredentials ---------------------------
(***************************************************************************)
(* The SNMP credentials the poller remembers, src/engine/snmp_adapter.py:  *)
(* which credential an address answers to, which addresses are not worth   *)
(* asking for a while, and which of those that answer to v2c are to be     *)
(* tried with v3 later.  Everything runs on one event loop, so a step goes *)
(* from one await to the next.  An agent may answer any request or leave   *)
(* it without an answer.                                                   *)
(***************************************************************************)
EXTENDS Naturals

CONSTANTS
  Addresses,       \* IP addresses outside the virtual subnets
  Queries,         \* calls that look a credential up, or query with one
  RetryThreshold,  \* CACHE_RETRY_THRESHOLD
  RetryTicks,      \* UNRESPONSIVE_RETRY_TICKS
  DeferTicks,      \* V3_UPGRADE_DEFER_TICKS
  MaxTick,         \* bound: beyond it the dates go down instead of the tick up
  MaxResets,       \* bound on rebuilds and other resets of the tick counter
  MaxNodes,        \* bound on the logical nodes
  MaxAsking        \* bound on the engine-ID tasks of an address at a time

ASSUME CredentialConstants ==
  /\ RetryThreshold \in Nat \ {0}
  /\ RetryTicks \in Nat \ {0}
  /\ DeferTicks \in Nat
  /\ MaxTick \in Nat /\ MaxTick >= RetryTicks /\ MaxTick >= DeferTicks
  /\ MaxResets \in Nat
  /\ MaxNodes \in Nat
  /\ MaxAsking \in Nat

Never == MaxTick + DeferTicks + 1

VARIABLES
  tick,       \* _current_tick
  resets,     \* number of resets so far
  node,       \* node[a]: the logical node a is welded to, 0 for none
  cache,      \* CREDENTIAL_CACHE
  marked,     \* the tick in the UNRESPONSIVE mark of an address
  streak,     \* CREDENTIAL_FAILURE_STREAK, counted up to RetryThreshold
  due,        \* DEFERRED_V3_UPGRADE, or Never
  attempted,  \* V3_UPGRADE_ATTEMPTED
  upgrade,    \* upgrade[a]: where the upgrade task of a is
  key,        \* key[a]: the node whose upgrade lock that task wants, 0 for its own
  spawned,    \* spawned[a]: engine-ID tasks created and not run yet
  asking,     \* asking[a]: engine-ID tasks that wait for an answer
  job,        \* job[q]: where query q is, and its locals
  answered,   \* history: which address answered to which credential
  overlapped  \* history: addresses verified by a sibling's credential while a
              \* search for them was under way

clock == <<tick, resets>>
memory == <<cache, marked, streak>>
upgrades == <<due, attempted, upgrade, key>>
tasks == <<spawned, asking>>
history == <<answered, overlapped>>
vars == <<clock, node, memory, upgrades, tasks, job, history>>

Creds == {"v2c", "v3"}
Searching == {"v2c", "v3"}

\* A query verifies a sibling's credential, uses the cached one, waits for the
\* search of another query, or is about to search or searching itself; known is
\* its was_previously_cached.
Idle == [pc |-> "idle"]
Done == [pc |-> "done"]
Jobs == {Idle, Done}
  \cup [pc : {"sibling"}, at : Addresses, trial : Creds]
  \cup [pc : {"cached", "wait"}, at : Addresses]
  \cup [pc : {"acquire"} \cup Searching, at : Addresses, known : BOOLEAN]

\* Types: the cache, its marks and streaks, and the place of every call and task.
TypeOK ==
  /\ tick \in 0 .. MaxTick
  /\ resets \in 0 .. MaxResets
  /\ node \in [Addresses -> 0 .. MaxNodes]
  /\ cache \in [Addresses -> Creds \cup {"none", "unresponsive"}]
  /\ marked \in [Addresses -> 0 .. MaxTick]
  /\ streak \in [Addresses -> 0 .. RetryThreshold]
  /\ due \in [Addresses -> 0 .. Never]
  /\ attempted \subseteq Addresses
  /\ upgrade \in [Addresses -> {"none", "created", "locking", "cascade"}]
  /\ key \in [Addresses -> 0 .. MaxNodes]
  /\ spawned \in [Addresses -> 0 .. MaxAsking]
  /\ asking \in [Addresses -> 0 .. MaxAsking]
  /\ job \in [Queries -> Jobs]
  /\ answered \subseteq Addresses \X Creds
  /\ overlapped \subseteq Addresses

Init ==
  /\ tick = 0 /\ resets = 0
  /\ node = [a \in Addresses |-> 0]
  /\ cache = [a \in Addresses |-> "none"]
  /\ marked = [a \in Addresses |-> 0]
  /\ streak = [a \in Addresses |-> 0]
  /\ due = [a \in Addresses |-> Never]
  /\ attempted = {}
  /\ upgrade = [a \in Addresses |-> "none"]
  /\ key = [a \in Addresses |-> 0]
  /\ spawned = [a \in Addresses |-> 0]
  /\ asking = [a \in Addresses |-> 0]
  /\ job = [q \in Queries |-> Idle]
  /\ answered = {} /\ overlapped = {}

-----------------------------------------------------------------------------
(* What is known of an address.                                             *)

RetryDue(a) == tick >= marked[a] + RetryTicks

\* Neither a credential nor a mark that still counts.
Unknown(a) == cache[a] = "none" \/ (cache[a] = "unresponsive" /\ RetryDue(a))

Siblings(a) == {b \in Addresses \ {a} : node[b] # 0 /\ node[b] = node[a]}

\* Unification welds addresses to nodes; a new lease takes one off its node.
Weld(a, n) ==
  /\ node' = [node EXCEPT ![a] = n]
  /\ UNCHANGED <<clock, memory, upgrades, tasks, job, history>>

\* _maybe_trigger_deferred_v3_upgrade() for the addresses in as, when the tick
\* is t and the dates are dates.
Trigger(as, t, dates) ==
  upgrade' = [a \in Addresses |->
                IF a \in as /\ dates[a] # Never /\ t >= dates[a]
                     /\ upgrade[a] = "none"
                THEN "created" ELSE upgrade[a]]

-----------------------------------------------------------------------------
(* The tick: set_current_tick() and check_due_v3_upgrades().                *)

InSearch(a) == \E q \in Queries : job[q].pc \in Searching /\ job[q].at = a
Queued(a) ==
  \E q \in Queries : job[q].pc \in {"wait", "acquire"} /\ job[q].at = a

Sooner(d) == IF d \in {0, Never} THEN d ELSE d - 1

\* A stage that raised may have left queries under way, so a tick does not wait
\* for them; but the event loop runs what is ready, such as a query that waited
\* for a search that is over, long before the tick is set again.
\* So is the one request that verifies a sibling's credential.
Settled ==
  /\ \A a \in Addresses : Queued(a) => InSearch(a)
  /\ \A q \in Queries : job[q].pc # "sibling"

AdvanceTick ==
  /\ Settled
  /\ IF tick < MaxTick
     THEN tick' = tick + 1 /\ UNCHANGED <<marked, due>>
     ELSE /\ tick' = tick
          /\ marked' = [a \in Addresses |-> Sooner(marked[a])]
          /\ due' = [a \in Addresses |-> Sooner(due[a])]
  /\ Trigger(Addresses, tick', due')
  /\ UNCHANGED <<resets, node, cache, streak, attempted, key, tasks, job,
                 history>>

\* A rebuild, a resumed run or RESTART in native mode sets the count of the loop
\* to 0; the tick follows at the top of the next pass, when the count is 0 still
\* (a stage raised, or the loop was entered anew) or 1 already.
ResetTick ==
  /\ Settled
  /\ resets < MaxResets
  /\ resets' = resets + 1
  /\ \E t \in {0, 1} : t < tick /\ tick' = t
  /\ Trigger(Addresses, tick', due)
  /\ UNCHANGED <<node, memory, due, attempted, key, tasks, job, history>>

-----------------------------------------------------------------------------
(* adaptive_snmp_query().                                                   *)

Become(q, j) == job' = [job EXCEPT ![q] = j]
Leave(q) == Become(q, Done)

MutantProbe(q, a, known) ==
  Become(q, [pc |-> "v2c", at |-> a, known |-> known])

\* The probe lock of an address is held by the query that searches.  A query
\* that finds it locked waits for the search and searches no more; one that
\* finds it open while others have yet to wake up queues behind them.
Probe(q, a, known) ==
  Become(q, IF InSearch(a) THEN [pc |-> "wait", at |-> a]
            ELSE [pc |-> IF Queued(a) THEN "acquire" ELSE "v2c",
                  at |-> a, known |-> known])

Enter(q, a) ==
  \/ Unknown(a) /\ Probe(q, a, FALSE)
  \/ cache[a] \in Creds /\ Become(q, [pc |-> "cached", at |-> a])
  \/ cache[a] = "unresponsive" /\ ~RetryDue(a) /\ Leave(q)

Query(q, a) ==
  /\ job[q] = Idle
  /\ Enter(q, a)
  /\ UNCHANGED <<clock, node, memory, upgrades, tasks, history>>

CachedAnswers(q, a) ==
  /\ job[q] = [pc |-> "cached", at |-> a]
  /\ streak' = [streak EXCEPT ![a] = 0]
  /\ Trigger({a}, tick, due)
  /\ Leave(q)
  /\ UNCHANGED <<clock, node, cache, marked, due, attempted, key, tasks,
                 history>>

\* A failure less than half a minute after the one before does not count.
CachedFails(q, a) ==
  /\ job[q] = [pc |-> "cached", at |-> a]
  /\ \E n \in {streak[a], streak[a] + 1} \ {0} :
       IF n < RetryThreshold
       THEN streak' = [streak EXCEPT ![a] = n] /\ Leave(q)
       ELSE /\ streak' = [streak EXCEPT ![a] = RetryThreshold]
            /\ Probe(q, a, TRUE)
  /\ UNCHANGED <<clock, node, cache, marked, upgrades, tasks, history>>

Wake(q, a) ==
  /\ job[q].pc = "wait" /\ job[q].at = a /\ ~InSearch(a)
  /\ Leave(q)
  /\ UNCHANGED <<clock, node, memory, upgrades, tasks, history>>

\* The lock serves its waiters in turn; here they may overtake each other.
Acquire(q, a) ==
  /\ job[q].pc = "acquire" /\ job[q].at = a
  /\ ~InSearch(a)
  /\ Become(q, [pc |-> "v2c", at |-> a, known |-> job[q].known])
  /\ UNCHANGED <<clock, node, memory, upgrades, tasks, history>>

SearchesAt(q, a, st) == job[q].pc = st /\ job[q].at = a

\* A credential takes the place of a mark.
Remember(a, cred) ==
  /\ cache' = [cache EXCEPT ![a] = cred]
  /\ marked' = [marked EXCEPT ![a] = 0]

Found(q, a, cred) ==
  /\ SearchesAt(q, a, cred)
  /\ Remember(a, cred)
  /\ streak' = [streak EXCEPT ![a] = 0]
  /\ answered' = answered \cup {<<a, cred>>}
  /\ Leave(q)
  /\ UNCHANGED <<clock, node, upgrades, asking, overlapped>>

\* v2c is tried first, and its success leaves a task behind that asks whether
\* v3 would be worth a try.
V2cAnswers(q, a) ==
  /\ Found(q, a, "v2c")
  /\ spawned[a] < MaxAsking
  /\ spawned' = [spawned EXCEPT ![a] = @ + 1]

V2cFails(q, a) ==
  /\ SearchesAt(q, a, "v2c")
  /\ Become(q, [pc |-> "v3", at |-> a, known |-> job[q].known])
  /\ UNCHANGED <<clock, node, memory, upgrades, tasks, history>>

V3Answers(q, a) ==
  /\ Found(q, a, "v3")
  /\ UNCHANGED spawned

\* Only a search for an address without a credential writes it off.
V3Fails(q, a) ==
  /\ SearchesAt(q, a, "v3")
  /\ IF job[q].known
     THEN UNCHANGED <<cache, marked>>
     ELSE /\ cache' = [cache EXCEPT ![a] = "unresponsive"]
          /\ marked' = [marked EXCEPT ![a] = tick]
  /\ Leave(q)
  /\ UNCHANGED <<clock, node, streak, upgrades, tasks, history>>

-----------------------------------------------------------------------------
(* get_working_credential().                                                *)

FetchCached(a) ==
  /\ cache[a] \in Creds
  /\ Trigger({a}, tick, due)
  /\ UNCHANGED <<clock, node, memory, due, attempted, key, tasks, job, history>>

MutantTrySibling(q, a, b) ==
  /\ job[q] = Idle /\ Unknown(a)
  /\ b \in Siblings(a) /\ cache[b] \in Creds
  /\ Remember(a, cache[b])
  /\ Leave(q)
  /\ UNCHANGED <<clock, node, streak, upgrades, tasks, history>>

\* The credential of a sibling is verified before it is taken over.
TrySibling(q, a, b) ==
  /\ job[q] = Idle /\ Unknown(a)
  /\ b \in Siblings(a) /\ cache[b] \in Creds
  /\ Become(q, [pc |-> "sibling", at |-> a, trial |-> cache[b]])
  /\ UNCHANGED <<clock, node, memory, upgrades, tasks, history>>

SiblingAnswers(q, a) ==
  /\ job[q].pc = "sibling" /\ job[q].at = a
  /\ Remember(a, job[q].trial)
  /\ answered' = answered \cup {<<a, job[q].trial>>}
  /\ overlapped' = IF InSearch(a) THEN overlapped \cup {a} ELSE overlapped
  /\ Leave(q)
  /\ UNCHANGED <<clock, node, streak, upgrades, tasks>>

SiblingFails(q, a) ==
  /\ job[q].pc = "sibling" /\ job[q].at = a
  /\ Enter(q, a)
  /\ UNCHANGED <<clock, node, memory, upgrades, tasks, history>>

-----------------------------------------------------------------------------
(* _probe_and_schedule_v3_upgrade().                                        *)

AskEngine(a) ==
  /\ spawned[a] > 0
  /\ spawned' = [spawned EXCEPT ![a] = @ - 1]
  /\ IF due[a] # Never \/ upgrade[a] # "none"
     THEN UNCHANGED asking
     ELSE /\ asking[a] < MaxAsking
          /\ asking' = [asking EXCEPT ![a] = @ + 1]
  /\ UNCHANGED <<clock, node, memory, upgrades, job, history>>

MutantEngineAnswers(a) ==
  /\ asking[a] > 0
  /\ asking' = [asking EXCEPT ![a] = @ - 1]
  /\ due' = [due EXCEPT ![a] = @ + DeferTicks]
  /\ UNCHANGED <<clock, node, memory, attempted, upgrade, key, spawned, job,
                 history>>

EngineAnswers(a) ==
  /\ asking[a] > 0
  /\ asking' = [asking EXCEPT ![a] = @ - 1]
  /\ due' = [due EXCEPT ![a] = tick + DeferTicks]
  /\ UNCHANGED <<clock, node, memory, attempted, upgrade, key, spawned, job,
                 history>>

EngineSilent(a) ==
  /\ asking[a] > 0
  /\ asking' = [asking EXCEPT ![a] = @ - 1]
  /\ UNCHANGED <<clock, node, memory, upgrades, spawned, job, history>>

-----------------------------------------------------------------------------
(* _run_deferred_v3_upgrade().                                              *)

StartUpgrade(a) ==
  /\ upgrade[a] = "created"
  /\ upgrade' = [upgrade EXCEPT ![a] = "locking"]
  /\ key' = [key EXCEPT ![a] = node[a]]
  /\ UNCHANGED <<clock, node, memory, due, attempted, tasks, job, history>>

\* The lock of a node is held by the task that runs the cascade; the lock of an
\* address that is welded to nothing is its own.
HasLock(a) ==
  /\ upgrade[a] = "locking"
  /\ key[a] = 0 \/ \A b \in Addresses : upgrade[b] = "cascade" => key[b] # key[a]

EndUpgrade(a) ==
  /\ upgrade' = [upgrade EXCEPT ![a] = "none"]
  /\ key' = [key EXCEPT ![a] = 0]
  /\ attempted' = attempted \cup {a}
  /\ due' = [due EXCEPT ![a] = Never]
  /\ UNCHANGED <<clock, node, tasks, job>>

\* The siblings come in any order, and the first that has a v3 credential or
\* an attempt behind it decides.
Reuse(a, b) ==
  /\ HasLock(a) /\ b \in Siblings(a)
  /\ cache[b] = "v3"
  /\ Remember(a, "v3")
  /\ EndUpgrade(a)
  /\ UNCHANGED <<streak, history>>

Skip(a, b) ==
  /\ HasLock(a) /\ b \in Siblings(a)
  /\ cache[b] # "v3" /\ b \in attempted
  /\ EndUpgrade(a)
  /\ UNCHANGED <<memory, history>>

BeginCascade(a) ==
  /\ HasLock(a)
  /\ \A b \in Siblings(a) : cache[b] # "v3" /\ b \notin attempted
  /\ upgrade' = [upgrade EXCEPT ![a] = "cascade"]
  /\ UNCHANGED <<clock, node, memory, due, attempted, key, tasks, job,
                 history>>

CascadeAnswers(a) ==
  /\ upgrade[a] = "cascade"
  /\ Remember(a, "v3")
  /\ streak' = [streak EXCEPT ![a] = 0]
  /\ answered' = answered \cup {<<a, "v3">>}
  /\ EndUpgrade(a)
  /\ UNCHANGED overlapped

CascadeFails(a) ==
  /\ upgrade[a] = "cascade"
  /\ EndUpgrade(a)
  /\ UNCHANGED <<memory, history>>

-----------------------------------------------------------------------------
QueryStep(q, a) ==
  \/ Query(q, a)
  \/ CachedAnswers(q, a) \/ CachedFails(q, a)
  \/ Wake(q, a) \/ Acquire(q, a)
  \/ V2cAnswers(q, a) \/ V2cFails(q, a)
  \/ V3Answers(q, a) \/ V3Fails(q, a)
  \/ \E b \in Addresses : TrySibling(q, a, b)
  \/ SiblingAnswers(q, a) \/ SiblingFails(q, a)

TaskStep(a) ==
  \/ FetchCached(a)
  \/ AskEngine(a) \/ EngineAnswers(a) \/ EngineSilent(a)
  \/ StartUpgrade(a) \/ BeginCascade(a)
  \/ CascadeAnswers(a) \/ CascadeFails(a)
  \/ \E b \in Addresses : Reuse(a, b) \/ Skip(a, b)

Next ==
  \/ AdvanceTick \/ ResetTick
  \/ \E a \in Addresses, n \in 0 .. MaxNodes : Weld(a, n)
  \/ \E q \in Queries, a \in Addresses : QueryStep(q, a)
  \/ \E a \in Addresses : TaskStep(a)

Spec == Init /\ [][Next]_vars

-----------------------------------------------------------------------------
(* Properties.                                                              *)

\* No credential is remembered for an address on trust: it answered to it
\* itself, or its upgrade took v3 over from a sibling, and then some address
\* has answered to v3 (snmp_adapter.py 435-437, 548-554, 385-390).
CachedWasAnswered ==
  \A a \in Addresses :
    /\ cache[a] = "v2c" => <<a, "v2c">> \in answered
    /\ cache[a] = "v3" => \E b \in Addresses : <<b, "v3">> \in answered

\* However many searches, verifications and upgrades run at a time, none of
\* them that ends late writes off an address for which another one has found a
\* credential, unless a sibling's credential was verified while the search was
\* under way, which no lock prevents (snmp_adapter.py 407-418, 548-554,
\* 736-745, 798-803).
KeptOnceFound ==
  [][\A a \in Addresses :
       cache[a] \in Creds /\ cache'[a] \notin Creds => a \in overlapped]_vars
=============================================================================
