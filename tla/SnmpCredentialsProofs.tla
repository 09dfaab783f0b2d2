------------------------ MODULE SnmpCredentialsProofs ------------------------
(* Proofs about SnmpCredentials for every set of addresses and queries and    *)
(* every value of the thresholds and bounds.                                  *)
EXTENDS SnmpCredentials, TLAPS

\* The type invariant in two parts: what the module remembers, and where the
\* queries are.
MemoryTyped ==
  /\ tick \in 0 .. MaxTick /\ resets \in 0 .. MaxResets
  /\ node \in [Addresses -> 0 .. MaxNodes]
  /\ cache \in [Addresses -> Creds \cup {"none", "unresponsive"}]
  /\ marked \in [Addresses -> 0 .. MaxTick]
  /\ streak \in [Addresses -> 0 .. RetryThreshold]
  /\ answered \subseteq Addresses \X Creds
  /\ overlapped \subseteq Addresses

UpgradesTyped ==
  /\ due \in [Addresses -> 0 .. Never]
  /\ attempted \subseteq Addresses
  /\ upgrade \in [Addresses -> {"none", "created", "locking", "cascade"}]
  /\ key \in [Addresses -> 0 .. MaxNodes]
  /\ spawned \in [Addresses -> 0 .. MaxAsking]
  /\ asking \in [Addresses -> 0 .. MaxAsking]

\* The type invariant is these two parts and the type of the queries.
LEMMA TypeParts == TypeOK <=> MemoryTyped /\ UpgradesTyped /\ job \in [Queries -> Jobs]
  BY DEF TypeOK, MemoryTyped, UpgradesTyped

\* What a query holds while it is somewhere.
LEMMA JobFields ==
  ASSUME NEW j \in Jobs
  PROVE  /\ j.pc = "idle" => j = Idle
         /\ j.pc = "sibling" => j.at \in Addresses /\ j.trial \in Creds
         /\ j.pc \in {"acquire"} \cup Searching =>
              /\ j.at \in Addresses /\ j.known \in BOOLEAN
  BY DEF Jobs, Idle, Done, Searching, Creds

\* The shapes a query can be given.
LEMMA JobShapes ==
  /\ Idle \in Jobs /\ Done \in Jobs
  /\ \A a \in Addresses :
       /\ \A pc \in {"cached", "wait"} : [pc |-> pc, at |-> a] \in Jobs
       /\ \A c \in Creds : [pc |-> "sibling", at |-> a, trial |-> c] \in Jobs
       /\ \A pc \in {"acquire"} \cup Searching, known \in BOOLEAN :
            [pc |-> pc, at |-> a, known |-> known] \in Jobs
  BY DEF Jobs

\* Every date that is set is a date.
LEMMA DateFacts ==
  /\ Never \in Nat /\ MaxTick < Never
  /\ \A t \in 0 .. MaxTick : t + DeferTicks \in 0 .. Never
  /\ \A d \in 0 .. Never : Sooner(d) \in 0 .. Never
  /\ \A d \in 0 .. MaxTick : Sooner(d) \in 0 .. MaxTick
  BY CredentialConstants DEF Never, Sooner

\* The initial state has the type.
LEMMA InitType == Init => TypeOK
<1> SUFFICES ASSUME Init PROVE TypeOK
  OBVIOUS
<1>1. MemoryTyped
  BY CredentialConstants DEF Init, MemoryTyped
<1>2. UpgradesTyped
  BY CredentialConstants, DateFacts DEF Init, UpgradesTyped
<1>3. job \in [Queries -> Jobs]
  BY JobShapes DEF Init
<1> QED
  BY <1>1, <1>2, <1>3, TypeParts

\* Triggering upgrades keeps their type.
LEMMA TriggerType ==
  ASSUME TypeOK, NEW as, NEW t, NEW dates, Trigger(as, t, dates)
  PROVE  upgrade' \in [Addresses -> {"none", "created", "locking", "cascade"}]
  BY DEF TypeOK, Trigger

\* A query that enters, or is sent to search, has the type.
LEMMA EnterType ==
  ASSUME TypeOK, NEW q \in Queries, NEW a \in Addresses, NEW known \in BOOLEAN,
         Enter(q, a) \/ Probe(q, a, known)
  PROVE  job' \in [Queries -> Jobs]
<1>1. ASSUME NEW k \in BOOLEAN, Probe(q, a, k) PROVE job' \in [Queries -> Jobs]
  BY <1>1, JobShapes DEF TypeOK, Probe, Become, Searching
<1>2. CASE Enter(q, a)
  BY <1>1, <1>2, JobShapes DEF TypeOK, Enter, Become, Leave
<1> QED
  BY <1>1, <1>2

\* So does one that is through.
LEMMA LeaveType ==
  ASSUME TypeOK, NEW q \in Queries, Leave(q)
  PROVE  job' \in [Queries -> Jobs]
  BY JobShapes DEF TypeOK, Leave, Become

\* The clock and the welds keep the type.
LEMMA ClockType ==
  ASSUME TypeOK,
         \/ AdvanceTick \/ ResetTick
         \/ \E a \in Addresses, n \in 0 .. MaxNodes : Weld(a, n)
  PROVE  TypeOK'
<1>1. CASE AdvanceTick
  <2>1. MemoryTyped'
    BY <1>1, CredentialConstants, DateFacts
    DEF AdvanceTick, TypeOK, MemoryTyped, history
  <2>2. UpgradesTyped'
    BY <1>1, CredentialConstants, DateFacts, TriggerType
    DEF AdvanceTick, TypeOK, UpgradesTyped, tasks
  <2> QED
    BY <1>1, <2>1, <2>2, TypeParts DEF AdvanceTick, TypeOK, MemoryTyped, UpgradesTyped
<1>2. CASE ResetTick
  <2>1. MemoryTyped'
    BY <1>2, CredentialConstants DEF ResetTick, TypeOK, MemoryTyped, memory, history
  <2>2. UpgradesTyped'
    BY <1>2, TriggerType DEF ResetTick, TypeOK, UpgradesTyped, tasks
  <2> QED
    BY <1>2, <2>1, <2>2 DEF ResetTick, TypeOK, MemoryTyped, UpgradesTyped
<1>3. ASSUME NEW a \in Addresses, NEW n \in 0 .. MaxNodes, Weld(a, n)
      PROVE  TypeOK'
  BY <1>3 DEF Weld, TypeOK, clock, memory, upgrades, tasks, history
<1> QED
  BY <1>1, <1>2, <1>3

\* The steps of a query keep the type.
LEMMA QueryType ==
  ASSUME TypeOK, NEW q \in Queries, NEW a \in Addresses, QueryStep(q, a)
  PROVE  TypeOK'
<1> USE DEF clock, memory, upgrades, tasks, history
<1>1. CASE Query(q, a)
  BY <1>1, EnterType DEF Query, TypeOK
<1>2. CASE CachedAnswers(q, a)
  BY <1>2, CredentialConstants, LeaveType, TriggerType DEF CachedAnswers, TypeOK
<1>3. CASE CachedFails(q, a)
  <2>1. PICK n \in {streak[a], streak[a] + 1} \ {0} :
          IF n < RetryThreshold
          THEN streak' = [streak EXCEPT ![a] = n] /\ Leave(q)
          ELSE /\ streak' = [streak EXCEPT ![a] = RetryThreshold]
               /\ Probe(q, a, TRUE)
    BY <1>3 DEF CachedFails
  <2>2. job' \in [Queries -> Jobs]
    BY <2>1, EnterType, LeaveType
  <2>3. streak' \in [Addresses -> 0 .. RetryThreshold]
    <3>1. n \in Nat
      BY CredentialConstants DEF TypeOK
    <3>2. CASE n < RetryThreshold
      <4>1. n \in 0 .. RetryThreshold
        BY <3>1, <3>2, CredentialConstants
      <4> QED
        BY <2>1, <3>2, <4>1 DEF TypeOK
    <3>3. CASE ~(n < RetryThreshold)
      <4>1. RetryThreshold \in 0 .. RetryThreshold
        BY CredentialConstants
      <4> QED
        BY <2>1, <3>3, <4>1 DEF TypeOK
    <3> QED
      BY <3>2, <3>3
  <2> QED
    BY <1>3, <2>2, <2>3 DEF CachedFails, TypeOK
<1>4. CASE Wake(q, a)
  BY <1>4, LeaveType DEF Wake, TypeOK
<1>5. CASE Acquire(q, a)
  <2>1. job[q].known \in BOOLEAN
    BY <1>5, JobFields DEF Acquire, TypeOK
  <2>2. job' \in [Queries -> Jobs]
    BY <1>5, <2>1, JobShapes DEF Acquire, Become, TypeOK, Searching
  <2> QED
    BY <1>5, <2>2 DEF Acquire, TypeOK
<1>6. ASSUME NEW cred \in Creds, Found(q, a, cred),
             spawned' \in [Addresses -> 0 .. MaxAsking]
      PROVE  TypeOK'
  BY <1>6, CredentialConstants, LeaveType DEF Found, Remember, TypeOK
<1>7. CASE V2cAnswers(q, a)
  <2>1. spawned' \in [Addresses -> 0 .. MaxAsking]
    BY <1>7, CredentialConstants DEF V2cAnswers, TypeOK
  <2> QED
    BY <1>6, <1>7, <2>1 DEF V2cAnswers, Creds
<1>8. CASE V2cFails(q, a)
  <2>1. job[q].known \in BOOLEAN
    BY <1>8, JobFields DEF V2cFails, SearchesAt, TypeOK, Searching
  <2>2. job' \in [Queries -> Jobs]
    BY <1>8, <2>1, JobShapes DEF V2cFails, Become, TypeOK, Searching
  <2> QED
    BY <1>8, <2>2 DEF V2cFails, TypeOK
<1>9. CASE V3Answers(q, a)
  BY <1>6, <1>9 DEF V3Answers, Creds, TypeOK
<1>10. CASE V3Fails(q, a)
  BY <1>10, CredentialConstants, LeaveType DEF V3Fails, TypeOK
<1>11. ASSUME NEW b \in Addresses, TrySibling(q, a, b) PROVE TypeOK'
  <2>1. job' \in [Queries -> Jobs]
    BY <1>11, JobShapes DEF TrySibling, Become, TypeOK
  <2> QED
    BY <1>11, <2>1 DEF TrySibling, TypeOK
<1>12. CASE SiblingAnswers(q, a)
  <2>1. job[q].trial \in Creds
    BY <1>12, JobFields DEF SiblingAnswers, TypeOK
  <2>2. job' \in [Queries -> Jobs] /\ cache' \in [Addresses -> Creds \cup {"none", "unresponsive"}]
    BY <1>12, <2>1, LeaveType DEF SiblingAnswers, Remember, TypeOK
  <2>3. marked' \in [Addresses -> 0 .. MaxTick]
    BY <1>12, CredentialConstants DEF SiblingAnswers, Remember, TypeOK
  <2> QED
    BY <1>12, <2>1, <2>2, <2>3 DEF SiblingAnswers, TypeOK
<1>13. CASE SiblingFails(q, a)
  BY <1>13, EnterType DEF SiblingFails, TypeOK
<1> QED
  BY <1>1, <1>2, <1>3, <1>4, <1>5, <1>7, <1>8, <1>9, <1>10, <1>11, <1>12, <1>13
  DEF QueryStep

\* The end of an upgrade keeps the type of the upgrades.
LEMMA EndUpgradeType ==
  ASSUME TypeOK, NEW a \in Addresses, EndUpgrade(a)
  PROVE  UpgradesTyped' /\ job' = job
  BY CredentialConstants, DateFacts
  DEF EndUpgrade, TypeOK, UpgradesTyped, clock, tasks

\* So does a credential that is remembered.
LEMMA RememberType ==
  ASSUME TypeOK, NEW a \in Addresses, NEW cred \in Creds, Remember(a, cred)
  PROVE  /\ cache' \in [Addresses -> Creds \cup {"none", "unresponsive"}]
         /\ marked' \in [Addresses -> 0 .. MaxTick]
  BY CredentialConstants DEF Remember, TypeOK

\* The steps of the tasks keep the type.
LEMMA TaskType ==
  ASSUME TypeOK, NEW a \in Addresses, TaskStep(a)
  PROVE  TypeOK'
<1> USE DEF clock, memory, upgrades, tasks, history
<1>1. CASE FetchCached(a)
  BY <1>1, TriggerType DEF FetchCached, TypeOK
<1>2. CASE AskEngine(a)
  BY <1>2, CredentialConstants DEF AskEngine, TypeOK
<1>3. CASE EngineAnswers(a)
  <2>1. tick + DeferTicks \in 0 .. Never
    BY DateFacts DEF TypeOK
  <2> QED
    BY <1>3, <2>1, CredentialConstants DEF EngineAnswers, TypeOK
<1>4. CASE EngineSilent(a)
  BY <1>4, CredentialConstants DEF EngineSilent, TypeOK
<1>5. CASE StartUpgrade(a)
  BY <1>5 DEF StartUpgrade, TypeOK
<1>6. CASE BeginCascade(a)
  BY <1>6 DEF BeginCascade, TypeOK
<1>7. CASE CascadeAnswers(a)
  <2>1. MemoryTyped'
    BY <1>7, CredentialConstants, RememberType
    DEF CascadeAnswers, EndUpgrade, MemoryTyped, TypeOK, Creds
  <2> QED
    BY <1>7, <2>1, EndUpgradeType, TypeParts DEF CascadeAnswers, TypeOK, MemoryTyped, UpgradesTyped
<1>8. CASE CascadeFails(a)
  <2>1. MemoryTyped'
    BY <1>8 DEF CascadeFails, EndUpgrade, MemoryTyped, TypeOK
  <2> QED
    BY <1>8, <2>1, EndUpgradeType DEF CascadeFails, TypeOK, MemoryTyped, UpgradesTyped
<1>9. ASSUME NEW b \in Addresses, Reuse(a, b) PROVE TypeOK'
  <2>1. MemoryTyped'
    BY <1>9, RememberType DEF Reuse, EndUpgrade, MemoryTyped, TypeOK, Creds
  <2> QED
    BY <1>9, <2>1, EndUpgradeType DEF Reuse, TypeOK, MemoryTyped, UpgradesTyped
<1>10. ASSUME NEW b \in Addresses, Skip(a, b) PROVE TypeOK'
  <2>1. MemoryTyped'
    BY <1>10 DEF Skip, EndUpgrade, MemoryTyped, TypeOK
  <2> QED
    BY <1>10, <2>1, EndUpgradeType DEF Skip, TypeOK, MemoryTyped, UpgradesTyped
<1> QED
  BY <1>1, <1>2, <1>3, <1>4, <1>5, <1>6, <1>7, <1>8, <1>9, <1>10 DEF TaskStep

\* Every step keeps the type.
LEMMA NextType == TypeOK /\ [Next]_vars => TypeOK'
<1> SUFFICES ASSUME TypeOK, [Next]_vars PROVE TypeOK'
  OBVIOUS
<1>1. CASE UNCHANGED vars
  BY <1>1 DEF vars, clock, memory, upgrades, tasks, history, TypeOK
<1>2. CASE Next
  BY <1>2, ClockType, QueryType, TaskType DEF Next
<1> QED
  BY <1>1, <1>2

\* Everything the module keeps has its type, however many queries run at a time
\* and whatever the agents answer.
THEOREM TypeCorrect == Spec => []TypeOK
  BY InitType, NextType, PTL DEF Spec

-----------------------------------------------------------------------------
(* Nobody writes off what another one has found.                            *)

Has(a) == cache[a] \in Creds

SearchesFor(q, a) == job[q].pc \in Searching /\ job[q].at = a

\* The lock of an address lets one query search at a time.
OneSearch ==
  \A q, r \in Queries, a \in Addresses :
    SearchesFor(q, a) /\ SearchesFor(r, a) => q = r

\* An upgrade of a is being prepared or runs.
Pending(a) ==
  due[a] # Never \/ upgrade[a] # "none" \/ spawned[a] > 0 \/ asking[a] > 0

\* What the queries and tasks at an address believe of it is true: those that
\* use a credential or upgrade one have one, those that search know whether
\* there is one, and the queries that queue up behind a search that is over are
\* there for a re-probe, because the search has left a credential or a fresh
\* mark.
UsersRight(a) ==
  \A q \in Queries : job[q].pc = "cached" /\ job[q].at = a => Has(a)

SearchersRight(a) ==
  \A q \in Queries :
    job[q].pc \in {"acquire"} \cup Searching /\ job[q].at = a =>
      /\ job[q].known <=> Has(a)
      /\ job[q].pc = "acquire" => job[q].known

QueueRight(a) == Queued(a) => InSearch(a) \/ ~Unknown(a)

UpgradesRight(a) == Pending(a) => Has(a)

Right(a) ==
  UsersRight(a) /\ SearchersRight(a) /\ QueueRight(a) /\ UpgradesRight(a)

\* An address that was verified by a sibling's credential in the middle of a
\* search is the exception.
IInv == TypeOK /\ OneSearch /\ \A a \in Addresses \ overlapped : Right(a)

\* Initially there is nothing to believe.
LEMMA InitIInv == Init => IInv
<1> SUFFICES ASSUME Init PROVE IInv
  OBVIOUS
<1>1. \A q \in Queries : job[q].pc = "idle"
  BY DEF Init, Idle
<1>2. OneSearch
  BY <1>1 DEF OneSearch, SearchesFor, Searching
<1>3. ASSUME NEW a \in Addresses PROVE Right(a)
  BY <1>1 DEF Right, UsersRight, SearchersRight, QueueRight, UpgradesRight, Queued,
              Pending, Init, Searching
<1> QED
  BY <1>2, <1>3, InitType DEF IInv

\* A query that needs no lock of an address and no credential of it.
Away(j, a) == j.pc \in {"idle", "done", "sibling"} \/ j.at # a

\* What is remembered of a is not touched.
Undisturbed(a) ==
  /\ tick' = tick /\ cache'[a] = cache[a] /\ marked'[a] = marked[a]
  /\ Pending(a)' => Pending(a) \/ Has(a)

\* A step of a query elsewhere, or its end here unless it searched, leaves what
\* is believed of a true.
LEMMA Elsewhere ==
  ASSUME NEW a \in Addresses, Right(a), Undisturbed(a), NEW q \in Queries,
         \A r \in Queries \ {q} : job'[r] = job[r],
         job'[q] = job[q] \/ (Away(job'[q], a) /\ ~SearchesFor(q, a))
  PROVE  Right(a)'
<1> USE DEF Undisturbed
<1>1. ASSUME NEW r \in Queries
      PROVE  job'[r] = job[r] \/ (r = q /\ Away(job'[r], a) /\ ~SearchesFor(r, a))
  OBVIOUS
<1>2. Has(a)' <=> Has(a)
  BY DEF Has
<1>3. UsersRight(a)'
  BY <1>1, <1>2 DEF Right, UsersRight, Away
<1>4. SearchersRight(a)'
  BY <1>1, <1>2 DEF Right, SearchersRight, Away, Searching
<1>5. QueueRight(a)'
  <2>1. Queued(a)' => Queued(a)
    BY <1>1 DEF Queued, Away
  <2>2. InSearch(a) => InSearch(a)'
    BY <1>1 DEF InSearch, SearchesFor
  <2>3. Unknown(a)' <=> Unknown(a)
    BY DEF Unknown, RetryDue
  <2> QED
    BY <2>1, <2>2, <2>3 DEF Right, QueueRight
<1>6. UpgradesRight(a)'
  BY <1>2 DEF Right, UpgradesRight
<1> QED
  BY <1>3, <1>4, <1>5, <1>6 DEF Right

\* With a credential everything that is believed of a is true, when those that
\* are about to search or search are there for a re-probe.
LEMMA CredentialRight ==
  ASSUME NEW a \in Addresses, cache'[a] \in Creds,
         \A q \in Queries : job'[q].pc \in {"acquire"} \cup Searching /\ job'[q].at = a
                              => job'[q].known
  PROVE  Right(a)'
<1>1. Has(a)' /\ ~Unknown(a)'
  BY DEF Has, Unknown, Creds
<1> QED
  BY <1>1 DEF Right, UsersRight, SearchersRight, QueueRight, UpgradesRight

\* Nothing changes about an address when no query and no upgrade of it moves.
LEMMA Untouched ==
  ASSUME NEW a \in Addresses, Right(a), Undisturbed(a), job' = job
  PROVE  Right(a)'
<1>1. Has(a)' <=> Has(a)
  BY DEF Has, Undisturbed
<1>2. Unknown(a)' <=> Unknown(a)
  BY DEF Unknown, RetryDue, Undisturbed
<1> QED
  BY <1>1, <1>2
  DEF Right, UsersRight, SearchersRight, QueueRight, UpgradesRight, Queued, InSearch,
      Undisturbed

\* Entering: the query waits, uses the credential, leaves, or takes the lock of
\* an address nothing is known of.
LEMMA EnterRight ==
  ASSUME TypeOK, NEW a \in Addresses, Right(a), Undisturbed(a), NEW q \in Queries,
         Away(job[q], a), Enter(q, a)
  PROVE  Right(a)'
<1> USE DEF Undisturbed
<1>1. \A r \in Queries \ {q} : job'[r] = job[r]
  BY DEF Enter, Probe, Become, Leave, TypeOK
<1>2. ~SearchesFor(q, a) /\ ~(job[q].pc \in {"wait", "acquire"} /\ job[q].at = a)
  BY DEF Away, SearchesFor, Searching
<1>3. (Has(a)' <=> Has(a)) /\ (Unknown(a)' <=> Unknown(a))
  BY DEF Has, Unknown, RetryDue
<1>4. InSearch(a) => InSearch(a)'
  BY <1>1, <1>2 DEF InSearch, SearchesFor
<1>5. UpgradesRight(a)'
  BY <1>3 DEF Right, UpgradesRight
<1>6. CASE Unknown(a) /\ InSearch(a) /\ Probe(q, a, FALSE)
  <2>1. job'[q] = [pc |-> "wait", at |-> a]
    BY <1>6 DEF Probe, Become, TypeOK
  <2> QED
    BY <1>1, <1>3, <1>4, <1>5, <1>6, <2>1
    DEF Right, UsersRight, SearchersRight, QueueRight, Searching
<1>7. CASE Unknown(a) /\ ~InSearch(a) /\ Probe(q, a, FALSE)
  <2>1. ~Queued(a) /\ ~Has(a)
    BY <1>7 DEF Right, QueueRight, Unknown, Has, Creds
  <2>2. job'[q] = [pc |-> "v2c", at |-> a, known |-> FALSE]
    BY <1>7, <2>1 DEF Probe, Become, TypeOK
  <2>3. InSearch(a)'
    BY <2>2 DEF InSearch, Searching
  <2> QED
    BY <1>1, <1>3, <1>5, <2>1, <2>2, <2>3
    DEF Right, UsersRight, SearchersRight, QueueRight, Searching
<1>8. CASE cache[a] \in Creds /\ Become(q, [pc |-> "cached", at |-> a])
  <2>1. job'[q] = [pc |-> "cached", at |-> a]
    BY <1>8 DEF Become, TypeOK
  <2> QED
    BY <1>1, <1>8, <2>1, CredentialRight DEF Right, SearchersRight, Has, Searching
<1>9. CASE Leave(q)
  <2>1. Away(job'[q], a)
    BY <1>9 DEF Leave, Become, TypeOK, Away, Done
  <2> QED
    BY <1>1, <1>2, <2>1, Elsewhere
<1> QED
  BY <1>6, <1>7, <1>8, <1>9 DEF Enter

\* A step of a query at a moves no other query, and this one stays at a; it
\* begins to search only where nobody searches.
LEMMA QueryMoves ==
  ASSUME TypeOK, NEW q \in Queries, NEW a \in Addresses, QueryStep(q, a)
  PROVE  /\ \A r \in Queries \ {q} : job'[r] = job[r]
         /\ job[q].pc = "idle" \/ job[q].at = a
         /\ job'[q].pc = "done" \/ job'[q].at = a
         /\ SearchesFor(q, a)' => SearchesFor(q, a) \/ ~InSearch(a)
<1> DEFINE Moves ==
      /\ \A r \in Queries \ {q} : job'[r] = job[r]
      /\ job[q].pc = "idle" \/ job[q].at = a
      /\ job'[q].pc = "done" \/ job'[q].at = a
      /\ SearchesFor(q, a)' => SearchesFor(q, a) \/ ~InSearch(a)
<1> USE DEF SearchesFor, Searching, TypeOK
<1>1. ASSUME NEW j \in Jobs, Become(q, j),
             job[q].pc = "idle" \/ job[q].at = a,
             j.pc = "done" \/ j.at = a,
             j.pc \in Searching => SearchesFor(q, a) \/ ~InSearch(a)
      PROVE  Moves
  BY <1>1 DEF Become
<1>2. ASSUME job[q].pc = "idle" \/ job[q].at = a, Leave(q)
      PROVE  Moves
  <2>1. Become(q, Done) /\ Done.pc = "done"
    BY <1>2 DEF Leave, Done
  <2> QED
    BY <1>2, <2>1, JobShapes, <1>1
<1>3. ASSUME NEW known \in BOOLEAN, job[q].pc = "idle" \/ job[q].at = a,
             Probe(q, a, known)
      PROVE  Moves
  BY <1>3 DEF Probe, Become
<1>4. ASSUME job[q].pc = "idle" \/ job[q].at = a, Enter(q, a)
      PROVE  Moves
  <2>1. CASE Become(q, [pc |-> "cached", at |-> a])
    BY <1>4, <2>1 DEF Become
  <2> QED
    BY <1>2, <1>3, <1>4, <2>1 DEF Enter
<1>5. CASE Query(q, a)
  BY <1>4, <1>5 DEF Query, Idle
<1>6. CASE CachedAnswers(q, a)
  BY <1>2, <1>6 DEF CachedAnswers
<1>7. CASE CachedFails(q, a)
  <2>1. job[q].at = a
    BY <1>7 DEF CachedFails
  <2>2. Leave(q) \/ Probe(q, a, TRUE)
    BY <1>7 DEF CachedFails
  <2> QED
    BY <1>2, <1>3, <2>1, <2>2
<1>8. CASE Wake(q, a)
  BY <1>2, <1>8 DEF Wake
<1>9. CASE Acquire(q, a)
  BY <1>9 DEF Acquire, Become
<1>10. CASE V2cAnswers(q, a) \/ V3Answers(q, a)
  BY <1>2, <1>10 DEF V2cAnswers, V3Answers, Found, SearchesAt
<1>11. CASE V2cFails(q, a)
  BY <1>11 DEF V2cFails, SearchesAt, Become
<1>12. CASE V3Fails(q, a)
  BY <1>2, <1>12 DEF V3Fails, SearchesAt
<1>13. ASSUME NEW b \in Addresses, TrySibling(q, a, b) PROVE Moves
  BY <1>13 DEF TrySibling, Become, Idle
<1>14. CASE SiblingAnswers(q, a)
  BY <1>2, <1>14 DEF SiblingAnswers
<1>15. CASE SiblingFails(q, a)
  BY <1>4, <1>15 DEF SiblingFails
<1> QED
  BY <1>5, <1>6, <1>7, <1>8, <1>9, <1>10, <1>11, <1>12, <1>13, <1>14, <1>15
  DEF QueryStep

\* One query searches at a time after a step of a query, too.
LEMMA QueryOneSearch ==
  ASSUME TypeOK, OneSearch, NEW q \in Queries, NEW a \in Addresses, QueryStep(q, a)
  PROVE  OneSearch'
<1>1. SUFFICES ASSUME NEW r \in Queries, NEW s \in Queries, NEW c \in Addresses,
                      SearchesFor(r, c)', SearchesFor(s, c)', r # s
               PROVE  FALSE
  BY DEF OneSearch
<1>2. \A p \in Queries \ {q} : SearchesFor(p, c)' <=> SearchesFor(p, c)
  BY QueryMoves DEF SearchesFor
<1>3. CASE c = a
  BY <1>1, <1>2, <1>3, QueryMoves DEF OneSearch, InSearch, SearchesFor
<1>4. CASE c # a
  <2>1. ~SearchesFor(q, c)'
    BY <1>4, QueryMoves DEF SearchesFor, Searching
  <2> QED
    BY <1>1, <1>2, <2>1 DEF OneSearch
<1> QED
  BY <1>3, <1>4

\* A step of a query at a leaves what is remembered of the others alone.
LEMMA QueryUndisturbed ==
  ASSUME TypeOK, NEW q \in Queries, NEW a \in Addresses, QueryStep(q, a),
         NEW c \in Addresses, c # a
  PROVE  Undisturbed(c)
<1> USE DEF Undisturbed, Pending, clock, memory, upgrades, tasks, TypeOK
<1>1. CASE Query(q, a) \/ Wake(q, a) \/ Acquire(q, a) \/ V2cFails(q, a) \/ SiblingFails(q, a)
  BY <1>1 DEF Query, Wake, Acquire, V2cFails, SiblingFails
<1>2. CASE CachedAnswers(q, a)
  BY <1>2 DEF CachedAnswers, Trigger
<1>3. CASE CachedFails(q, a)
  BY <1>3 DEF CachedFails
<1>4. CASE V2cAnswers(q, a)
  BY <1>4 DEF V2cAnswers, Found, Remember
<1>5. CASE V3Answers(q, a)
  BY <1>5 DEF V3Answers, Found, Remember
<1>6. CASE V3Fails(q, a)
  BY <1>6 DEF V3Fails
<1>7. ASSUME NEW b \in Addresses, TrySibling(q, a, b) PROVE Undisturbed(c)
  BY <1>7 DEF TrySibling
<1>8. CASE SiblingAnswers(q, a)
  BY <1>8 DEF SiblingAnswers, Remember
<1> QED
  BY <1>1, <1>2, <1>3, <1>4, <1>5, <1>6, <1>7, <1>8 DEF QueryStep

\* A query that ends at a without having searched leaves a as it is.
LEMMA LeaveRight ==
  ASSUME TypeOK, NEW q \in Queries, NEW a \in Addresses, Right(a), Undisturbed(a),
         Leave(q), ~SearchesFor(q, a)
  PROVE  Right(a)'
<1>1. \A r \in Queries \ {q} : job'[r] = job[r]
  BY DEF Leave, Become, TypeOK
<1>2. Away(job'[q], a)
  BY DEF Leave, Become, TypeOK, Away, Done
<1> QED
  BY <1>1, <1>2, Elsewhere

\* A search that goes on, or begins behind another one, leaves a as it is.
LEMMA SearchOnRight ==
  ASSUME TypeOK, NEW q \in Queries, NEW a \in Addresses, Right(a), Undisturbed(a),
         job[q].pc \in {"acquire"} \cup Searching, job[q].at = a, NEW st \in Searching,
         Become(q, [pc |-> st, at |-> a, known |-> job[q].known])
  PROVE  Right(a)'
<1> USE DEF Undisturbed
<1>1. \A r \in Queries \ {q} : job'[r] = job[r]
  BY DEF Become, TypeOK
<1>2. job'[q] = [pc |-> st, at |-> a, known |-> job[q].known]
  BY DEF Become, TypeOK
<1>3. Has(a)' <=> Has(a)
  BY DEF Has
<1>4. InSearch(a)'
  BY <1>2 DEF InSearch
<1>5. SearchersRight(a)'
  BY <1>1, <1>2, <1>3 DEF Right, SearchersRight, Searching
<1>6. UsersRight(a)'
  BY <1>1, <1>2, <1>3 DEF Right, UsersRight, Searching
<1> QED
  BY <1>3, <1>4, <1>5, <1>6 DEF Right, QueueRight, UpgradesRight

\* A query that finds a credential makes everything right: whoever still queues
\* up is there for a re-probe.
LEMMA FindRight ==
  ASSUME TypeOK, NEW q \in Queries, NEW a \in Addresses, Right(a), NEW cred \in Creds,
         Remember(a, cred), Leave(q),
         \A r \in Queries \ {q} : ~SearchesFor(r, a)
  PROVE  Right(a)'
<1>1. cache'[a] \in Creds
  BY DEF Remember, TypeOK
<1>2. ASSUME NEW r \in Queries, job'[r].pc \in {"acquire"} \cup Searching, job'[r].at = a
      PROVE  job'[r].known
  <2>1. r # q
    BY <1>2 DEF Leave, Become, TypeOK, Done, Searching
  <2>2. job'[r] = job[r]
    BY <2>1 DEF Leave, Become, TypeOK
  <2>3. job[r].pc = "acquire"
    BY <1>2, <2>1, <2>2 DEF SearchesFor
  <2> QED
    BY <1>2, <2>2, <2>3 DEF Right, SearchersRight
<1> QED
  BY <1>1, <1>2, CredentialRight

\* A search that finds nothing writes a off only if nothing was known of it.
LEMMA V3FailsRight ==
  ASSUME TypeOK, NEW q \in Queries, NEW a \in Addresses, Right(a), OneSearch,
         V3Fails(q, a)
  PROVE  Right(a)'
<1>1. SearchesFor(q, a) /\ Leave(q) /\ job[q].pc = "v3" /\ job[q].at = a
  BY DEF V3Fails, SearchesAt, SearchesFor, Searching
<1>2. job'[q] = Done /\ \A r \in Queries \ {q} : job'[r] = job[r]
  BY <1>1 DEF Leave, Become, TypeOK
<1>3. \A r \in Queries \ {q} : ~SearchesFor(r, a)
  BY <1>1 DEF OneSearch
<1>4. CASE job[q].known
  <2>1. cache'[a] \in Creds
    BY <1>1, <1>4 DEF V3Fails, Right, SearchersRight, Has, Searching
  <2>2. ASSUME NEW r \in Queries, job'[r].pc \in {"acquire"} \cup Searching, job'[r].at = a
        PROVE  job'[r].known
    <3>1. r # q
      BY <1>2, <2>2 DEF Done, Searching
    <3> QED
      BY <1>2, <1>3, <2>2, <3>1 DEF Right, SearchersRight, SearchesFor
  <2> QED
    BY <2>1, <2>2, CredentialRight
<1>5. CASE ~job[q].known
  <2>1. ~Has(a)
    BY <1>1, <1>5 DEF Right, SearchersRight, Searching
  <2>2. cache'[a] = "unresponsive" /\ marked'[a] = tick /\ tick' = tick
    BY <1>5 DEF V3Fails, TypeOK, clock
  <2>3. ~Unknown(a)'
    <3>1. tick \in Nat /\ ~(tick >= tick + RetryTicks)
      BY CredentialConstants DEF TypeOK
    <3> QED
      BY <2>2, <3>1 DEF Unknown, RetryDue
  <2>4. UsersRight(a)'
    BY <1>2, <2>1 DEF Right, UsersRight, Done
  <2>5. SearchersRight(a)'
    BY <1>2, <1>3, <2>1 DEF Right, SearchersRight, SearchesFor, Done, Searching
  <2>6. UpgradesRight(a)'
    BY <2>1 DEF V3Fails, Right, UpgradesRight, Pending, upgrades, tasks
  <2> QED
    BY <2>3, <2>4, <2>5, <2>6 DEF Right, QueueRight
<1> QED
  BY <1>4, <1>5

\* What is believed of an address stays true when a query takes a step there,
\* unless a sibling's credential is verified in the middle of a search.
LEMMA QueryRight ==
  ASSUME TypeOK, OneSearch, NEW q \in Queries, NEW a \in Addresses, QueryStep(q, a),
         Right(a), a \notin overlapped'
  PROVE  Right(a)'
<1>1. CASE Query(q, a)
  BY <1>1, EnterRight
  DEF Query, Idle, Away, Undisturbed, Pending, clock, memory, upgrades, tasks
<1>2. CASE CachedAnswers(q, a)
  <2>1. ~SearchesFor(q, a) /\ Has(a)
    BY <1>2 DEF CachedAnswers, SearchesFor, Searching, Right, UsersRight
  <2>2. Undisturbed(a)
    BY <1>2, <2>1 DEF CachedAnswers, Undisturbed, clock
  <2> QED
    BY <1>2, <2>1, <2>2, LeaveRight DEF CachedAnswers
<1>3. CASE CachedFails(q, a)
  <2>1. job[q].pc = "cached" /\ job[q].at = a /\ ~SearchesFor(q, a) /\ Has(a)
    BY <1>3 DEF CachedFails, SearchesFor, Searching, Right, UsersRight
  <2>2. Undisturbed(a)
    BY <1>3 DEF CachedFails, Undisturbed, Pending, clock, upgrades, tasks
  <2>3. Leave(q) \/ Probe(q, a, TRUE)
    BY <1>3 DEF CachedFails
  <2>4. CASE Leave(q)
    BY <2>1, <2>2, <2>4, LeaveRight
  <2>5. CASE Probe(q, a, TRUE)
    <3>1. \A r \in Queries \ {q} : job'[r] = job[r]
      BY <2>5 DEF Probe, Become, TypeOK
    <3>2. job'[q].pc = "wait" \/ job'[q].known
      BY <2>5 DEF Probe, Become, TypeOK
    <3>3. ASSUME NEW r \in Queries, job'[r].pc \in {"acquire"} \cup Searching,
                 job'[r].at = a
          PROVE  job'[r].known
      BY <2>1, <3>1, <3>2, <3>3 DEF Right, SearchersRight, Searching
    <3> QED
      BY <2>1, <2>2, <3>3, CredentialRight DEF Undisturbed, Has
  <2> QED
    BY <2>3, <2>4, <2>5
<1>4. CASE Wake(q, a)
  BY <1>4, LeaveRight
  DEF Wake, SearchesFor, Searching, Undisturbed, Pending, clock, memory, upgrades, tasks
<1>5. CASE Acquire(q, a)
  BY <1>5, SearchOnRight
  DEF Acquire, Searching, Undisturbed, Pending, clock, memory, upgrades, tasks
<1>6. ASSUME NEW cred \in Creds, Found(q, a, cred)
      PROVE  Right(a)'
  <2>1. SearchesFor(q, a)
    BY <1>6 DEF Found, SearchesAt, SearchesFor, Searching, Creds
  <2>2. \A r \in Queries \ {q} : ~SearchesFor(r, a)
    BY <2>1 DEF OneSearch
  <2> QED
    BY <1>6, <2>2, FindRight DEF Found
<1>7. CASE V2cAnswers(q, a) \/ V3Answers(q, a)
  BY <1>6, <1>7 DEF V2cAnswers, V3Answers, Creds
<1>8. CASE V2cFails(q, a)
  BY <1>8, SearchOnRight
  DEF V2cFails, SearchesAt, Searching, Undisturbed, Pending, clock, memory, upgrades, tasks
<1>9. CASE V3Fails(q, a)
  BY <1>9, V3FailsRight
<1>10. ASSUME NEW b \in Addresses, TrySibling(q, a, b) PROVE Right(a)'
  <2>1. Undisturbed(a)
    BY <1>10 DEF TrySibling, Undisturbed, Pending, clock, memory, upgrades, tasks
  <2>2. Away(job'[q], a) /\ ~SearchesFor(q, a) /\ \A r \in Queries \ {q} : job'[r] = job[r]
    BY <1>10 DEF TrySibling, Become, TypeOK, Away, SearchesFor, Searching, Idle
  <2> QED
    BY <2>1, <2>2, Elsewhere
<1>11. CASE SiblingAnswers(q, a)
  <2>1. ~InSearch(a)
    BY <1>11 DEF SiblingAnswers, TypeOK
  <2>2. \A r \in Queries : ~SearchesFor(r, a)
    BY <2>1 DEF InSearch, SearchesFor
  <2>3. job[q].trial \in Creds
    BY <1>11, JobFields DEF SiblingAnswers, TypeOK
  <2> QED
    BY <1>11, <2>2, <2>3, FindRight DEF SiblingAnswers
<1>12. CASE SiblingFails(q, a)
  BY <1>12, EnterRight
  DEF SiblingFails, Away, Undisturbed, Pending, clock, memory, upgrades, tasks
<1> QED
  BY <1>1, <1>2, <1>3, <1>4, <1>5, <1>7, <1>8, <1>9, <1>10, <1>11, <1>12 DEF QueryStep

\* An upgrade that finds v3 takes the place of a credential, not of nothing.
LEMMA UpgradeFindRight ==
  ASSUME TypeOK, NEW a \in Addresses, Right(a), upgrade[a] # "none",
         Remember(a, "v3"), job' = job
  PROVE  Right(a)'
<1>1. cache'[a] \in Creds /\ Has(a)
  BY DEF Remember, TypeOK, Creds, Right, UpgradesRight, Pending
<1> QED
  BY <1>1, CredentialRight DEF Right, SearchersRight

\* What is believed of an address stays true when a task takes a step there.
LEMMA TaskRight ==
  ASSUME TypeOK, NEW a \in Addresses, TaskStep(a), Right(a)
  PROVE  Right(a)'
<1> USE DEF clock, memory, upgrades, tasks
<1>1. CASE FetchCached(a)
  <2>1. Undisturbed(a) /\ job' = job
    BY <1>1 DEF FetchCached, Undisturbed, Has
  <2> QED
    BY <2>1, Untouched
<1>2. CASE AskEngine(a)
  <2>1. spawned[a] > 0
    BY <1>2 DEF AskEngine
  <2>2. Undisturbed(a) /\ job' = job
    BY <1>2, <2>1 DEF AskEngine, Undisturbed, Pending
  <2> QED
    BY <2>2, Untouched
<1>3. CASE EngineAnswers(a) \/ EngineSilent(a)
  <2>1. asking[a] > 0
    BY <1>3 DEF EngineAnswers, EngineSilent
  <2>2. Undisturbed(a) /\ job' = job
    BY <1>3, <2>1 DEF EngineAnswers, EngineSilent, Undisturbed, Pending
  <2> QED
    BY <2>2, Untouched
<1>4. CASE StartUpgrade(a)
  <2>1. Undisturbed(a) /\ job' = job
    BY <1>4 DEF StartUpgrade, Undisturbed, Pending
  <2> QED
    BY <2>1, Untouched
<1>5. CASE BeginCascade(a)
  <2>1. Undisturbed(a) /\ job' = job
    BY <1>5 DEF BeginCascade, HasLock, Undisturbed, Pending
  <2> QED
    BY <2>1, Untouched
<1>6. CASE CascadeAnswers(a)
  BY <1>6, UpgradeFindRight DEF CascadeAnswers, EndUpgrade
<1>7. ASSUME NEW b \in Addresses, Reuse(a, b) PROVE Right(a)'
  BY <1>7, UpgradeFindRight DEF Reuse, HasLock, EndUpgrade
<1>8. ASSUME CascadeFails(a) \/ \E b \in Addresses : Skip(a, b) PROVE Right(a)'
  <2>1. upgrade[a] # "none"
    BY <1>8 DEF CascadeFails, Skip, HasLock
  <2>2. Undisturbed(a) /\ job' = job
    BY <1>8, <2>1 DEF CascadeFails, Skip, EndUpgrade, Undisturbed, Pending
  <2> QED
    BY <2>2, Untouched
<1> QED
  BY <1>1, <1>2, <1>3, <1>4, <1>5, <1>6, <1>7, <1>8 DEF TaskStep

\* It stays true of the other addresses, and no task moves a query or verifies
\* a sibling's credential.
LEMMA TaskElsewhere ==
  ASSUME TypeOK, NEW a \in Addresses, TaskStep(a)
  PROVE  /\ job' = job /\ overlapped' = overlapped
         /\ \A c \in Addresses \ {a} : Undisturbed(c)
<1> USE DEF clock, memory, upgrades, tasks, history, Undisturbed, Pending, TypeOK
<1>1. CASE FetchCached(a)
  BY <1>1 DEF FetchCached, Trigger
<1>2. CASE AskEngine(a) \/ EngineAnswers(a) \/ EngineSilent(a)
  BY <1>2 DEF AskEngine, EngineAnswers, EngineSilent
<1>3. CASE StartUpgrade(a) \/ BeginCascade(a)
  BY <1>3 DEF StartUpgrade, BeginCascade
<1>4. CASE CascadeAnswers(a) \/ CascadeFails(a)
  BY <1>4 DEF CascadeAnswers, CascadeFails, EndUpgrade, Remember
<1>5. ASSUME NEW b \in Addresses, Reuse(a, b) \/ Skip(a, b)
      PROVE  /\ job' = job /\ overlapped' = overlapped
             /\ \A c \in Addresses \ {a} : Undisturbed(c)
  BY <1>5 DEF Reuse, Skip, EndUpgrade, Remember
<1> QED
  BY <1>1, <1>2, <1>3, <1>4, <1>5 DEF TaskStep

\* The tick moves only when whoever queues up does so behind a search that is
\* under way, so no mark gets old enough behind their backs.
LEMMA ClockRight ==
  ASSUME TypeOK, NEW a \in Addresses, Right(a),
         \/ AdvanceTick \/ ResetTick
         \/ \E b \in Addresses, n \in 0 .. MaxNodes : Weld(b, n)
  PROVE  Right(a)'
<1>1. CASE AdvanceTick \/ ResetTick
  <2>1. job' = job /\ cache' = cache /\ (Queued(a) => InSearch(a))
    BY <1>1 DEF AdvanceTick, ResetTick, Settled, memory
  <2>2. Pending(a)' => Pending(a)
    <3>1. due'[a] # Never => due[a] # Never
      BY <1>1 DEF AdvanceTick, ResetTick, Sooner, TypeOK
    <3>2. upgrade'[a] # "none" => upgrade[a] # "none" \/ due'[a] # Never
      BY <1>1 DEF AdvanceTick, ResetTick, Trigger, TypeOK
    <3> QED
      BY <1>1, <3>1, <3>2 DEF AdvanceTick, ResetTick, Pending, tasks
  <2> QED
    BY <2>1, <2>2
    DEF Right, UsersRight, SearchersRight, QueueRight, UpgradesRight, Has, Queued,
        InSearch
<1>2. ASSUME NEW b \in Addresses, NEW n \in 0 .. MaxNodes, Weld(b, n)
      PROVE  Right(a)'
  <2>1. Undisturbed(a) /\ job' = job
    BY <1>2 DEF Weld, Undisturbed, Pending, clock, memory, upgrades, tasks
  <2> QED
    BY <2>1, Untouched
<1> QED
  BY <1>1, <1>2

\* Every step preserves the invariant.
LEMMA NextIInv == IInv /\ [Next]_vars => IInv'
<1> SUFFICES ASSUME IInv, [Next]_vars PROVE IInv'
  OBVIOUS
<1>1. TypeOK /\ OneSearch /\ TypeOK'
  BY NextType DEF IInv
<1>2. overlapped \subseteq overlapped'
  <2>1. ASSUME NEW q \in Queries, NEW a \in Addresses, QueryStep(q, a)
        PROVE  overlapped \subseteq overlapped'
    BY <2>1 DEF QueryStep, Query, CachedAnswers, CachedFails, Wake, Acquire, V2cAnswers,
                V2cFails, V3Answers, V3Fails, Found, TrySibling, SiblingAnswers,
                SiblingFails, history
  <2>2. CASE \/ AdvanceTick \/ ResetTick
             \/ \E a \in Addresses, n \in 0 .. MaxNodes : Weld(a, n)
             \/ UNCHANGED vars
    BY <2>2 DEF AdvanceTick, ResetTick, Weld, vars, history
  <2> QED
    BY <1>1, <2>1, <2>2, TaskElsewhere DEF Next
<1>3. ASSUME NEW c \in Addresses \ overlapped' PROVE Right(c)'
  <2>1. Right(c)
    BY <1>2, <1>3 DEF IInv
  <2>2. ASSUME NEW q \in Queries, NEW a \in Addresses, QueryStep(q, a)
        PROVE  Right(c)'
    <3>1. CASE c = a
      BY <1>1, <1>3, <2>1, <2>2, <3>1, QueryRight
    <3>2. CASE c # a
      <4>1. Away(job'[q], c) /\ ~SearchesFor(q, c)
        BY <1>1, <2>2, <3>2, QueryMoves DEF Away, SearchesFor, Searching
      <4> QED
        BY <1>1, <2>1, <2>2, <3>2, <4>1, QueryMoves, QueryUndisturbed, Elsewhere
    <3> QED
      BY <3>1, <3>2
  <2>3. ASSUME NEW a \in Addresses, TaskStep(a)
        PROVE  Right(c)'
    <3>1. CASE c = a
      BY <1>1, <2>1, <2>3, <3>1, TaskRight
    <3>2. CASE c # a
      BY <1>1, <2>1, <2>3, <3>2, TaskElsewhere, Untouched
    <3> QED
      BY <3>1, <3>2
  <2>4. CASE UNCHANGED vars
    BY <2>1, <2>4, Untouched
    DEF vars, clock, memory, upgrades, tasks, Undisturbed, Pending
  <2> QED
    BY <1>1, <2>1, <2>2, <2>3, <2>4, ClockRight DEF Next
<1>4. OneSearch'
  <2>1. CASE job' = job
    BY <1>1, <2>1 DEF OneSearch, SearchesFor
  <2>2. CASE \/ AdvanceTick \/ ResetTick
             \/ \E a \in Addresses, n \in 0 .. MaxNodes : Weld(a, n)
             \/ UNCHANGED vars
    BY <2>1, <2>2 DEF AdvanceTick, ResetTick, Weld, vars
  <2> QED
    BY <1>1, <2>1, <2>2, QueryOneSearch, TaskElsewhere DEF Next
<1> QED
  BY <1>1, <1>3, <1>4 DEF IInv

\* The invariant holds of every behaviour.
THEOREM Invariant == Spec => []IInv
  BY InitIInv, NextIInv, PTL DEF Spec

\* A step that leaves an address without the credential it had is the end of a
\* search for an address without a credential.
LEMMA OnlySearchesWriteOff ==
  ASSUME TypeOK, [Next]_vars, NEW a \in Addresses, Has(a), ~Has(a)'
  PROVE  \E q \in Queries : SearchesFor(q, a) /\ ~job[q].known
<1> USE DEF Has, TypeOK
<1>1. ASSUME NEW b \in Addresses, NEW cred \in Creds, Remember(b, cred) PROVE FALSE
  BY <1>1 DEF Remember
<1>2. ASSUME NEW q \in Queries, NEW b \in Addresses, QueryStep(q, b), cache' # cache
      PROVE  \E r \in Queries : SearchesFor(r, a) /\ ~job[r].known
  <2>1. CASE V3Fails(q, b)
    BY <2>1 DEF V3Fails, SearchesAt, SearchesFor, Searching
  <2>2. CASE V2cAnswers(q, b) \/ V3Answers(q, b)
    BY <1>1, <2>2 DEF V2cAnswers, V3Answers, Found, Creds
  <2>3. CASE SiblingAnswers(q, b)
    <3>1. job[q].trial \in Creds
      BY <2>3, JobFields DEF SiblingAnswers
    <3> QED
      BY <1>1, <2>3, <3>1 DEF SiblingAnswers
  <2> QED
    BY <1>2, <2>1, <2>2, <2>3
    DEF QueryStep, Query, CachedAnswers, CachedFails, Wake, Acquire, V2cFails,
        TrySibling, SiblingFails, memory
<1>3. ASSUME NEW b \in Addresses, TaskStep(b), cache' # cache PROVE FALSE
  BY <1>1, <1>3
  DEF TaskStep, FetchCached, AskEngine, EngineAnswers, EngineSilent, StartUpgrade,
      BeginCascade, CascadeAnswers, CascadeFails, Reuse, Skip, memory, Creds
<1>4. cache' # cache
  OBVIOUS
<1> QED
  BY <1>2, <1>3, <1>4 DEF Next, AdvanceTick, ResetTick, Weld, vars, memory

\* A credential that was found is not lost to a query that ends late, except
\* where a sibling's credential was verified in the middle of a search.
THEOREM CredentialsKept == Spec => KeptOnceFound
<1>1. ASSUME IInv, [Next]_vars
      PROVE  [\A a \in Addresses :
                cache[a] \in Creds /\ cache'[a] \notin Creds => a \in overlapped]_vars
  <2>1. SUFFICES ASSUME NEW a \in Addresses, Has(a), ~Has(a)', a \notin overlapped
                 PROVE  FALSE
    BY DEF Has
  <2>2. PICK q \in Queries : SearchesFor(q, a) /\ ~job[q].known
    BY <1>1, <2>1, OnlySearchesWriteOff DEF IInv
  <2> QED
    BY <1>1, <2>1, <2>2 DEF IInv, Right, SearchersRight, SearchesFor, Searching
<1> QED
  BY <1>1, Invariant, PTL DEF Spec, KeptOnceFound

-----------------------------------------------------------------------------
(* Nothing is remembered on trust.                                          *)

\* An answer is never forgotten, so it is enough that every credential that is
\* remembered is one that is added to the answers, or a sibling's.
THEOREM CredentialsWereAnswered == Spec => []CachedWasAnswered
<1>1. Init => CachedWasAnswered
  BY DEF Init, CachedWasAnswered
<1>2. ASSUME TypeOK, CachedWasAnswered, [Next]_vars
      PROVE  CachedWasAnswered'
  <2>1. ASSUME NEW a \in Addresses, NEW cred \in Creds, Remember(a, cred),
               answered' = answered \cup {<<a, cred>>}
        PROVE  CachedWasAnswered'
    BY <1>2, <2>1 DEF CachedWasAnswered, Remember, TypeOK
  <2>2. ASSUME cache' = cache, answered' = answered
        PROVE  CachedWasAnswered'
    BY <1>2, <2>2 DEF CachedWasAnswered
  <2>3. ASSUME NEW q \in Queries, NEW a \in Addresses, QueryStep(q, a)
        PROVE  CachedWasAnswered'
    <3>1. CASE V3Fails(q, a)
      BY <1>2, <3>1 DEF V3Fails, CachedWasAnswered, history, TypeOK
    <3>2. CASE V2cAnswers(q, a) \/ V3Answers(q, a)
      BY <2>1, <3>2 DEF V2cAnswers, V3Answers, Found, Creds
    <3>3. CASE SiblingAnswers(q, a)
      <4>1. job[q].trial \in Creds
        BY <1>2, <3>3, JobFields DEF SiblingAnswers, TypeOK
      <4> QED
        BY <2>1, <3>3, <4>1 DEF SiblingAnswers
    <3> QED
      BY <2>2, <2>3, <3>1, <3>2, <3>3
      DEF QueryStep, Query, CachedAnswers, CachedFails, Wake, Acquire, V2cFails,
          TrySibling, SiblingFails, memory, history
  <2>4. ASSUME NEW a \in Addresses, TaskStep(a)
        PROVE  CachedWasAnswered'
    <3>1. CASE CascadeAnswers(a)
      BY <2>1, <3>1 DEF CascadeAnswers, Creds
    <3>2. ASSUME NEW b \in Addresses, Reuse(a, b) PROVE CachedWasAnswered'
      BY <1>2, <3>2 DEF Reuse, Remember, CachedWasAnswered, history, TypeOK
    <3> QED
      BY <2>2, <2>4, <3>1, <3>2
      DEF TaskStep, FetchCached, AskEngine, EngineAnswers, EngineSilent, StartUpgrade,
          BeginCascade, CascadeFails, Skip, memory, history
  <2> QED
    BY <1>2, <2>2, <2>3, <2>4
    DEF Next, AdvanceTick, ResetTick, Weld, vars, memory, history
<1> QED
  BY <1>1, <1>2, TypeCorrect, PTL DEF Spec
=============================================================================
