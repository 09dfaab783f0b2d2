----------------------------- MODULE Registration -----------------------------
(* The link of an appliance to an account (security/registration.py and the      *)
(* register routes and the background loop of server.py).  Three local records   *)
(* follow what the backend answers: IS_REGISTERED, NEEDS_RELINK and the          *)
(* entitlement cache, each committed on its own; a route or a check blocks the   *)
(* event loop, so one of them is served at a time, but it can be cut short       *)
(* between two writes, and the account changes at the backend at any time.       *)
EXTENDS Integers, Sequences

CONSTANTS
    MaxTokens,      \* bound: registrations started
    MaxRemote,      \* bound: changes made at the backend, from another place
    MaxCuts       \* bound: lost answers, failed calls and interruptions

ASSUME RegistrationAssumption == MaxTokens \in Nat /\ MaxRemote \in Nat /\ MaxCuts \in Nat

NoState == 0
NoCache == [linked |-> FALSE, entitled |-> FALSE, stale |-> TRUE]

VARIABLES
    registered, relink,     \* IS_REGISTERED, NEEDS_RELINK
    cache,                  \* entitlement_cache
    state,                  \* registration_state: the token in force
    todo,                   \* the writes the request under way has left
    linked, plan,           \* the backend: is the device linked, is the account entitled
    spent,                  \* history: tokens that a callback was admitted with
    twice,                  \* history: one was admitted again
    initiated, remote, cuts

registrationVars == <<registered, relink, cache, state, todo, linked, plan, spent, twice,
                      initiated, remote, cuts>>
local == <<registered, relink, cache>>
backend == <<linked, plan>>

RegistrationInit ==
    /\ registered = FALSE /\ relink = FALSE /\ cache = NoCache
    /\ state = NoState /\ todo = <<>>
    /\ linked = FALSE /\ plan \in BOOLEAN
    /\ spent = {} /\ twice = FALSE
    /\ initiated = 0 /\ remote = 0 /\ cuts = 0

NothingUnderWay == todo = <<>>
Entry(isLinked, isEntitled) == [linked |-> isLinked, entitled |-> isEntitled, stale |-> FALSE]
Write(what, value) == [what |-> what, value |-> value]

\* _handle_device_not_registered()
MutantUnlinkedWrites == <<Write("relink", TRUE), Write("cache", Entry(FALSE, FALSE))>>
UnlinkedWrites ==
    <<Write("registered", FALSE), Write("relink", TRUE), Write("cache", Entry(FALSE, FALSE))>>

-----------------------------------------------------------------------------
(* Linking *)

\* POST /api/register/initiate: the one token is replaced.
Initiate ==
    /\ NothingUnderWay /\ initiated < MaxTokens /\ initiated' = initiated + 1
    /\ state' = initiated'
    /\ UNCHANGED <<local, todo, backend, spent, twice, remote, cuts>>

\* The token's ten minutes are over; a callback that comes late deletes it.
StateExpires ==
    /\ state # NoState /\ state' = NoState
    /\ UNCHANGED <<local, todo, backend, spent, twice, initiated, remote, cuts>>

\* verify_and_consume_state_token()
MutantConsumed(token) == token
Consumed(token) == NoState

\* GET /api/register/callback: the token is consumed before the backend is asked;
\* the backend links the device to the account, or declines.
Callback(token, accepted) ==
    /\ NothingUnderWay /\ state # NoState /\ token = state
    /\ state' = Consumed(token)
    /\ spent' = spent \cup {token} /\ twice' = (twice \/ token \in spent)
    /\ linked' = (linked \/ accepted)
    /\ todo' = IF accepted
               THEN <<Write("cache", Entry(TRUE, plan)), Write("registered", TRUE), Write("relink", FALSE)>>
               ELSE <<Write("cache", Entry(FALSE, FALSE))>>
    /\ UNCHANGED <<local, plan, initiated, remote, cuts>>

\* The call fails, before or after the backend has done its part: 502.
CallbackUnanswered(token, done) ==
    /\ NothingUnderWay /\ state # NoState /\ token = state /\ cuts < MaxCuts
    /\ cuts' = cuts + 1
    /\ state' = Consumed(token)
    /\ spent' = spent \cup {token} /\ twice' = (twice \/ token \in spent)
    /\ linked' = (linked \/ done)
    /\ UNCHANGED <<local, todo, plan, initiated, remote>>

\* POST /api/register/deregister
Deregister ==
    /\ NothingUnderWay /\ linked' = FALSE
    /\ todo' = <<Write("registered", FALSE), Write("cache", Entry(FALSE, FALSE))>>
    /\ UNCHANGED <<local, plan, state, spent, twice, initiated, remote, cuts>>

DeregisterUnanswered ==
    /\ NothingUnderWay /\ linked /\ cuts < MaxCuts /\ cuts' = cuts + 1
    /\ linked' = FALSE
    /\ UNCHANGED <<local, todo, plan, state, spent, twice, initiated, remote>>

-----------------------------------------------------------------------------
(* Checks *)

\* _force_refresh_entitlement() of the background loop or after a submission, and
\* GET /api/register/entitlement when the cache is older than six hours; both do
\* nothing on an appliance that takes itself for unregistered.
Refresh ==
    /\ NothingUnderWay /\ registered
    /\ todo' = IF linked THEN <<Write("cache", Entry(TRUE, plan))>> ELSE UnlinkedWrites
    /\ UNCHANGED <<local, state, backend, spent, twice, initiated, remote, cuts>>

StatusRead ==
    /\ cache.stale /\ Refresh

\* No answer: what is cached stays.
RefreshUnanswered ==
    /\ NothingUnderWay /\ registered /\ cuts < MaxCuts /\ cuts' = cuts + 1
    /\ UNCHANGED <<local, state, todo, backend, spent, twice, initiated, remote>>

\* _set_setting() and store_entitlement_cache(), one commit each.
NextWrite ==
    /\ todo # <<>> /\ todo' = Tail(todo)
    /\ registered' = IF Head(todo).what = "registered" THEN Head(todo).value ELSE registered
    /\ relink' = IF Head(todo).what = "relink" THEN Head(todo).value ELSE relink
    /\ cache' = IF Head(todo).what = "cache" THEN Head(todo).value ELSE cache
    /\ UNCHANGED <<state, backend, spent, twice, initiated, remote, cuts>>

\* The process ends between two writes.
RequestCut ==
    /\ todo # <<>> /\ cuts < MaxCuts
    /\ cuts' = cuts + 1 /\ todo' = <<>>
    /\ UNCHANGED <<local, state, backend, spent, twice, initiated, remote>>

-----------------------------------------------------------------------------
(* Elsewhere *)

\* Revoked from another dashboard, or expired after thirty days of silence.
Revoked ==
    /\ linked /\ remote < MaxRemote /\ remote' = remote + 1
    /\ linked' = FALSE
    /\ UNCHANGED <<local, state, todo, plan, spent, twice, initiated, cuts>>

PlanChanges ==
    /\ remote < MaxRemote /\ remote' = remote + 1
    /\ plan' = ~plan
    /\ UNCHANGED <<local, state, todo, linked, spent, twice, initiated, cuts>>

CacheAges ==
    /\ ~cache.stale /\ cache' = [cache EXCEPT !.stale = TRUE]
    /\ UNCHANGED <<registered, relink, state, todo, backend, spent, twice, initiated, remote, cuts>>

RegistrationNext ==
    \/ Initiate \/ StateExpires \/ Deregister \/ DeregisterUnanswered
    \/ \E t \in 1..MaxTokens, yes \in BOOLEAN : Callback(t, yes) \/ CallbackUnanswered(t, yes)
    \/ Refresh \/ StatusRead \/ RefreshUnanswered \/ NextWrite \/ RequestCut
    \/ Revoked \/ PlanChanges \/ CacheAges

RegistrationSpec == RegistrationInit /\ [][RegistrationNext]_registrationVars

-----------------------------------------------------------------------------
(* Properties *)

\* Types: the three local records, the token in force and the writes left.
RegistrationTypeOK ==
    /\ {registered, relink, linked, plan, twice} \subseteq BOOLEAN
    /\ cache \in [linked : BOOLEAN, entitled : BOOLEAN, stale : BOOLEAN]
    /\ state \in 0..MaxTokens /\ spent \subseteq 1..MaxTokens
    /\ initiated \in 0..MaxTokens /\ remote \in 0..MaxRemote /\ cuts \in 0..MaxCuts

\* A local_state that was captured is good for nothing: however a callback ends,
\* no second one is admitted with its token (verify_and_consume_state_token()).
StateTokenOnce == ~twice

\* While nothing was cut short, an appliance that asks to be linked again is not
\* registered, and one that is not registered claims no entitlement.
RecordsAgree ==
    NothingUnderWay /\ cuts = 0 =>
        /\ relink => ~registered
        /\ cache.entitled => registered
================================================================================
