------------------------------- MODULE Accounts -------------------------------
(* The one account of an appliance: the first-run setup token, the login        *)
(* sessions, the API tokens and the recovery of forgotten credentials            *)
(* (security/auth.py, api_tokens.py, welcome.py, recovery.py, rate_limit.py and  *)
(* the routes of server.py that use them).  A route runs without awaiting, so    *)
(* one request is served at a time; each helper it calls commits on its own, so  *)
(* a failure (the database locked, a full disk, a restart) can leave the steps   *)
(* that follow undone.                                                           *)
EXTENDS Integers, FiniteSets

CONSTANTS
    MaxMinted,  \* bound: setup and recovery tokens generated in a behaviour
    MaxAccess,  \* bound: sessions and API tokens that exist at one time
    MaxFails,   \* failed attempts of a client that exhaust a bucket
    MaxFaults   \* bound: interrupted requests in a behaviour

ASSUME AccountsAssumption ==
    MaxMinted \in Nat /\ MaxAccess \in Nat /\ MaxFails \in Nat \ {0} /\ MaxFaults \in Nat

NoToken == 0    \* also: no file
Emptied == -1      \* a file that was opened for writing and never filled
Buckets == {"setup_token", "login", "recovery_request", "recovery_reset", "checks"}

VARIABLES
    user,       \* users: 0 while it is empty, then the number of its credentials
    setup,      \* setup_token: the token whose hash it holds
    welcome,    \* the token in welcome.txt
    recovery,   \* recovery_token
    recfile,    \* the token in recovery.txt
    sessions,   \* sessions: the credentials that opened it, whether it may stamp
    tokens,     \* api_tokens: the credentials in force when it was made, its scope
    failed,     \* attempts of one client recorded in the window, per bucket
    serving,    \* what the request or the boot under way has left to do
    minted, faults

accountVars == <<user, setup, welcome, recovery, recfile, sessions, tokens, failed,
                 serving, minted, faults>>
card == <<setup, welcome>>
access == <<sessions, tokens>>
bounds == <<minted, faults>>

AccountsInit ==
    /\ user = 0 /\ setup = NoToken /\ welcome = NoToken
    /\ recovery = NoToken /\ recfile = NoToken /\ sessions = {} /\ tokens = {}
    /\ failed = [b \in Buckets |-> 0] /\ serving = "boot" /\ minted = 0 /\ faults = 0

Limited(b) == failed[b] >= MaxFails                 \* is_rate_limited()
Recorded(b) == [failed EXCEPT ![b] = @ + 1]         \* record_attempt()
Cleared(b) == [failed EXCEPT ![b] = 0]              \* clear_attempts()
Free(n) == n \in 1..MaxAccess /\ \A x \in sessions \cup tokens : x.id # n

-----------------------------------------------------------------------------
(* First run *)

MutantCardExists == FALSE
CardExists == welcome # NoToken

\* main(): without an account and without a card a fresh token is stored; a card
\* that exists is shown again as it is, its token is not replaced.
BootToken ==
    /\ serving = "boot"
    /\ IF user # 0 \/ CardExists
       THEN serving' = "idle" /\ UNCHANGED <<setup, minted>>
       ELSE /\ minted < MaxMinted /\ minted' = minted + 1
            /\ setup' = minted' /\ serving' = "boot.file"
    /\ UNCHANGED <<user, welcome, recovery, recfile, access, failed, faults>>

\* write_welcome_file() with the token just stored.
BootCard ==
    /\ serving = "boot.file" /\ serving' = "idle"
    /\ welcome' = setup
    /\ UNCHANGED <<user, setup, recovery, recfile, access, failed, bounds>>

\* POST /api/setup/password with the stored token: the account is created ...
SetupPassword(t) ==
    /\ serving = "idle" /\ user = 0 /\ ~Limited("setup_token")
    /\ setup # NoToken /\ t = setup
    /\ user' = 1 /\ serving' = "setup.token"
    /\ UNCHANGED <<card, recovery, recfile, access, failed, bounds>>

\* ... then the token is cleared, and the card deleted.
SetupClears ==
    \/ /\ serving = "setup.token" /\ serving' = "setup.file"
       /\ setup' = NoToken
       /\ UNCHANGED <<user, welcome, recovery, recfile, access, failed, bounds>>
    \/ /\ serving = "setup.file" /\ serving' = "idle"
       /\ welcome' = NoToken /\ failed' = Cleared("setup_token")
       /\ UNCHANGED <<user, setup, recovery, recfile, access, bounds>>

SetupRefused ==
    /\ serving = "idle" /\ user = 0 /\ ~Limited("setup_token")
    /\ failed' = Recorded("setup_token")
    /\ UNCHANGED <<user, card, recovery, recfile, access, serving, bounds>>

-----------------------------------------------------------------------------
(* Sessions *)

\* POST /api/auth/login: create_session() under the credentials in force.
Login(n) ==
    /\ serving = "idle" /\ user # 0 /\ ~Limited("login") /\ Free(n)
    /\ sessions' = sessions \cup {[id |-> n, cred |-> user, stamp |-> FALSE]}
    /\ failed' = Cleared("login")
    /\ UNCHANGED <<user, card, recovery, recfile, tokens, serving, bounds>>

LoginRefused ==
    /\ serving = "idle" /\ ~Limited("login")
    /\ failed' = Recorded("login")
    /\ UNCHANGED <<user, card, recovery, recfile, access, serving, bounds>>

\* POST /api/auth/logout, and the end of a session's lifetime.
SessionEnds(s) ==
    /\ serving = "idle"
    /\ sessions' = sessions \ {s}
    /\ UNCHANGED <<user, card, recovery, recfile, tokens, failed, serving, bounds>>

\* check_session(), authenticate_bearer_token(): a credential that is not valid
\* is recorded before it is refused; the two buckets are one here.
AccessRefused ==
    /\ serving = "idle" /\ ~Limited("checks")
    /\ failed' = Recorded("checks")
    /\ UNCHANGED <<user, card, recovery, recfile, access, serving, bounds>>

Admitted == serving = "idle" /\ ~Limited("checks")

\* POST /api/stamp/confirm, for the rest of this session.
StampConfirm(s) ==
    /\ Admitted /\ ~s.stamp
    /\ sessions' = (sessions \ {s}) \cup {[s EXCEPT !.stamp = TRUE]}
    /\ UNCHANGED <<user, card, recovery, recfile, tokens, failed, serving, bounds>>

-----------------------------------------------------------------------------
(* API tokens: managed from a session only *)

\* POST /api/tokens
CreateToken(s, n, readonly) ==
    /\ Admitted /\ Free(n)
    /\ tokens' = tokens \cup {[id |-> n, cred |-> s.cred, ro |-> readonly]}
    /\ UNCHANGED <<user, card, recovery, recfile, sessions, failed, serving, bounds>>

\* DELETE /api/tokens/{id}
RevokeToken(s, t) ==
    /\ Admitted /\ s \in sessions
    /\ tokens' = tokens \ {t}
    /\ UNCHANGED <<user, card, recovery, recfile, sessions, failed, serving, bounds>>

-----------------------------------------------------------------------------
(* Recovery *)

\* POST /api/recovery/request: every request counts, also one that is refused
\* because there is nothing to recover; the new token replaces the old one ...
RecoveryRequest ==
    /\ serving = "idle" /\ ~Limited("recovery_request")
    /\ failed' = Recorded("recovery_request")
    /\ IF user = 0 THEN UNCHANGED <<recovery, minted, serving>>
       ELSE /\ minted < MaxMinted /\ minted' = minted + 1
            /\ recovery' = minted' /\ serving' = "request.file"
    /\ UNCHANGED <<user, card, recfile, access, faults>>

MutantRecoveryFile ==
    /\ serving = "request.file" /\ serving' = "idle"
    /\ recfile' = IF recfile = NoToken THEN recovery ELSE recfile
    /\ UNCHANGED <<user, card, recovery, access, failed, bounds>>

\* ... and then the file.
RecoveryFile ==
    /\ serving = "request.file" /\ serving' = "idle"
    /\ recfile' = recovery
    /\ UNCHANGED <<user, card, recovery, access, failed, bounds>>

\* POST /api/recovery/reset with the stored token: new credentials ...
RecoveryReset(t) ==
    /\ serving = "idle" /\ ~Limited("recovery_reset")
    /\ recovery # NoToken /\ t = recovery /\ user # 0
    /\ user' = user + 1 /\ serving' = "reset.sessions"
    /\ UNCHANGED <<card, recovery, recfile, access, failed, bounds>>

MutantAfterSessions == "reset.token"
AfterSessions == "reset.tokens"

\* ... then the sessions, the API tokens, the recovery token and its file go.
ResetClears ==
    \/ /\ serving = "reset.sessions" /\ serving' = AfterSessions
       /\ sessions' = {}
       /\ UNCHANGED <<user, card, recovery, recfile, tokens, failed, bounds>>
    \/ /\ serving = "reset.tokens" /\ serving' = "reset.token"
       /\ tokens' = {}
       /\ UNCHANGED <<user, card, recovery, recfile, sessions, failed, bounds>>
    \/ /\ serving = "reset.token" /\ serving' = "reset.file"
       /\ recovery' = NoToken
       /\ UNCHANGED <<user, card, recfile, access, failed, bounds>>
    \/ /\ serving = "reset.file" /\ serving' = "idle"
       /\ recfile' = NoToken /\ failed' = Cleared("recovery_reset")
       /\ UNCHANGED <<user, card, recovery, access, bounds>>

ResetRefused ==
    /\ serving = "idle" /\ ~Limited("recovery_reset")
    /\ failed' = Recorded("recovery_reset")
    /\ UNCHANGED <<user, card, recovery, recfile, access, serving, bounds>>

-----------------------------------------------------------------------------
(* Time and faults *)

\* An attempt leaves the sliding window of its bucket.
WindowPasses(b) ==
    /\ failed[b] > 0
    /\ failed' = [failed EXCEPT ![b] = @ - 1]
    /\ UNCHANGED <<user, card, recovery, recfile, access, serving, bounds>>

\* write_text() opens and empties the file before it writes it.
CutWrite(file, step) == IF serving = step THEN {file, Emptied} ELSE {file}

FilesAfterCut ==
    /\ welcome' \in CutWrite(welcome, "boot.file")
    /\ recfile' \in CutWrite(recfile, "request.file")

\* The request fails between two of its steps, or in the middle of a file: the
\* steps done are committed.
Interrupted ==
    /\ serving \notin {"idle", "boot"} /\ faults < MaxFaults
    /\ faults' = faults + 1 /\ serving' = "idle"
    /\ FilesAfterCut
    /\ UNCHANGED <<user, setup, recovery, access, failed, minted>>

\* The process restarts: the attempts it remembers are gone.
Restart ==
    /\ faults < MaxFaults
    /\ faults' = faults + 1 /\ serving' = "boot"
    /\ failed' = [b \in Buckets |-> 0]
    /\ FilesAfterCut
    /\ UNCHANGED <<user, setup, recovery, access, minted>>

AccountsNext ==
    \/ BootToken \/ BootCard \/ SetupRefused \/ SetupClears
    \/ LoginRefused \/ AccessRefused
    \/ RecoveryRequest \/ RecoveryFile \/ ResetClears \/ ResetRefused
    \/ \E t \in 1..MaxMinted : SetupPassword(t) \/ RecoveryReset(t)
    \/ \E n \in 1..MaxAccess : Login(n)
    \/ \E s \in sessions : SessionEnds(s) \/ StampConfirm(s)
    \/ \E s \in sessions, n \in 1..MaxAccess, ro \in BOOLEAN : CreateToken(s, n, ro)
    \/ \E s \in sessions, t \in tokens : RevokeToken(s, t)
    \/ \E b \in Buckets : WindowPasses(b)
    \/ Interrupted \/ Restart

AccountsSpec == AccountsInit /\ [][AccountsNext]_accountVars

-----------------------------------------------------------------------------
(* Properties *)

\* Types: tokens and credentials are numbered as they are made.
AccountsTypeOK ==
    /\ user \in Nat /\ {setup, recovery} \subseteq 0..MaxMinted
    /\ {welcome, recfile} \subseteq Emptied..MaxMinted
    /\ sessions \subseteq [id : 1..MaxAccess, cred : 1..user, stamp : BOOLEAN]
    /\ tokens \subseteq [id : 1..MaxAccess, cred : 1..user, ro : BOOLEAN]
    /\ \A x, y \in sessions \cup tokens : x.id = y.id => x = y
    /\ failed \in [Buckets -> 0..MaxFails]
    /\ serving \in {"boot", "boot.file", "idle", "setup.token", "setup.file", "request.file",
                    "reset.sessions", "reset.tokens", "reset.token", "reset.file"}
    /\ minted \in 0..MaxMinted /\ faults \in 0..MaxFaults

\* Access that dates from before a reset outlives it only while the recovery
\* token is still good for another try: a reset that was cut short is never
\* taken for complete (recovery_reset() clears the token last).
ResetLeavesNoOldAccess ==
    (\E x \in sessions \cup tokens : x.cred # user) => recovery # NoToken

\* While there is no account the token on the card, if it shows one, which the
\* owner may have copied already, is the one that opens the setup, across every
\* crash of a boot (main.py 2028-2043).
DisplayedTokenWorks ==
    user = 0 /\ welcome \notin {NoToken, Emptied} => welcome = setup

\* Unless a request was cut short, recovery.txt holds the token that resets the
\* credentials and no other: a fresh request overwrites it, a reset deletes it.
FileIsCurrent == serving = "idle" /\ faults = 0 => recfile = recovery
===============================================================================
