------------------------------ MODULE DashboardProofs --------------------------
(* Proofs about the components behind the dashboard, for every value of their   *)
(* constants: Accounts, Registration, AlertInbox, Findings, Vault, Appliance,    *)
(* Inventory, and the types of the seven together.                               *)
EXTENDS MCDashboard, FoldLemmas, SequenceTheorems

(* Accounts *)

\* What is left of a reset, and what it has done by then: the recovery token goes
\* last, over sessions and API tokens that are all gone.
ResetOrder ==
    /\ serving \in {"reset.sessions", "reset.tokens", "reset.token"} => recovery # NoToken
    /\ serving \in {"reset.tokens", "reset.token", "reset.file"} => sessions = {}
    /\ serving \in {"reset.token", "reset.file"} => tokens = {}

\* The setup token is only cleared once there is an account.
SetupOrder == serving \in {"setup.token", "setup.file"} => user # 0

\* Between the two records of a recovery token only the request that wrote the
\* first of them is under way, and the last step of a reset finds the token gone.
FileFollows ==
    /\ serving = "reset.file" => recovery = NoToken
    /\ faults = 0 /\ serving \notin {"request.file", "reset.file"} => recfile = recovery

\* The type invariant in parts: counters, what may be granted, and the rest.
AccountNumbers ==
    /\ user \in Nat /\ minted \in 0..MaxMinted /\ faults \in 0..MaxFaults
    /\ setup \in 0..MaxMinted /\ recovery \in 0..MaxMinted
    /\ welcome \in Emptied..MaxMinted /\ recfile \in Emptied..MaxMinted

AccessRows ==
    /\ sessions \subseteq [id : 1..MaxAccess, cred : 1..user, stamp : BOOLEAN]
    /\ tokens \subseteq [id : 1..MaxAccess, cred : 1..user, ro : BOOLEAN]

AccessIds == \A x, y \in sessions \cup tokens : x.id = y.id => x = y

Attempts == failed \in [Buckets -> 0..MaxFails]

Servings == {"boot", "boot.file", "idle", "setup.token", "setup.file", "request.file",
             "reset.sessions", "reset.tokens", "reset.token", "reset.file"}

\* The parts make up the whole.
LEMMA AccountsTypeParts ==
    AccountsTypeOK <=> /\ AccountNumbers /\ AccessRows /\ AccessIds /\ Attempts
                       /\ serving \in Servings
  BY DEF AccountsTypeOK, AccountNumbers, AccessRows, AccessIds, Attempts, Servings

\* A write that is cut leaves the file as it was, or torn.
LEMMA CutLeaves ==
  ASSUME FilesAfterCut
  PROVE  /\ welcome' = welcome \/ (welcome' = Emptied /\ serving = "boot.file")
         /\ recfile' = recfile \/ (recfile' = Emptied /\ serving = "request.file")
  BY DEF FilesAfterCut, CutWrite

AccountsIInv ==
    /\ AccountsTypeOK
    /\ ResetOrder /\ SetupOrder /\ FileFollows
    /\ ResetLeavesNoOldAccess /\ DisplayedTokenWorks

\* The empty appliance satisfies the inductive invariant.
LEMMA AccountsInitially == AccountsInit => AccountsIInv
<1> SUFFICES ASSUME AccountsInit PROVE AccountsIInv
  OBVIOUS
<1>1. AccountsTypeOK
  <2>1. AccountNumbers /\ AccessRows /\ AccessIds
    BY AccountsAssumption DEF AccountsInit, AccountNumbers, AccessRows, AccessIds, NoToken, Emptied
  <2>2. Attempts /\ serving \in Servings
    BY AccountsAssumption DEF AccountsInit, Attempts, Servings
  <2> QED
    BY <2>1, <2>2, AccountsTypeParts
<1>2. ResetOrder /\ SetupOrder /\ FileFollows
  BY DEF AccountsInit, ResetOrder, SetupOrder, FileFollows, NoToken
<1>3. ResetLeavesNoOldAccess /\ DisplayedTokenWorks
  BY DEF AccountsInit, ResetLeavesNoOldAccess, DisplayedTokenWorks, NoToken
<1> QED
  BY <1>1, <1>2, <1>3 DEF AccountsIInv

\* Steps that grant nothing and take nothing back, token and attempt by attempt.
LEMMA NumbersKept ==
  ASSUME AccountsTypeOK, [AccountsNext]_accountVars
  PROVE  AccountNumbers' /\ serving' \in Servings
<1> USE AccountsTypeParts, AccountsAssumption DEF AccountNumbers, Servings, Emptied
<1>1. CASE BootToken \/ BootCard
  BY <1>1 DEF BootToken, BootCard, access, bounds
<1>2. CASE SetupClears \/ SetupRefused
  BY <1>2 DEF SetupClears, SetupRefused, access, bounds, card, NoToken
<1>3. CASE LoginRefused \/ AccessRefused \/ ResetRefused
  BY <1>3 DEF LoginRefused, AccessRefused, ResetRefused, access, bounds, card
<1>4. CASE RecoveryRequest \/ RecoveryFile
  BY <1>4 DEF RecoveryRequest, RecoveryFile, access, bounds, card
<1>5. CASE ResetClears
  BY <1>5 DEF ResetClears, access, bounds, card, NoToken, AfterSessions
<1>6. CASE \E t \in 1..MaxMinted : SetupPassword(t) \/ RecoveryReset(t)
  BY <1>6 DEF SetupPassword, RecoveryReset, access, bounds, card
<1>7. CASE \E n \in 1..MaxAccess : Login(n)
  BY <1>7 DEF Login, bounds, card
<1>8. CASE \E s \in sessions : SessionEnds(s) \/ StampConfirm(s)
  BY <1>8 DEF SessionEnds, StampConfirm, Admitted, bounds, card
<1>9. CASE \E s \in sessions, n \in 1..MaxAccess, ro \in BOOLEAN : CreateToken(s, n, ro)
  BY <1>9 DEF CreateToken, Admitted, bounds, card
<1>10. CASE \E s \in sessions, t \in tokens : RevokeToken(s, t)
  BY <1>10 DEF RevokeToken, Admitted, bounds, card
<1>11. CASE \E b \in Buckets : WindowPasses(b)
  BY <1>11 DEF WindowPasses, access, bounds, card
<1>12. CASE Interrupted \/ Restart
  BY <1>12, CutLeaves DEF Interrupted, Restart, access, card
<1>13. CASE UNCHANGED accountVars
  BY <1>13 DEF accountVars
<1> QED
  BY <1>1, <1>2, <1>3, <1>4, <1>5, <1>6, <1>7, <1>8, <1>9, <1>10, <1>11, <1>12, <1>13
     DEF AccountsNext

\* The attempts of a client stay within what its bucket holds.
LEMMA AttemptsKept ==
  ASSUME AccountsTypeOK, [AccountsNext]_accountVars
  PROVE  Attempts'
<1> USE AccountsTypeParts, AccountsAssumption DEF Attempts, Buckets
<1>1. ASSUME NEW b \in Buckets, ~Limited(b)
      PROVE  Recorded(b) \in [Buckets -> 0..MaxFails]
  BY <1>1 DEF Limited, Recorded
<1>2. ASSUME NEW b \in Buckets
      PROVE  Cleared(b) \in [Buckets -> 0..MaxFails]
  BY <1>2 DEF Cleared
<1>3. CASE SetupRefused \/ LoginRefused \/ AccessRefused \/ RecoveryRequest \/ ResetRefused
  BY <1>1, <1>3 DEF SetupRefused, LoginRefused, AccessRefused, RecoveryRequest, ResetRefused
<1>4. CASE SetupClears \/ ResetClears \/ \E n \in 1..MaxAccess : Login(n)
  BY <1>2, <1>4 DEF SetupClears, ResetClears, Login
<1>5. CASE (\E b \in Buckets : WindowPasses(b)) \/ Restart
  BY <1>5 DEF WindowPasses, Restart
<1>6. CASE failed' = failed
  BY <1>6
<1>7. CASE BootToken \/ BootCard \/ RecoveryFile \/ Interrupted
           \/ (\E t \in 1..MaxMinted : SetupPassword(t) \/ RecoveryReset(t))
  BY <1>6, <1>7 DEF BootToken, BootCard, RecoveryFile, Interrupted, SetupPassword, RecoveryReset
<1>8. CASE \/ \E s \in sessions : SessionEnds(s) \/ StampConfirm(s)
           \/ \E s \in sessions, n \in 1..MaxAccess, ro \in BOOLEAN : CreateToken(s, n, ro)
           \/ \E s \in sessions, t \in tokens : RevokeToken(s, t)
  BY <1>6, <1>8 DEF SessionEnds, StampConfirm, CreateToken, RevokeToken
<1>9. CASE UNCHANGED accountVars
  BY <1>6, <1>9 DEF accountVars
<1> QED
  BY <1>3, <1>4, <1>5, <1>7, <1>8, <1>9 DEF AccountsNext

\* Whatever a step grants, it grants under the credentials in force, or under
\* those of the session it is asked from, and under a number of its own.
LEMMA GrantsKept ==
  ASSUME AccountsTypeOK, [AccountsNext]_accountVars
  PROVE  AccessRows' /\ AccessIds'
<1>0. AccountNumbers /\ AccessRows /\ AccessIds
  BY AccountsTypeParts
<1>1. ASSUME sessions' \subseteq sessions, tokens' \subseteq tokens,
             user' \in Nat, user' >= user
      PROVE  AccessRows' /\ AccessIds'
  <2>1. 1..user \subseteq 1..user'
    BY <1>0, <1>1 DEF AccountNumbers
  <2> QED
    BY <1>0, <1>1, <2>1 DEF AccessRows, AccessIds
<1>2. CASE \E n \in 1..MaxAccess : Login(n)
  <2>1. PICK n \in 1..MaxAccess : Login(n)
    BY <1>2
  <2> DEFINE s == [id |-> n, cred |-> user, stamp |-> FALSE]
  <2>2. s \in [id : 1..MaxAccess, cred : 1..user, stamp : BOOLEAN]
    BY <1>0, <2>1 DEF Login, AccountNumbers
  <2>3. \A x \in sessions \cup tokens : x.id # s.id
    BY <2>1 DEF Login, Free
  <2>4. sessions' = sessions \cup {s} /\ tokens' = tokens /\ user' = user
    BY <2>1 DEF Login
  <2> HIDE DEF s
  <2> QED
    BY <1>0, <2>2, <2>3, <2>4 DEF AccessRows, AccessIds
<1>3. CASE \E s \in sessions, n \in 1..MaxAccess, ro \in BOOLEAN : CreateToken(s, n, ro)
  <2>1. PICK s \in sessions, n \in 1..MaxAccess, ro \in BOOLEAN : CreateToken(s, n, ro)
    BY <1>3
  <2> DEFINE t == [id |-> n, cred |-> s.cred, ro |-> ro]
  <2>2. t \in [id : 1..MaxAccess, cred : 1..user, ro : BOOLEAN]
    BY <1>0, <2>1 DEF AccessRows
  <2>3. \A x \in sessions \cup tokens : x.id # t.id
    BY <2>1 DEF CreateToken, Free
  <2>4. sessions' = sessions /\ tokens' = tokens \cup {t} /\ user' = user
    BY <2>1 DEF CreateToken
  <2> HIDE DEF t
  <2> QED
    BY <1>0, <2>2, <2>3, <2>4 DEF AccessRows, AccessIds
<1>4. CASE \E s \in sessions : StampConfirm(s)
  <2>1. PICK s \in sessions : StampConfirm(s)
    BY <1>4
  <2> DEFINE c == [s EXCEPT !.stamp = TRUE]
  <2>2. s \in [id : 1..MaxAccess, cred : 1..user, stamp : BOOLEAN]
    BY <1>0, <2>1 DEF AccessRows
  <2>3. c \in [id : 1..MaxAccess, cred : 1..user, stamp : BOOLEAN] /\ c.id = s.id
    BY <2>2
  <2>4. sessions' = (sessions \ {s}) \cup {c} /\ tokens' = tokens /\ user' = user
    BY <2>1 DEF StampConfirm
  <2> HIDE DEF c
  <2>5. \A x \in (sessions \ {s}) \cup tokens : x.id = s.id => x = s
    BY <1>0, <2>1 DEF AccessIds
  <2>6. AccessRows'
    BY <1>0, <2>3, <2>4 DEF AccessRows
  <2>7. s \notin tokens
    BY <1>0, <2>2 DEF AccessRows
  <2>8. AccessIds'
    BY <1>0, <2>3, <2>4, <2>5, <2>7 DEF AccessIds
  <2> QED
    BY <2>6, <2>8
<1>5. CASE \/ BootToken \/ BootCard \/ SetupRefused \/ SetupClears \/ LoginRefused
           \/ AccessRefused \/ RecoveryRequest \/ RecoveryFile \/ ResetClears \/ ResetRefused
  BY <1>0, <1>1, <1>5 DEF AccountNumbers, access, BootToken, BootCard, SetupRefused,
     SetupClears, LoginRefused, AccessRefused, RecoveryRequest, RecoveryFile,
     ResetClears, ResetRefused
<1>6. CASE \E t \in 1..MaxMinted : SetupPassword(t) \/ RecoveryReset(t)
  BY <1>0, <1>1, <1>6 DEF AccountNumbers, access, SetupPassword, RecoveryReset
<1>7. CASE \/ \E s \in sessions : SessionEnds(s)
           \/ \E s \in sessions, t \in tokens : RevokeToken(s, t)
  BY <1>0, <1>1, <1>7 DEF AccountNumbers, SessionEnds, RevokeToken
<1>8. CASE (\E b \in Buckets : WindowPasses(b)) \/ Interrupted \/ Restart
  BY <1>0, <1>1, <1>8 DEF AccountNumbers, access, WindowPasses, Interrupted, Restart
<1>9. CASE UNCHANGED accountVars
  BY <1>0, <1>1, <1>9 DEF AccountNumbers, accountVars
<1> QED
  BY <1>2, <1>3, <1>4, <1>5, <1>6, <1>7, <1>8, <1>9 DEF AccountsNext

\* Every step preserves the types.
LEMMA AccountsTypesKept == AccountsTypeOK /\ [AccountsNext]_accountVars => AccountsTypeOK'
<1> SUFFICES ASSUME AccountsTypeOK, [AccountsNext]_accountVars PROVE AccountsTypeOK'
  OBVIOUS
<1>1. AccountNumbers' /\ serving' \in Servings
  BY NumbersKept
<1>2. Attempts'
  BY AttemptsKept
<1>3. AccessRows' /\ AccessIds'
  BY GrantsKept
<1> QED
  BY <1>1, <1>2, <1>3
     DEF AccountsTypeOK, AccountNumbers, AccessRows, AccessIds, Attempts, Servings

\* Every step keeps the order in which a reset and a setup undo what they replace.
LEMMA OrderKept ==
  ASSUME AccountsIInv, [AccountsNext]_accountVars
  PROVE  ResetOrder' /\ SetupOrder' /\ FileFollows'
<1>0. AccountNumbers /\ AccessRows /\ ResetOrder /\ SetupOrder /\ FileFollows
  BY AccountsTypeParts DEF AccountsIInv
<1> USE AccountsAssumption DEF ResetOrder, SetupOrder, FileFollows, NoToken
<1>1. CASE BootToken \/ BootCard \/ SetupClears \/ SetupRefused
  BY <1>0, <1>1 DEF BootToken, BootCard, SetupClears, SetupRefused, card, access, bounds
<1>2. CASE LoginRefused \/ AccessRefused \/ ResetRefused
  BY <1>0, <1>2 DEF LoginRefused, AccessRefused, ResetRefused, card, access, bounds
<1>3. CASE RecoveryRequest \/ RecoveryFile
  BY <1>0, <1>3 DEF RecoveryRequest, RecoveryFile, card, access, bounds
<1>4. CASE ResetClears
  BY <1>0, <1>4 DEF ResetClears, AfterSessions, card, access, bounds
<1>5. CASE \E t \in 1..MaxMinted : SetupPassword(t) \/ RecoveryReset(t)
  BY <1>0, <1>5 DEF AccountNumbers, SetupPassword, RecoveryReset, card, access, bounds
<1>6. CASE \E n \in 1..MaxAccess : Login(n)
  BY <1>0, <1>6 DEF Login, card, bounds
<1>7. CASE \E s \in sessions : SessionEnds(s) \/ StampConfirm(s)
  BY <1>0, <1>7 DEF SessionEnds, StampConfirm, Admitted, card, bounds
<1>8. CASE \E s \in sessions, n \in 1..MaxAccess, ro \in BOOLEAN : CreateToken(s, n, ro)
  BY <1>0, <1>8 DEF CreateToken, Admitted, card, bounds
<1>9. CASE \E s \in sessions, t \in tokens : RevokeToken(s, t)
  BY <1>0, <1>9 DEF RevokeToken, Admitted, card, bounds
<1>10. CASE \E b \in Buckets : WindowPasses(b)
  BY <1>0, <1>10 DEF WindowPasses, card, access, bounds
<1>11. CASE Interrupted \/ Restart
  BY <1>0, <1>11 DEF AccountNumbers, Interrupted, Restart, card, access
<1>12. CASE UNCHANGED accountVars
  BY <1>0, <1>12 DEF accountVars
<1> QED
  BY <1>1, <1>2, <1>3, <1>4, <1>5, <1>6, <1>7, <1>8, <1>9, <1>10, <1>11, <1>12
     DEF AccountsNext

\* Every step keeps the two promises about the tokens an owner holds.  A reset
\* is what turns access into old access, and it needs the recovery token; what
\* is made later carries the credentials of the session that asks.
LEMMA PromisesKept ==
  ASSUME AccountsIInv, [AccountsNext]_accountVars
  PROVE  ResetLeavesNoOldAccess' /\ DisplayedTokenWorks'
<1>0. AccountNumbers /\ AccessRows /\ ResetOrder /\ SetupOrder
      /\ ResetLeavesNoOldAccess /\ DisplayedTokenWorks
  BY AccountsTypeParts DEF AccountsIInv
<1> USE AccountsAssumption DEF ResetLeavesNoOldAccess, DisplayedTokenWorks, NoToken
<1>1. CASE BootToken \/ BootCard \/ SetupRefused
  BY <1>0, <1>1 DEF BootToken, BootCard, CardExists, SetupRefused, card, access, bounds
<1>2. CASE SetupClears
  BY <1>0, <1>2 DEF SetupOrder, SetupClears, access, bounds
<1>3. CASE LoginRefused \/ AccessRefused \/ ResetRefused
  BY <1>0, <1>3 DEF LoginRefused, AccessRefused, ResetRefused, card, access, bounds
<1>4. CASE RecoveryRequest \/ RecoveryFile
  BY <1>0, <1>4 DEF AccountNumbers, RecoveryRequest, RecoveryFile, card, access, bounds
<1>5. CASE ResetClears
  BY <1>0, <1>5 DEF ResetOrder, ResetClears, AfterSessions, card, access, bounds
<1>6. CASE \E t \in 1..MaxMinted : SetupPassword(t)
  <2>1. PICK t \in 1..MaxMinted : SetupPassword(t)
    BY <1>6
  <2>2. sessions' = {} /\ tokens' = {}
    BY <1>0, <2>1 DEF SetupPassword, AccessRows, access
  <2> QED
    BY <2>1, <2>2 DEF SetupPassword
<1>7. CASE \E t \in 1..MaxMinted : RecoveryReset(t)
  BY <1>0, <1>7 DEF AccountNumbers, RecoveryReset, card, access, bounds
<1>8. CASE \E n \in 1..MaxAccess : Login(n)
  BY <1>0, <1>8 DEF Login, card, bounds
<1>9. CASE \E s \in sessions : SessionEnds(s)
  BY <1>0, <1>9 DEF SessionEnds, card, bounds
<1>10. CASE \E s \in sessions : StampConfirm(s)
  <2>1. PICK s \in sessions : StampConfirm(s)
    BY <1>10
  <2> DEFINE c == [s EXCEPT !.stamp = TRUE]
  <2>2. c.cred = s.cred
    BY <1>0, <2>1 DEF AccessRows
  <2>3. sessions' = (sessions \ {s}) \cup {c}
        /\ UNCHANGED <<user, setup, welcome, recovery, tokens>>
    BY <2>1 DEF StampConfirm, card
  <2> HIDE DEF c
  <2> QED
    BY <1>0, <2>2, <2>3
<1>11. CASE \E s \in sessions, n \in 1..MaxAccess, ro \in BOOLEAN : CreateToken(s, n, ro)
  BY <1>0, <1>11 DEF CreateToken, card, bounds
<1>12. CASE \E s \in sessions, t \in tokens : RevokeToken(s, t)
  BY <1>0, <1>12 DEF RevokeToken, card, bounds
<1>13. CASE (\E b \in Buckets : WindowPasses(b)) \/ Interrupted \/ Restart
  BY <1>0, <1>13, CutLeaves DEF WindowPasses, Interrupted, Restart, card, access, bounds
<1>14. CASE UNCHANGED accountVars
  BY <1>0, <1>14 DEF accountVars
<1> QED
  BY <1>1, <1>2, <1>3, <1>4, <1>5, <1>6, <1>7, <1>8, <1>9, <1>10, <1>11, <1>12, <1>13,
     <1>14 DEF AccountsNext

\* The invariant holds in every reachable state of the component.
LEMMA AccountsInvariant == AccountsSpec => []AccountsIInv
<1>1. AccountsIInv /\ [AccountsNext]_accountVars => AccountsIInv'
  BY AccountsTypesKept, OrderKept, PromisesKept DEF AccountsIInv
<1> QED
  BY AccountsInitially, <1>1, PTL DEF AccountsSpec

\* Sessions and API tokens always have a number of their own and credentials that
\* were once in force, and a bucket never holds more attempts than exhaust it.
THEOREM AccountsTypes == AccountsSpec => []AccountsTypeOK
<1>1. AccountsIInv => AccountsTypeOK
  BY DEF AccountsIInv
<1> QED
  BY <1>1, AccountsInvariant, PTL

\* A reset of the credentials that was cut short, wherever, is never mistaken for
\* a complete one: as long as old access is left, its token can be used again.
THEOREM ResetIsComplete == AccountsSpec => []ResetLeavesNoOldAccess
<1>1. AccountsIInv => ResetLeavesNoOldAccess
  BY DEF AccountsIInv
<1> QED
  BY <1>1, AccountsInvariant, PTL

\* The token on the welcome card opens the first-run setup, across every crash of
\* a boot between storing it and writing the card.
THEOREM CardOpensSetup == AccountsSpec => []DisplayedTokenWorks
<1>1. AccountsIInv => DisplayedTokenWorks
  BY DEF AccountsIInv
<1> QED
  BY <1>1, AccountsInvariant, PTL

\* Without a cut, recovery.txt names the token in force between any two requests.
THEOREM RecoveryFileIsCurrent == AccountsSpec => []FileIsCurrent
<1>1. AccountsIInv => FileIsCurrent
  BY DEF AccountsIInv, FileFollows, FileIsCurrent
<1> QED
  BY <1>1, AccountsInvariant, PTL

-----------------------------------------------------------------------------
(* Registration *)

\* A token was handed out before it is in force or spent, and the one in force
\* was never spent.
StateTokens ==
    /\ state \in 0..initiated /\ spent \subseteq 1..initiated /\ twice = FALSE
    /\ state # NoState => state \notin spent

LinkRecords ==
    /\ registered \in BOOLEAN /\ relink \in BOOLEAN
    /\ cache \in [linked : BOOLEAN, entitled : BOOLEAN, stale : BOOLEAN]

Backend == linked \in BOOLEAN /\ plan \in BOOLEAN

Counters == initiated \in 0..MaxTokens /\ remote \in 0..MaxRemote /\ cuts \in 0..MaxCuts

\* What a request can have left to write, and what holds at that point as long as
\* nothing was cut short: a callback that links has three writes, one that the
\* backend declined and a refresh have one, a deregistration has two, a refresh
\* that finds the device unlinked has three.
Uncut(P) == cuts = 0 => P

NothingLeft ==
    todo = <<>> /\ Uncut((relink => ~registered) /\ (cache.entitled => registered))
LinkLeft ==
    \/ \E p \in BOOLEAN : todo = <<Write("cache", Entry(TRUE, p)), Write("registered", TRUE),
                                   Write("relink", FALSE)>>
    \/ todo = <<Write("registered", TRUE), Write("relink", FALSE)>>
    \/ todo = <<Write("relink", FALSE)>> /\ Uncut(registered)
RefreshLeft ==
    /\ \E p \in BOOLEAN : todo = <<Write("cache", Entry(TRUE, p))>>
    /\ Uncut(registered /\ ~relink)
EmptyLeft ==
    todo = <<Write("cache", Entry(FALSE, FALSE))>> /\ Uncut(relink => ~registered)
LeaveLeft == todo = <<Write("registered", FALSE), Write("cache", Entry(FALSE, FALSE))>>
UnlinkLeft ==
    \/ todo = UnlinkedWrites
    \/ /\ todo = <<Write("relink", TRUE), Write("cache", Entry(FALSE, FALSE))>>
       /\ Uncut(~registered)

WritesLeft ==
    NothingLeft \/ LinkLeft \/ RefreshLeft \/ EmptyLeft \/ LeaveLeft \/ UnlinkLeft

RegistrationIInv == StateTokens /\ LinkRecords /\ Backend /\ Counters /\ WritesLeft

\* The parts make up the type invariant and the two safety invariants.
LEMMA RegistrationParts ==
  ASSUME RegistrationIInv
  PROVE  RegistrationTypeOK /\ StateTokenOnce /\ RecordsAgree
<1>1. RegistrationTypeOK
  <2>1. twice \in BOOLEAN
    BY DEF RegistrationIInv, StateTokens
  <2>2. {registered, relink, linked, plan, twice} \subseteq BOOLEAN
    BY <2>1, Zenon DEF RegistrationIInv, LinkRecords, Backend
  <2>3. state \in 0..MaxTokens /\ spent \subseteq 1..MaxTokens
    BY RegistrationAssumption DEF RegistrationIInv, StateTokens, Counters
  <2> QED
    BY <2>2, <2>3 DEF RegistrationTypeOK, RegistrationIInv, LinkRecords, Counters
<1>2. StateTokenOnce
  BY DEF RegistrationIInv, StateTokens, StateTokenOnce
<1>3. RecordsAgree
  <2> SUFFICES ASSUME todo = <<>>, cuts = 0
               PROVE  (relink => ~registered) /\ (cache.entitled => registered)
    BY DEF RecordsAgree, NothingUnderWay
  <2>1. NothingLeft
    BY DEF RegistrationIInv, WritesLeft, LinkLeft, RefreshLeft, EmptyLeft, LeaveLeft,
       UnlinkLeft, UnlinkedWrites
  <2> QED
    BY <2>1 DEF NothingLeft, Uncut
<1> QED
  BY <1>1, <1>2, <1>3

\* An appliance that was never linked satisfies the invariant.
LEMMA RegistrationInitially == RegistrationInit => RegistrationIInv
<1> SUFFICES ASSUME RegistrationInit PROVE RegistrationIInv
  OBVIOUS
<1>1. StateTokens /\ Counters
  BY RegistrationAssumption DEF RegistrationInit, StateTokens, Counters, NoState
<1>2. LinkRecords /\ Backend
  BY DEF RegistrationInit, LinkRecords, Backend, NoCache
<1>3. WritesLeft
  BY DEF RegistrationInit, WritesLeft, NothingLeft, Uncut, NoCache
<1> QED
  BY <1>1, <1>2, <1>3 DEF RegistrationIInv

\* Every step keeps the counters within their bounds.
LEMMA CountersKept ==
  ASSUME Counters, [RegistrationNext]_registrationVars
  PROVE  Counters'
<1> DEFINE More ==
      \/ initiated < MaxTokens /\ initiated' = initiated + 1 /\ remote' = remote /\ cuts' = cuts
      \/ remote < MaxRemote /\ remote' = remote + 1 /\ initiated' = initiated /\ cuts' = cuts
      \/ cuts < MaxCuts /\ cuts' = cuts + 1 /\ initiated' = initiated /\ remote' = remote
      \/ initiated' = initiated /\ remote' = remote /\ cuts' = cuts
<1>1. ASSUME Initiate \/ StateExpires \/ Deregister \/ DeregisterUnanswered
      PROVE  More
  BY <1>1, Zenon DEF Initiate, StateExpires, Deregister, DeregisterUnanswered
<1>2. ASSUME \E t \in 1..MaxTokens, yes \in BOOLEAN : Callback(t, yes) \/ CallbackUnanswered(t, yes)
      PROVE  More
  BY <1>2, Zenon DEF Callback, CallbackUnanswered
<1>3. ASSUME Refresh \/ StatusRead \/ RefreshUnanswered \/ NextWrite \/ RequestCut
      PROVE  More
  BY <1>3, Zenon DEF Refresh, StatusRead, RefreshUnanswered, NextWrite, RequestCut
<1>4. ASSUME Revoked \/ PlanChanges \/ CacheAges
      PROVE  More
  BY <1>4, Zenon DEF Revoked, PlanChanges, CacheAges
<1>5. ASSUME UNCHANGED registrationVars
      PROVE  More
  BY <1>5, Zenon DEF registrationVars
<1>6. More
  BY <1>1, <1>2, <1>3, <1>4, <1>5, Zenon DEF RegistrationNext
<1> QED
  BY <1>6, RegistrationAssumption DEF Counters

\* Every step keeps a token that was spent from coming into force again: a new one
\* has the next number, and a callback takes the one in force with it.
LEMMA StateTokensKept ==
  ASSUME StateTokens, Counters, [RegistrationNext]_registrationVars
  PROVE  StateTokens'
<1> USE DEF StateTokens, Counters, NoState
<1>1. CASE Initiate \/ StateExpires \/ Deregister \/ DeregisterUnanswered
  <2>1. /\ spent' = spent /\ twice' = twice
        /\ \/ state' = initiated' /\ initiated' = initiated + 1
           \/ state' \in {state, NoState} /\ initiated' = initiated
    BY <1>1, Zenon DEF Initiate, StateExpires, Deregister, DeregisterUnanswered
  <2> QED
    BY <2>1
<1>2. CASE \E t \in 1..MaxTokens, yes \in BOOLEAN : Callback(t, yes) \/ CallbackUnanswered(t, yes)
  <2>1. PICK t \in 1..MaxTokens : /\ t = state /\ state # NoState /\ state' = NoState
                                  /\ spent' = spent \cup {t} /\ twice' = (twice \/ t \in spent)
                                  /\ initiated' = initiated
    BY <1>2 DEF Callback, CallbackUnanswered, Consumed
  <2>2. ~twice'
    BY <2>1
  <2>3. spent' \subseteq 1..initiated'
    BY <2>1
  <2> QED
    BY <2>1, <2>2, <2>3
<1>0. ASSUME UNCHANGED <<state, spent, twice, initiated>> PROVE StateTokens'
  BY <1>0
<1>3. CASE Refresh \/ StatusRead \/ RefreshUnanswered \/ NextWrite \/ RequestCut
  BY <1>0, <1>3, Zenon DEF Refresh, StatusRead, RefreshUnanswered, NextWrite, RequestCut
<1>4. CASE Revoked \/ PlanChanges \/ CacheAges
  BY <1>0, <1>4, Zenon DEF Revoked, PlanChanges, CacheAges
<1>5. CASE UNCHANGED registrationVars
  BY <1>0, <1>5, Zenon DEF registrationVars
<1> QED
  BY <1>1, <1>2, <1>3, <1>4, <1>5 DEF RegistrationNext

\* The backend's own records keep their types.
LEMMA BackendKept ==
  ASSUME Backend, [RegistrationNext]_registrationVars
  PROVE  Backend'
<1> USE DEF Backend, backend
<1>1. CASE Initiate \/ StateExpires \/ Deregister \/ DeregisterUnanswered
  BY <1>1, Zenon DEF Initiate, StateExpires, Deregister, DeregisterUnanswered
<1>2. CASE \E t \in 1..MaxTokens, yes \in BOOLEAN : Callback(t, yes) \/ CallbackUnanswered(t, yes)
  BY <1>2, Zenon DEF Callback, CallbackUnanswered
<1>3. CASE Refresh \/ StatusRead \/ RefreshUnanswered \/ NextWrite \/ RequestCut
  BY <1>3, Zenon DEF Refresh, StatusRead, RefreshUnanswered, NextWrite, RequestCut
<1>4. CASE Revoked \/ PlanChanges \/ CacheAges
  BY <1>4, Zenon DEF Revoked, PlanChanges, CacheAges
<1>5. CASE UNCHANGED registrationVars
  BY <1>5, Zenon DEF registrationVars
<1> QED
  BY <1>1, <1>2, <1>3, <1>4, <1>5 DEF RegistrationNext

\* What NextWrite finds at the head of the writes left and leaves behind.
LEMMA WritesInOrder ==
  ASSUME NEW a, NEW b, NEW c
  PROVE  /\ Head(<<a>>) = a /\ Tail(<<a>>) = <<>>
         /\ Head(<<a, b>>) = a /\ Tail(<<a, b>>) = <<b>>
         /\ Head(<<a, b, c>>) = a /\ Tail(<<a, b, c>>) = <<b, c>>
  OBVIOUS

\* One write touches one record and no other.
LEMMA WriteSets ==
  ASSUME NextWrite, NEW what \in {"registered", "relink", "cache"}, NEW value,
         Head(todo) = Write(what, value)
  PROVE  /\ registered' = (IF what = "registered" THEN value ELSE registered)
         /\ relink' = (IF what = "relink" THEN value ELSE relink)
         /\ cache' = (IF what = "cache" THEN value ELSE cache)
         /\ cuts' = cuts /\ todo' = Tail(todo)
<1>1. Head(todo).what = what /\ Head(todo).value = value
  BY DEF Write
<1> QED
  BY <1>1, Zenon DEF NextWrite

\* A write leaves one of the lists of writes that a request can have left.
LEMMA NextWriteKept ==
  ASSUME LinkRecords, WritesLeft, NextWrite
  PROVE  LinkRecords' /\ WritesLeft'
<1> USE DEF Uncut
<1>0. ASSUME NEW e \in BOOLEAN, NEW l \in BOOLEAN
      PROVE  /\ Entry(l, e) \in [linked : BOOLEAN, entitled : BOOLEAN, stale : BOOLEAN]
             /\ Entry(l, e).entitled = e
  BY DEF Entry
<1>1. CASE NothingLeft
  BY <1>1 DEF NothingLeft, NextWrite
<1>2. CASE \E p \in BOOLEAN : todo = <<Write("cache", Entry(TRUE, p)), Write("registered", TRUE),
                                       Write("relink", FALSE)>>
  <2>1. PICK p \in BOOLEAN : todo = <<Write("cache", Entry(TRUE, p)), Write("registered", TRUE),
                                      Write("relink", FALSE)>>
    BY <1>2
  <2>2. /\ Head(todo) = Write("cache", Entry(TRUE, p))
        /\ Tail(todo) = <<Write("registered", TRUE), Write("relink", FALSE)>>
    BY <2>1, WritesInOrder
  <2>3. /\ registered' = registered /\ relink' = relink /\ cache' = Entry(TRUE, p)
        /\ todo' = Tail(todo)
    BY <2>2, WriteSets
  <2> QED
    BY <1>0, <2>2, <2>3 DEF LinkRecords, WritesLeft, LinkLeft
<1>3. CASE todo = <<Write("registered", TRUE), Write("relink", FALSE)>>
  <2>1. Head(todo) = Write("registered", TRUE) /\ Tail(todo) = <<Write("relink", FALSE)>>
    BY <1>3, WritesInOrder
  <2>2. registered' = TRUE /\ relink' = relink /\ cache' = cache /\ todo' = Tail(todo)
    BY <2>1, WriteSets
  <2> QED
    BY <2>1, <2>2 DEF LinkRecords, WritesLeft, LinkLeft
<1>4. CASE todo = <<Write("relink", FALSE)>> /\ Uncut(registered)
  <2>1. Head(todo) = Write("relink", FALSE) /\ Tail(todo) = <<>>
    BY <1>4, WritesInOrder
  <2>2. /\ registered' = registered /\ relink' = FALSE /\ cache' = cache
        /\ cuts' = cuts /\ todo' = Tail(todo)
    BY <2>1, WriteSets
  <2> QED
    BY <1>4, <2>1, <2>2 DEF LinkRecords, WritesLeft, NothingLeft
<1>5. CASE RefreshLeft
  <2>1. PICK p \in BOOLEAN : todo = <<Write("cache", Entry(TRUE, p))>>
    BY <1>5 DEF RefreshLeft
  <2>2. Head(todo) = Write("cache", Entry(TRUE, p)) /\ Tail(todo) = <<>>
    BY <2>1, WritesInOrder
  <2>3. /\ registered' = registered /\ relink' = relink /\ cache' = Entry(TRUE, p)
        /\ cuts' = cuts /\ todo' = Tail(todo)
    BY <2>2, WriteSets
  <2> QED
    BY <1>0, <1>5, <2>2, <2>3 DEF LinkRecords, RefreshLeft, WritesLeft, NothingLeft
<1>6. CASE EmptyLeft
  <2>1. Head(todo) = Write("cache", Entry(FALSE, FALSE)) /\ Tail(todo) = <<>>
    BY <1>6, WritesInOrder DEF EmptyLeft
  <2>2. /\ registered' = registered /\ relink' = relink /\ cache' = Entry(FALSE, FALSE)
        /\ cuts' = cuts /\ todo' = Tail(todo)
    BY <2>1, WriteSets
  <2> QED
    BY <1>0, <1>6, <2>1, <2>2 DEF LinkRecords, EmptyLeft, WritesLeft, NothingLeft
<1>7. CASE LeaveLeft
  <2>1. /\ Head(todo) = Write("registered", FALSE)
        /\ Tail(todo) = <<Write("cache", Entry(FALSE, FALSE))>>
    BY <1>7, WritesInOrder DEF LeaveLeft
  <2>2. /\ registered' = FALSE /\ relink' = relink /\ cache' = cache /\ todo' = Tail(todo)
    BY <2>1, WriteSets
  <2> QED
    BY <2>1, <2>2 DEF LinkRecords, WritesLeft, EmptyLeft
<1>8. CASE todo = UnlinkedWrites
  <2>1. /\ Head(todo) = Write("registered", FALSE)
        /\ Tail(todo) = <<Write("relink", TRUE), Write("cache", Entry(FALSE, FALSE))>>
    BY <1>8, WritesInOrder DEF UnlinkedWrites
  <2>2. /\ registered' = FALSE /\ relink' = relink /\ cache' = cache /\ todo' = Tail(todo)
    BY <2>1, WriteSets
  <2> QED
    BY <2>1, <2>2 DEF LinkRecords, WritesLeft, UnlinkLeft
<1>9. CASE /\ todo = <<Write("relink", TRUE), Write("cache", Entry(FALSE, FALSE))>>
           /\ Uncut(~registered)
  <2>1. /\ Head(todo) = Write("relink", TRUE)
        /\ Tail(todo) = <<Write("cache", Entry(FALSE, FALSE))>>
    BY <1>9, WritesInOrder
  <2>2. /\ registered' = registered /\ relink' = TRUE /\ cache' = cache
        /\ cuts' = cuts /\ todo' = Tail(todo)
    BY <2>1, WriteSets
  <2> QED
    BY <1>9, <2>1, <2>2 DEF LinkRecords, WritesLeft, EmptyLeft
<1> QED
  BY <1>1, <1>2, <1>3, <1>4, <1>5, <1>6, <1>7, <1>8, <1>9, Zenon
     DEF WritesLeft, LinkLeft, UnlinkLeft

\* A request starts when nothing is left to write, and what it starts with is one
\* of the lists of writes that a request can have left.
LEMMA RequestsKept ==
  ASSUME RegistrationIInv,
         \/ Deregister
         \/ \E t \in 1..MaxTokens, yes \in BOOLEAN : Callback(t, yes)
         \/ Refresh
  PROVE  LinkRecords' /\ WritesLeft'
<1>1. todo = <<>>
  BY Zenon DEF Deregister, Callback, Refresh, NothingUnderWay
<1>2. Uncut((relink => ~registered) /\ (cache.entitled => registered))
  BY <1>1, RegistrationParts, Zenon DEF RecordsAgree, NothingUnderWay, Uncut
<1>3. registered' = registered /\ relink' = relink /\ cache' = cache /\ cuts' = cuts
  BY Zenon DEF Deregister, Callback, Refresh, local
<1>4. LinkRecords'
  BY <1>3, Zenon DEF LinkRecords, RegistrationIInv
<1>5. CASE Deregister
  BY <1>4, <1>5, Zenon DEF Deregister, WritesLeft, LeaveLeft
<1>6. CASE \E t \in 1..MaxTokens, yes \in BOOLEAN : Callback(t, yes)
  <2>1. plan \in BOOLEAN
    BY DEF RegistrationIInv, Backend
  <2>2. \/ todo' = <<Write("cache", Entry(TRUE, plan)), Write("registered", TRUE),
                     Write("relink", FALSE)>>
        \/ todo' = <<Write("cache", Entry(FALSE, FALSE))>>
    BY <1>6, Zenon DEF Callback
  <2>3. LinkLeft' \/ EmptyLeft'
    BY <1>2, <1>3, <2>1, <2>2, Zenon DEF LinkLeft, EmptyLeft, Uncut
  <2> QED
    BY <1>4, <2>3 DEF WritesLeft
<1>7. CASE Refresh
  <2>1. plan \in BOOLEAN
    BY DEF RegistrationIInv, Backend
  <2>2. registered /\ (todo' = <<Write("cache", Entry(TRUE, plan))>> \/ todo' = UnlinkedWrites)
    BY <1>7, Zenon DEF Refresh
  <2>3. CASE todo' = UnlinkedWrites
    BY <1>4, <2>3, Zenon DEF WritesLeft, UnlinkLeft, UnlinkedWrites
  <2>4. CASE todo' = <<Write("cache", Entry(TRUE, plan))>>
    <3>1. RefreshLeft'
      BY <1>2, <1>3, <2>1, <2>2, <2>4, Zenon DEF RefreshLeft, Uncut
    <3> QED
      BY <1>4, <3>1 DEF WritesLeft
  <2> QED
    BY <2>2, <2>3, <2>4
<1> QED
  BY <1>4, <1>5, <1>6, <1>7

\* A request that is cut short leaves nothing to write, and no promise.
LEMMA CutKept ==
  ASSUME LinkRecords, Counters, RequestCut
  PROVE  LinkRecords' /\ WritesLeft'
<1>1. /\ registered' = registered /\ relink' = relink /\ cache' = cache
      /\ todo' = <<>> /\ cuts' = cuts + 1
  BY Zenon DEF RequestCut, local
<1>2. LinkRecords'
  BY <1>1, Zenon DEF LinkRecords
<1>3. cuts' # 0
  BY <1>1 DEF Counters
<1> QED
  BY <1>1, <1>2, <1>3, Zenon DEF WritesLeft, NothingLeft, Uncut

\* What leaves the local records and the writes alone keeps them; the cache ages
\* without losing what it says.
LEMMA RecordsKept ==
  ASSUME LinkRecords, Counters, WritesLeft,
         registered' = registered, relink' = relink, todo' = todo,
         \/ cache' = cache
         \/ cache' = [cache EXCEPT !.stale = TRUE],
         cuts' = cuts \/ cuts' = cuts + 1
  PROVE  LinkRecords' /\ WritesLeft'
<1>1. /\ cache' \in [linked : BOOLEAN, entitled : BOOLEAN, stale : BOOLEAN]
      /\ cache'.entitled = cache.entitled
  BY DEF LinkRecords
<1>2. LinkRecords'
  BY <1>1 DEF LinkRecords
<1>3. cuts' = 0 => cuts = 0
  BY DEF Counters
<1>4. CASE NothingLeft
  BY <1>1, <1>2, <1>3, <1>4 DEF WritesLeft, NothingLeft, Uncut
<1>5. CASE LinkLeft
  BY <1>2, <1>3, <1>5, Zenon DEF WritesLeft, LinkLeft, Uncut
<1>6. CASE RefreshLeft \/ EmptyLeft \/ LeaveLeft
  BY <1>2, <1>3, <1>6, Zenon DEF WritesLeft, RefreshLeft, EmptyLeft, LeaveLeft, Uncut
<1>7. CASE UnlinkLeft
  <2>1. UnlinkLeft'
    BY <1>3, <1>7, Zenon DEF UnlinkLeft, UnlinkedWrites, Uncut
  <2> QED
    BY <1>2, <2>1 DEF WritesLeft
<1> QED
  BY <1>2, <1>4, <1>5, <1>6, <1>7 DEF WritesLeft

\* Every step preserves the invariant.
LEMMA RegistrationStep ==
  RegistrationIInv /\ [RegistrationNext]_registrationVars => RegistrationIInv'
<1> SUFFICES ASSUME RegistrationIInv, [RegistrationNext]_registrationVars
             PROVE  RegistrationIInv'
  OBVIOUS
<1>0. StateTokens /\ LinkRecords /\ Backend /\ Counters /\ WritesLeft
  BY DEF RegistrationIInv
<1>1. StateTokens' /\ Backend' /\ Counters'
  BY <1>0, StateTokensKept, BackendKept, CountersKept
<1>2. CASE \/ Deregister \/ Refresh \/ StatusRead
           \/ \E t \in 1..MaxTokens, yes \in BOOLEAN : Callback(t, yes)
  BY <1>1, <1>2, RequestsKept, Zenon DEF StatusRead, RegistrationIInv
<1>3. CASE NextWrite
  BY <1>0, <1>1, <1>3, NextWriteKept DEF RegistrationIInv
<1>4. CASE RequestCut
  BY <1>0, <1>1, <1>4, CutKept DEF RegistrationIInv
<1>5. CASE \/ Initiate \/ StateExpires \/ DeregisterUnanswered \/ RefreshUnanswered
           \/ \E t \in 1..MaxTokens, yes \in BOOLEAN : CallbackUnanswered(t, yes)
           \/ Revoked \/ PlanChanges \/ CacheAges \/ UNCHANGED registrationVars
  <2>1. /\ registered' = registered /\ relink' = relink /\ todo' = todo
        /\ cache' = cache \/ cache' = [cache EXCEPT !.stale = TRUE]
        /\ cuts' = cuts \/ cuts' = cuts + 1
    BY <1>5, Zenon DEF Initiate, StateExpires, DeregisterUnanswered, RefreshUnanswered,
       CallbackUnanswered, Revoked, PlanChanges, CacheAges, registrationVars, local
  <2> QED
    BY <1>0, <1>1, <2>1, RecordsKept, Zenon DEF RegistrationIInv
<1> QED
  BY <1>2, <1>3, <1>4, <1>5, Zenon DEF RegistrationNext

\* The invariant holds in every reachable state of the component.
LEMMA RegistrationInvariant == RegistrationSpec => []RegistrationIInv
  BY RegistrationInitially, RegistrationStep, PTL DEF RegistrationSpec

\* The local records, the token in force and the writes left keep their types.
THEOREM RegistrationTypes == RegistrationSpec => []RegistrationTypeOK
<1>1. RegistrationIInv => RegistrationTypeOK
  BY RegistrationParts
<1> QED
  BY <1>1, RegistrationInvariant, PTL

\* A registration token is good for one callback, whatever becomes of it: no
\* second callback is ever admitted with a local_state that was seen before.
THEOREM TokensAreSpentOnce == RegistrationSpec => []StateTokenOnce
<1>1. RegistrationIInv => StateTokenOnce
  BY RegistrationParts
<1> QED
  BY <1>1, RegistrationInvariant, PTL

\* The separate commits of IS_REGISTERED, NEEDS_RELINK and the entitlement cache
\* agree whenever no request is under way, unless one was cut short before.
THEOREM CommitsAgree == RegistrationSpec => []RecordsAgree
<1>1. RegistrationIInv => RecordsAgree
  BY RegistrationParts
<1> QED
  BY <1>1, RegistrationInvariant, PTL

-----------------------------------------------------------------------------
(* The alert inbox *)

\* What a request still holds when it comes to the badge: it dismisses it only
\* over an inbox it left without an unread alert, and only the poller, which is
\* then on record as having come in between, can have added one since.
InboxIInv ==
    /\ InboxTypeOK
    /\ UnreadKeepsBadge
    /\ request.clear => Unread(status) = {} \/ raced

\* The steps in network.db that only take alerts out of the unread ones.
LEMMA FewerUnread ==
  ASSUME InboxIInv, status' \in [Alerts -> {"absent", "new", "acknowledged", "deleted"}],
         Unread(status') \subseteq Unread(status), announced' = announced,
         hasNew' = hasNew, creating' = creating, raced' = raced, swallowed' = swallowed,
         request' \in [clear : BOOLEAN, under_way : BOOLEAN],
         request'.clear => request.clear \/ Unread(status') = {}
  PROVE  InboxIInv'
<1>1. InboxTypeOK'
  BY DEF InboxIInv, InboxTypeOK
<1>2. UnreadKeepsBadge'
  BY DEF InboxIInv, UnreadKeepsBadge
<1>3. (request.clear => Unread(status) = {} \/ raced)'
  BY DEF InboxIInv
<1> QED
  BY <1>1, <1>2, <1>3 DEF InboxIInv

\* No step of the poller, the reader or the janitor breaks the invariant of the inbox.
LEMMA InboxStep == InboxIInv /\ [InboxNext]_inboxVars => InboxIInv'
<1> SUFFICES ASSUME InboxIInv, [InboxNext]_inboxVars PROVE InboxIInv'
  OBVIOUS
<1>1. ASSUME NEW a \in Alerts, InsertAlert(a) PROVE InboxIInv'
  <2>1. InboxTypeOK'
    BY <1>1 DEF InboxIInv, InboxTypeOK, InsertAlert
  <2>2. UnreadKeepsBadge'
    BY <1>1, InboxAssumption DEF UnreadKeepsBadge, InsertAlert
  <2>3. request.clear => request # NoRequest
    BY DEF NoRequest
  <2>4. (request.clear => Unread(status) = {} \/ raced)'
    BY <1>1, <2>3 DEF InsertAlert
  <2> QED
    BY <2>1, <2>2, <2>4 DEF InboxIInv
<1>2. ASSUME NEW a \in Alerts, PruneAlert(a) \/ MarkRead(a) \/ DeleteAlert(a)
      PROVE  InboxIInv'
  <2>1. /\ status' \in [Alerts -> {"absent", "new", "acknowledged", "deleted"}]
        /\ Unread(status') \subseteq Unread(status)
    BY <1>2 DEF InboxIInv, InboxTypeOK, Unread, PruneAlert, MarkRead, DeleteAlert
  <2>2. /\ announced' = announced /\ hasNew' = hasNew /\ creating' = creating
        /\ raced' = raced /\ swallowed' = swallowed /\ request' = request
    BY <1>2 DEF PruneAlert, MarkRead, DeleteAlert
  <2>3. request' \in [clear : BOOLEAN, under_way : BOOLEAN]
    BY <2>2 DEF InboxIInv, InboxTypeOK
  <2> QED
    BY <2>1, <2>2, <2>3, FewerUnread
<1>3. ASSUME NEW sev \in Severities \cup {"all"}, NEW st, NEW typ,
             MarkAllRead(sev) \/ DeleteAlerts(st, sev, typ)
      PROVE  InboxIInv'
  <2>1. /\ status' \in [Alerts -> {"absent", "new", "acknowledged", "deleted"}]
        /\ Unread(status') \subseteq Unread(status)
    BY <1>3 DEF InboxIInv, InboxTypeOK, Unread, MarkAllRead, DeleteAlerts
  <2>2. /\ announced' = announced /\ hasNew' = hasNew /\ creating' = creating
        /\ raced' = raced /\ swallowed' = swallowed
        /\ request' = [clear |-> Unread(status') = {}, under_way |-> TRUE]
    BY <1>3 DEF MarkAllRead, DeleteAlerts, LeftUnread
  <2>3. /\ request' \in [clear : BOOLEAN, under_way : BOOLEAN]
        /\ request'.clear => Unread(status') = {}
    BY <2>2
  <2> QED
    BY <2>1, <2>2, <2>3, FewerUnread
<1>4. CASE SetBadge
  <2>1. InboxTypeOK'
    BY <1>4 DEF InboxIInv, InboxTypeOK, SetBadge
  <2>2. UnreadKeepsBadge'
    BY <1>4 DEF UnreadKeepsBadge, SetBadge
  <2>3. (request.clear => Unread(status) = {} \/ raced)'
    BY <1>4 DEF InboxIInv, SetBadge
  <2> QED
    BY <2>1, <2>2, <2>3 DEF InboxIInv
<1>5. CASE BadgeNotSet
  <2>1. swallowed' \in 0..MaxSwallowed /\ swallowed' > 0
    BY <1>5, InboxAssumption DEF InboxIInv, InboxTypeOK, BadgeNotSet
  <2>2. InboxTypeOK'
    BY <1>5, <2>1 DEF InboxIInv, InboxTypeOK, BadgeNotSet
  <2>3. UnreadKeepsBadge'
    BY <2>1 DEF UnreadKeepsBadge
  <2>4. (request.clear => Unread(status) = {} \/ raced)'
    BY <1>5 DEF InboxIInv, BadgeNotSet
  <2> QED
    BY <2>2, <2>3, <2>4 DEF InboxIInv
<1>6. CASE ClearBadge
  <2>1. InboxTypeOK'
    BY <1>6 DEF InboxIInv, InboxTypeOK, ClearBadge, NoRequest
  <2>2. UnreadKeepsBadge'
    BY <1>6 DEF InboxIInv, UnreadKeepsBadge, ClearBadge
  <2>3. (request.clear => Unread(status) = {} \/ raced)'
    BY <1>6 DEF ClearBadge, NoRequest
  <2> QED
    BY <2>1, <2>2, <2>3 DEF InboxIInv
<1>7. CASE Acknowledge
  <2>1. InboxTypeOK'
    BY <1>7 DEF InboxIInv, InboxTypeOK, Acknowledge
  <2>2. UnreadKeepsBadge'
    BY <1>7 DEF UnreadKeepsBadge, Acknowledge
  <2>3. (request.clear => Unread(status) = {} \/ raced)'
    BY <1>7 DEF InboxIInv, Acknowledge
  <2> QED
    BY <2>1, <2>2, <2>3 DEF InboxIInv
<1>8. CASE UNCHANGED inboxVars
  BY <1>8 DEF inboxVars, InboxIInv, InboxTypeOK, UnreadKeepsBadge
<1>9. CASE \E sev \in Severities \cup {"all"} : MarkAllRead(sev)
  BY <1>3, <1>9
<1> QED
  BY <1>1, <1>2, <1>3, <1>4, <1>5, <1>6, <1>7, <1>8, <1>9 DEF InboxNext

\* Hence it holds in every state.
LEMMA InboxInvariant == InboxSpec => []InboxIInv
<1>1. InboxInit => InboxIInv
  <2> SUFFICES ASSUME InboxInit PROVE InboxIInv
    OBVIOUS
  <2>1. InboxTypeOK
    <3>1. NoRequest \in [clear : BOOLEAN, under_way : BOOLEAN]
      BY DEF NoRequest
    <3>2. 0 \in 0..MaxSwallowed
      BY InboxAssumption
    <3> QED
      BY <3>1, <3>2 DEF InboxInit, InboxTypeOK
  <2>2. UnreadKeepsBadge
    BY DEF InboxInit, UnreadKeepsBadge
  <2>3. ~request.clear
    BY DEF InboxInit, NoRequest
  <2> QED
    BY <2>1, <2>2, <2>3 DEF InboxIInv
<1> QED
  BY <1>1, InboxStep, PTL DEF InboxSpec

\* The rows of alerts, the badge and the request under way keep their types.
THEOREM InboxTypes == InboxSpec => []InboxTypeOK
<1>1. InboxIInv => InboxTypeOK
  BY DEF InboxIInv
<1> QED
  BY <1>1, InboxInvariant, PTL

\* In every state, an unread alert that came in since the badge was last dismissed
\* keeps it lit, whatever the routes read, delete and filter meanwhile, unless the
\* write of the badge failed or the alert fell between the two writes of a request.
THEOREM BadgeStaysLit == InboxSpec => []UnreadKeepsBadge
<1>1. InboxIInv => UnreadKeepsBadge
  BY DEF InboxIInv
<1> QED
  BY <1>1, InboxInvariant, PTL

-----------------------------------------------------------------------------
(* The finding detectors *)

FindingStates == {"never", "active", "resolved"}

\* The type invariant with the records spelled out: a pass with something left to
\* do is a pass of a detector.
FindingRows ==
    /\ cached \in [FindingIps -> CacheValues]
    /\ capable \subseteq FindingIps /\ public \subseteq FindingIps /\ reachable \subseteq FindingIps
    /\ finding \in [FindingTypes -> [Devices -> FindingStates]]
    /\ news \in [FindingTypes -> [Devices -> BOOLEAN]]
    /\ pass \in [type : FindingTypes \cup {"none"}, todo : SUBSET FindingIps]
    /\ pass.todo # {} => pass.type \in FindingTypes
    /\ changes \in 0..MaxChanges

\* A finding is settled when inspecting its address once more would leave it.
Settled(t, ip) ==
    Speaks(t, ip) =>
        FindingRow(finding[t][DeviceOf[ip]], Weak(t, ip)) = finding[t][DeviceOf[ip]]

Alone(ip) == \A k \in FindingIps : DeviceOf[k] = DeviceOf[ip] => k = ip

\* What makes AlertsNeedNews true: once a finding of a device with one address has
\* been written, and until something about the device changes, it is settled.
FindingsIInv ==
    /\ FindingRows
    /\ \A t \in FindingTypes, ip \in FindingIps :
          Alone(ip) /\ news[t][DeviceOf[ip]] = FALSE => Settled(t, ip)

\* A device with exactly one address is that of an address that is alone.
LEMMA OneAddressIsAlone ==
  ASSUME NEW ip \in FindingIps, Cardinality(AddressesOf(DeviceOf[ip])) = 1
  PROVE  Alone(ip)
<1>1. IsFiniteSet(AddressesOf(DeviceOf[ip]))
  <2>1. AddressesOf(DeviceOf[ip]) \subseteq FindingIps
    BY DEF AddressesOf
  <2> QED
    BY <2>1, FindingsAssumption, FS_Subset
<1>2. PICK k : AddressesOf(DeviceOf[ip]) = {k}
  BY <1>1, FS_Singleton
<1> QED
  BY <1>2 DEF AddressesOf, Alone

\* FindingRow() writes one of the three states, and is idempotent.
LEMMA RowSettles ==
  ASSUME NEW was \in FindingStates, NEW weak
  PROVE  /\ FindingRow(was, weak) \in FindingStates
         /\ FindingRow(FindingRow(was, weak), weak) = FindingRow(was, weak)
  BY DEF FindingRow, FindingStates

\* What changes about an address concerns its device alone.
LEMMA ChangeIsNews ==
  ASSUME FindingsIInv, FindingRows', NEW ip \in FindingIps, Changed(ip),
         \A k \in FindingIps \ {ip} : /\ cached'[k] = cached[k]
                                      /\ k \in public' <=> k \in public
                                      /\ k \in reachable' <=> k \in reachable
  PROVE  FindingsIInv'
<1> SUFFICES ASSUME NEW t \in FindingTypes, NEW k \in FindingIps,
                    Alone(k), news'[t][DeviceOf[k]] = FALSE
             PROVE  Settled(t, k)'
  BY DEF FindingsIInv, Alone
<1>1. /\ finding' = finding
      /\ news' = [u \in FindingTypes |-> [news[u] EXCEPT ![DeviceOf[ip]] = TRUE]]
  BY DEF Changed
<1>2. DeviceOf[k] \in Devices /\ DeviceOf[ip] \in Devices
  BY DEF Devices
<1>3. news[t] \in [Devices -> BOOLEAN]
  BY DEF FindingsIInv, FindingRows
<1>4. DeviceOf[k] # DeviceOf[ip] /\ news[t][DeviceOf[k]] = FALSE
  BY <1>1, <1>2, <1>3
<1>5. k \in FindingIps \ {ip} /\ Settled(t, k)
  BY <1>4 DEF FindingsIInv
<1>6. /\ cached'[k] = cached[k]
      /\ k \in public' \cap reachable' <=> k \in public \cap reachable
  BY <1>5
<1>7. /\ Speaks(t, k)' <=> Speaks(t, k)
      /\ Weak(t, k)' <=> Weak(t, k)
  BY <1>6 DEF Speaks, Weak, FindingTypes
<1> QED
  BY <1>1, <1>5, <1>7 DEF Settled, FindingRow

\* Each change of what the detectors look at, as a change of one address.
LEMMA ObservedKept ==
  ASSUME FindingsIInv, NEW ip \in FindingIps,
         \/ \E v \in CacheValues : CredentialChanges(ip, v)
         \/ EngineSeen(ip) \/ AgentReconfigured(ip)
         \/ \E marked \in BOOLEAN : ReachabilityChanges(ip, marked)
  PROVE  FindingsIInv'
<1>1. Changed(ip)
  BY DEF CredentialChanges, EngineSeen, AgentReconfigured, ReachabilityChanges
<1>2. /\ cached' \in [FindingIps -> CacheValues]
      /\ capable' \subseteq FindingIps /\ public' \subseteq FindingIps
      /\ reachable' \subseteq FindingIps
  <2>1. \A v \in CacheValues : [cached EXCEPT ![ip] = v] \in [FindingIps -> CacheValues]
    BY DEF FindingsIInv, FindingRows
  <2>2. "dead" \in CacheValues
    BY DEF CacheValues
  <2> QED
    BY <2>1, <2>2 DEF FindingsIInv, FindingRows, CredentialChanges, EngineSeen,
        AgentReconfigured, ReachabilityChanges
<1>3. ASSUME NEW k \in FindingIps \ {ip}
      PROVE  /\ cached'[k] = cached[k]
             /\ k \in public' <=> k \in public
             /\ k \in reachable' <=> k \in reachable
  <2>1. \A v : [cached EXCEPT ![ip] = v][k] = cached[k]
    BY <1>3 DEF FindingsIInv, FindingRows
  <2> QED
    BY <1>3, <2>1 DEF CredentialChanges, EngineSeen, AgentReconfigured, ReachabilityChanges
<1>4. FindingRows'
  <2>1. news' \in [FindingTypes -> [Devices -> BOOLEAN]]
    BY <1>1 DEF FindingsIInv, FindingRows, Changed, Devices
  <2>2. changes' \in 0..MaxChanges /\ finding' = finding /\ pass' = pass
    BY <1>1, FindingsAssumption DEF FindingsIInv, FindingRows, Changed
  <2> QED
    BY <1>2, <2>1, <2>2 DEF FindingsIInv, FindingRows
<1> QED
  BY <1>1, <1>3, <1>4, ChangeIsNews

\* What an inspection writes: the row FindingRow() gives, where it differs.
LEMMA InspectWrites ==
  ASSUME FindingRows, NEW ip \in FindingIps, Inspect(ip)
  PROVE  /\ pass.type \in FindingTypes /\ UNCHANGED <<cached, capable, public, reachable, changes>>
         /\ \/ /\ Speaks(pass.type, ip)
               /\ finding' = [finding EXCEPT ![pass.type][DeviceOf[ip]] =
                    FindingRow(finding[pass.type][DeviceOf[ip]], Weak(pass.type, ip))]
               /\ FindingRow(finding[pass.type][DeviceOf[ip]], Weak(pass.type, ip))
                    # finding[pass.type][DeviceOf[ip]]
               /\ news' = [news EXCEPT ![pass.type][DeviceOf[ip]] = FALSE]
            \/ finding' = finding /\ news' = news
         /\ pass' = NoPass \/ pass' = [pass EXCEPT !.todo = @ \ {ip}]
<1>1. pass.todo # {}
  BY DEF Inspect
<1>2. pass.type \in FindingTypes
  BY <1>1 DEF FindingRows
<1> QED
  BY <1>2 DEF Inspect, FindingType, observed

\* Inspecting an address: the pass settles its device, and raises an alert only on news.
LEMMA InspectKept ==
  ASSUME FindingsIInv, NEW ip \in FindingIps, Inspect(ip)
  PROVE  FindingsIInv'
<1> DEFINE t == pass.type
           d == DeviceOf[ip]
           now == FindingRow(finding[t][d], Weak(t, ip))
<1>1. /\ t \in FindingTypes /\ d \in Devices
      /\ UNCHANGED <<cached, capable, public, reachable, changes>>
  BY InspectWrites DEF FindingsIInv, Devices
<1>2. /\ finding \in [FindingTypes -> [Devices -> FindingStates]]
      /\ news \in [FindingTypes -> [Devices -> BOOLEAN]]
  BY DEF FindingsIInv, FindingRows
<1>4. now \in FindingStates /\ FindingRow(now, Weak(t, ip)) = now
  BY <1>1, <1>2, RowSettles
<1>5. \/ /\ finding' = [finding EXCEPT ![t][d] = now]
         /\ news' = [news EXCEPT ![t][d] = FALSE]
      \/ finding' = finding /\ news' = news
  BY InspectWrites DEF FindingsIInv
<1>6. pass' \in [type : FindingTypes \cup {"none"}, todo : SUBSET FindingIps]
      /\ (pass'.todo # {} => pass'.type \in FindingTypes)
  <2>1. pass' = NoPass \/ pass' = [pass EXCEPT !.todo = @ \ {ip}]
    BY InspectWrites DEF FindingsIInv
  <2>2. pass \in [type : FindingTypes \cup {"none"}, todo : SUBSET FindingIps]
    BY DEF FindingsIInv, FindingRows
  <2> QED
    BY <1>1, <2>1, <2>2 DEF NoPass
<1> HIDE DEF t, d, now
<1>7. FindingRows'
  <2>1. finding' \in [FindingTypes -> [Devices -> FindingStates]]
    <3>1. t \in FindingTypes /\ d \in Devices
      BY <1>1
    <3>2. [finding EXCEPT ![t][d] = now] \in [FindingTypes -> [Devices -> FindingStates]]
      BY <1>2, <1>4, <3>1
    <3> QED
      BY <1>2, <1>5, <3>2
  <2>2. news' \in [FindingTypes -> [Devices -> BOOLEAN]]
    <3>1. t \in FindingTypes /\ d \in Devices
      BY <1>1
    <3>2. [news EXCEPT ![t][d] = FALSE] \in [FindingTypes -> [Devices -> BOOLEAN]]
      BY <1>2, <3>1
    <3> QED
      BY <1>2, <1>5, <3>2
  <2> QED
    BY <1>1, <1>6, <2>1, <2>2 DEF FindingsIInv, FindingRows
<1>8. ASSUME NEW u \in FindingTypes, NEW k \in FindingIps,
             Alone(k), news'[u][DeviceOf[k]] = FALSE
      PROVE  Settled(u, k)'
  <2>1. DeviceOf[k] \in Devices
    BY DEF Devices
  <2>2. CASE finding' = finding /\ news' = news
    <3>1. Settled(u, k)
      BY <1>8, <2>2 DEF FindingsIInv
    <3>2. /\ Speaks(u, k)' <=> Speaks(u, k)
          /\ Weak(u, k)' <=> Weak(u, k)
      BY <1>1 DEF Speaks, Weak, FindingTypes
    <3> QED
      BY <2>2, <3>1, <3>2 DEF Settled, FindingRow
  <2>3. CASE /\ finding' = [finding EXCEPT ![t][d] = now]
             /\ news' = [news EXCEPT ![t][d] = FALSE]
    <3>1. CASE u = t /\ DeviceOf[k] = d
      <4>1. k = ip
        BY <1>8, <3>1 DEF Alone, d
      <4>2. finding'[u][DeviceOf[k]] = now
        BY <1>1, <1>2, <2>3, <3>1
      <4>3. Weak(u, k)' <=> Weak(t, ip)
        BY <1>1, <3>1, <4>1 DEF Weak, FindingTypes
      <4> QED
        BY <1>4, <4>2, <4>3 DEF Settled, FindingRow
    <3>2. CASE ~(u = t /\ DeviceOf[k] = d)
      <4>1. /\ finding'[u][DeviceOf[k]] = finding[u][DeviceOf[k]]
            /\ news'[u][DeviceOf[k]] = news[u][DeviceOf[k]]
        BY <1>1, <1>2, <2>1, <2>3, <3>2
      <4>2. Settled(u, k)
        BY <1>8, <4>1 DEF FindingsIInv
      <4>3. /\ Speaks(u, k)' <=> Speaks(u, k)
            /\ Weak(u, k)' <=> Weak(u, k)
        BY <1>1 DEF Speaks, Weak, FindingTypes
      <4> QED
        BY <4>1, <4>2, <4>3 DEF Settled, FindingRow
    <3> QED
      BY <3>1, <3>2
  <2> QED
    BY <1>5, <2>2, <2>3
<1> QED
  BY <1>7, <1>8 DEF FindingsIInv, Alone

\* The history may forget a resolved finding, and what is settled stays settled.
LEMMA PruneKept ==
  ASSUME FindingsIInv, PruneFindings
  PROVE  FindingsIInv'
<1>1. /\ finding' = [t \in FindingTypes |-> [d \in Devices |->
                       IF finding[t][d] = "resolved" THEN "never" ELSE finding[t][d]]]
      /\ UNCHANGED <<cached, capable, public, reachable, pass, news, changes>>
  BY DEF PruneFindings, observed
<1>2. finding \in [FindingTypes -> [Devices -> FindingStates]]
  BY DEF FindingsIInv, FindingRows
<1>3. FindingRows'
  <2>1. finding' \in [FindingTypes -> [Devices -> FindingStates]]
    BY <1>1, <1>2 DEF FindingStates
  <2> QED
    BY <1>1, <2>1 DEF FindingsIInv, FindingRows
<1>4. ASSUME NEW t \in FindingTypes, NEW ip \in FindingIps,
             Alone(ip), news'[t][DeviceOf[ip]] = FALSE
      PROVE  Settled(t, ip)'
  <2>1. DeviceOf[ip] \in Devices
    BY DEF Devices
  <2>2. Settled(t, ip)
    BY <1>1, <1>4 DEF FindingsIInv
  <2>3. finding'[t][DeviceOf[ip]] = IF finding[t][DeviceOf[ip]] = "resolved"
                                    THEN "never" ELSE finding[t][DeviceOf[ip]]
    BY <1>1, <2>1
  <2>4. /\ Speaks(t, ip)' <=> Speaks(t, ip)
        /\ Weak(t, ip)' <=> Weak(t, ip)
    BY <1>1 DEF Speaks, Weak, FindingTypes
  <2> QED
    BY <2>2, <2>3, <2>4 DEF Settled, FindingRow
<1> QED
  BY <1>3, <1>4 DEF FindingsIInv, Alone

\* The steps that only begin or end a pass.
LEMMA PassKept ==
  ASSUME FindingsIInv, UNCHANGED <<cached, capable, public, reachable, finding, news, changes>>,
         \/ pass' \in {pass, NoPass}
         \/ \E t \in FindingTypes : pass' = [type |-> t, todo |-> Listed(t)]
  PROVE  FindingsIInv'
<1>1. \A t \in FindingTypes : Listed(t) \subseteq FindingIps
  BY DEF Listed, FindingTypes, FindingsIInv, FindingRows
<1>2. /\ pass' \in [type : FindingTypes \cup {"none"}, todo : SUBSET FindingIps]
      /\ (pass'.todo # {} => pass'.type \in FindingTypes)
  BY <1>1 DEF FindingsIInv, FindingRows, NoPass
<1>3. FindingRows'
  BY <1>2 DEF FindingsIInv, FindingRows
<1>4. ASSUME NEW t \in FindingTypes, NEW ip \in FindingIps,
             Alone(ip), news'[t][DeviceOf[ip]] = FALSE
      PROVE  Settled(t, ip)'
  <2>1. Settled(t, ip)
    BY <1>4 DEF FindingsIInv
  <2>2. /\ Speaks(t, ip)' <=> Speaks(t, ip)
        /\ Weak(t, ip)' <=> Weak(t, ip)
    BY DEF Speaks, Weak, FindingTypes
  <2> QED
    BY <2>1, <2>2 DEF Settled, FindingRow
<1> QED
  BY <1>3, <1>4 DEF FindingsIInv, Alone

\* The other steps change what the pass will see, or where it stands.
LEMMA FindingsStep == FindingsIInv /\ [FindingsNext]_findingVars => FindingsIInv'
<1> SUFFICES ASSUME FindingsIInv, [FindingsNext]_findingVars PROVE FindingsIInv'
  OBVIOUS
<1>1. ASSUME NEW ip \in FindingIps,
             \/ \E v \in CacheValues : CredentialChanges(ip, v)
             \/ EngineSeen(ip) \/ AgentReconfigured(ip)
             \/ \E marked \in BOOLEAN : ReachabilityChanges(ip, marked)
      PROVE  FindingsIInv'
  BY <1>1, ObservedKept
<1>2. ASSUME NEW ip \in FindingIps, Inspect(ip) PROVE FindingsIInv'
  BY <1>2, InspectKept
<1>3. CASE PruneFindings
  BY <1>3, PruneKept
<1>4. ASSUME NEW t \in FindingTypes, BeginDetector(t) PROVE FindingsIInv'
  <2>1. /\ UNCHANGED <<cached, capable, public, reachable, finding, news, changes>>
        /\ pass' = NoPass \/ pass' = [type |-> t, todo |-> Listed(t)]
    BY <1>4 DEF BeginDetector, observed
  <2> QED
    BY <2>1, PassKept
<1>5. CASE DetectorRaises \/ UNCHANGED findingVars
  <2>1. /\ UNCHANGED <<cached, capable, public, reachable, finding, news, changes>>
        /\ pass' \in {pass, NoPass}
    BY <1>5 DEF DetectorRaises, findingVars, observed
  <2> QED
    BY <2>1, PassKept
<1> QED
  BY <1>1, <1>2, <1>3, <1>4, <1>5 DEF FindingsNext

\* Hence the invariant of the findings holds in every state.
LEMMA FindingsInvariant == FindingsSpec => []FindingsIInv
<1>1. FindingsInit => FindingsIInv
  <2> SUFFICES ASSUME FindingsInit PROVE FindingsIInv
    OBVIOUS
  <2>1. NoPass \in [type : FindingTypes \cup {"none"}, todo : SUBSET FindingIps]
        /\ NoPass.todo = {}
    BY DEF NoPass
  <2>2. 0 \in 0..MaxChanges
    BY FindingsAssumption
  <2>3. FindingRows
    BY <2>1, <2>2 DEF FindingsInit, FindingRows, FindingStates, CacheValues
  <2>4. \A t \in FindingTypes, ip \in FindingIps : news[t][DeviceOf[ip]] = TRUE
    BY DEF FindingsInit, Devices
  <2> QED
    BY <2>3, <2>4 DEF FindingsIInv
<1> QED
  BY <1>1, FindingsStep, PTL DEF FindingsSpec

\* The credential cache, the findings and the detector under way keep their types.
THEOREM FindingsTypes == FindingsSpec => []FindingsTypeOK
<1>1. FindingsIInv => FindingsTypeOK
  BY DEF FindingsIInv, FindingRows, FindingsTypeOK, FindingStates
<1> QED
  BY <1>1, FindingsInvariant, PTL

\* In every behaviour, a device with one address raises no second alert of a kind
\* before something about it has changed: whatever the order of the passes, their
\* failures and the pruning, no detector undoes what another one found.
THEOREM NoAlertWithoutNews == FindingsSpec => AlertsNeedNews
<1>1. ASSUME FindingsIInv, [FindingsNext]_findingVars, NEW t \in FindingTypes, NEW d \in Devices,
             Alerted(t, d), Cardinality(AddressesOf(d)) = 1
      PROVE  news[t][d]
  <2>1. finding'[t][d] # finding[t][d] /\ finding'[t][d] # "never"
    BY <1>1 DEF Alerted
  <2>2. finding \in [FindingTypes -> [Devices -> FindingStates]]
    BY <1>1 DEF FindingsIInv, FindingRows
  <2>3. PICK ip \in FindingIps : Inspect(ip)
    <3>1. ~UNCHANGED finding
      BY <2>1
    <3>2. ~PruneFindings
      BY <1>1, <2>1, <2>2 DEF PruneFindings
    <3> QED
      BY <1>1, <3>1, <3>2 DEF FindingsNext, findingVars, CredentialChanges, EngineSeen,
          AgentReconfigured, ReachabilityChanges, Changed, BeginDetector, DetectorRaises
  <2>4. /\ t = pass.type /\ d = DeviceOf[ip] /\ Speaks(t, ip)
        /\ FindingRow(finding[t][d], Weak(t, ip)) # finding[t][d]
    <3>1. /\ Speaks(pass.type, ip)
          /\ finding' = [finding EXCEPT ![pass.type][DeviceOf[ip]] =
               FindingRow(finding[pass.type][DeviceOf[ip]], Weak(pass.type, ip))]
          /\ FindingRow(finding[pass.type][DeviceOf[ip]], Weak(pass.type, ip))
               # finding[pass.type][DeviceOf[ip]]
      BY <1>1, <2>1, <2>3, InspectWrites DEF FindingsIInv
    <3>2. pass.type = t /\ DeviceOf[ip] = d
      BY <1>1, <2>1, <2>2, <3>1
    <3> QED
      BY <3>1, <3>2
  <2>5. ~Settled(t, ip) /\ Alone(ip)
    BY <1>1, <2>4, OneAddressIsAlone DEF Settled
  <2>6. news[t][d] # FALSE /\ news[t][d] \in BOOLEAN
    BY <1>1, <2>4, <2>5 DEF FindingsIInv, FindingRows
  <2> QED
    BY <2>6
<1>2. FindingsIInv /\ [FindingsNext]_findingVars =>
        \A t \in FindingTypes, d \in Devices :
           Alerted(t, d) /\ Cardinality(AddressesOf(d)) = 1 => news[t][d]
  BY <1>1
<1> QED
  BY <1>2, FindingsInvariant, PTL DEF FindingsSpec, AlertsNeedNews

-----------------------------------------------------------------------------
(* The credential vault *)

\* As long as no two processes have been between their second look and their
\* os.replace() at once, the key in the file is the only one there is: a process
\* that still means to install one is alone before an empty place, and nothing has
\* been encrypted by then.
OneVaultKey ==
    ~overtaken =>
        /\ \A p \in VaultUsers : fernet[p] \in {0, keyFile}
        /\ cleared # {} => keyFile = 0
        /\ keyFile = 0 => passwords \subseteq {<<>>}
        /\ \A w \in passwords : w \in {<<>>, <<keyFile>>}

VaultIInv == VaultTypeOK /\ OneVaultKey

\* What the steps of the processes leave of the types.
LEMMA VaultTypesKept == VaultTypeOK /\ [VaultNext]_vaultVars => VaultTypeOK'
<1> SUFFICES ASSUME VaultTypeOK, [VaultNext]_vaultVars PROVE VaultTypeOK'
  OBVIOUS
<1> USE VaultBounds DEF VaultTypeOK
<1>1. ASSUME NEW p \in VaultUsers, FindKey(p) PROVE VaultTypeOK'
  BY <1>1 DEF FindKey, Adopt
<1>2. ASSUME NEW p \in VaultUsers, GenerateKey(p) PROVE VaultTypeOK'
  <2>1. vaultKeys' \in 1..MaxVaultKeys
    BY <1>2 DEF GenerateKey
  <2>2. /\ made' \in [VaultUsers -> 0..MaxVaultKeys]
        /\ cleared' \subseteq {q \in VaultUsers : made'[q] # 0}
    BY <1>2, <2>1 DEF GenerateKey
  <2> QED
    BY <1>2, <2>1, <2>2 DEF GenerateKey
<1>3. ASSUME NEW p \in VaultUsers, LookAgain(p) PROVE VaultTypeOK'
  <2>1. CASE fernet' = [fernet EXCEPT ![p] = keyFile]
    BY <1>3 DEF LookAgain, Adopt
  <2>2. CASE UNCHANGED <<fernet, made>> /\ cleared' = cleared \cup {p}
    BY <1>3, <2>2 DEF LookAgain
  <2> QED
    BY <1>3, <2>1, <2>2 DEF LookAgain, Adopt
<1>4. ASSUME NEW p \in VaultUsers, InstallKey(p) PROVE VaultTypeOK'
  <2>1. /\ keyFile' \in 0..MaxVaultKeys
        /\ fernet' \in [VaultUsers -> 0..MaxVaultKeys]
        /\ made' \in [VaultUsers -> 0..MaxVaultKeys]
        /\ cleared' \subseteq {q \in VaultUsers : made'[q] # 0}
    BY <1>4 DEF InstallKey
  <2>2. UNCHANGED <<passwords, vaultKeys, vaultCrashes>>
    BY <1>4 DEF InstallKey
  <2>3. overtaken' \in BOOLEAN
    BY <1>4 DEF InstallKey
  <2> QED
    BY <2>1, <2>2, <2>3
<1>5. ASSUME NEW p \in VaultUsers, VaultCrash(p) PROVE VaultTypeOK'
  BY <1>5 DEF VaultCrash
<1>6. CASE AddIdentity
  <2>1. <<fernet["api"]>> \in Seq(1..MaxVaultKeys)
    BY <1>6 DEF AddIdentity, VaultUsers
  <2> QED
    BY <1>6, <2>1 DEF AddIdentity
<1>7. CASE DeleteIdentity
  BY <1>7 DEF DeleteIdentity
<1>8. CASE SelfHeal
  <2>1. fernet["core"] \in 1..MaxVaultKeys
    BY <1>8 DEF SelfHeal, VaultUsers
  <2>2. \A w \in passwords : Append(w, fernet["core"]) \in Seq(1..MaxVaultKeys)
    BY <2>1
  <2>3. \A w \in passwords' : w \in Seq(1..MaxVaultKeys)
    BY <1>8, <2>2 DEF SelfHeal
  <2> QED
    BY <1>8, <2>3 DEF SelfHeal
<1>9. CASE UNCHANGED vaultVars
  BY <1>9 DEF vaultVars
<1> QED
  BY <1>1, <1>2, <1>3, <1>4, <1>5, <1>6, <1>7, <1>8, <1>9 DEF VaultNext

\* While nobody has overtaken a key, every step leaves one key for all that is stored.
LEMMA VaultStep == VaultIInv /\ [VaultNext]_vaultVars => VaultIInv'
<1> SUFFICES ASSUME VaultIInv, [VaultNext]_vaultVars PROVE VaultIInv'
  OBVIOUS
<1>0. VaultTypeOK'
  BY VaultTypesKept DEF VaultIInv
<1>1. SUFFICES ASSUME overtaken' = FALSE PROVE OneVaultKey'
  BY <1>0 DEF VaultIInv, VaultTypeOK, OneVaultKey
<1>2. ASSUME overtaken = FALSE, NEW p \in VaultUsers, InstallKey(p) PROVE OneVaultKey'
  <2>1. cleared = {p} /\ cleared' = {}
    BY <1>1, <1>2 DEF InstallKey
  <2>2. keyFile = 0 /\ passwords \subseteq {<<>>} /\ \A q \in VaultUsers : fernet[q] = 0
    BY <1>2, <2>1 DEF VaultIInv, OneVaultKey
  <2>3. keyFile' = made[p] /\ made[p] # 0 /\ fernet' = [fernet EXCEPT ![p] = made[p]]
        /\ passwords' = passwords
    BY <1>2, <2>1 DEF InstallKey, VaultIInv, VaultTypeOK
  <2>4. \A q \in VaultUsers : fernet'[q] \in {0, keyFile'}
    BY <2>2, <2>3 DEF VaultIInv, VaultTypeOK
  <2> QED
    BY <2>1, <2>2, <2>3, <2>4 DEF OneVaultKey
<1>3. CASE overtaken' = overtaken
  <2> DEFINE Fernets == \A q \in VaultUsers : fernet[q] \in {0, keyFile}
             Alone1 == cleared # {} => keyFile = 0
             Plain == keyFile = 0 => passwords \subseteq {<<>>}
             Under == \A w \in passwords : w \in {<<>>, <<keyFile>>}
  <2>1. Fernets /\ Alone1 /\ Plain /\ Under
    BY <1>1, <1>3 DEF VaultIInv, OneVaultKey
  <2>2. ASSUME NEW p \in VaultUsers, FindKey(p) \/ GenerateKey(p) \/ LookAgain(p) \/ VaultCrash(p)
        PROVE  OneVaultKey'
    <3>1. keyFile' = keyFile /\ passwords' = passwords
      BY <2>2 DEF FindKey, GenerateKey, LookAgain, VaultCrash
    <3>2. \A q \in VaultUsers : fernet'[q] \in {0, fernet[q], keyFile}
      BY <2>2 DEF VaultIInv, VaultTypeOK, FindKey, GenerateKey, LookAgain, VaultCrash, Adopt
    <3>3. cleared' \subseteq cleared \/ keyFile = 0
      BY <2>2 DEF FindKey, GenerateKey, LookAgain, VaultCrash
    <3> QED
      BY <2>1, <3>1, <3>2, <3>3 DEF OneVaultKey
  <2>3. CASE AddIdentity
    <3>1. fernet["api"] = keyFile /\ keyFile # 0
      BY <2>1, <2>3 DEF AddIdentity, VaultUsers
    <3> QED
      BY <2>1, <2>3, <3>1 DEF AddIdentity, OneVaultKey
  <2>4. CASE DeleteIdentity
    BY <2>1, <2>4 DEF DeleteIdentity, OneVaultKey
  <2>5. CASE SelfHeal
    <3>1. fernet["core"] = keyFile /\ keyFile # 0
      BY <2>1, <2>5 DEF SelfHeal, VaultUsers
    <3>2. PICK w \in passwords : /\ ~IsEncrypted(w, keyFile)
                                 /\ passwords' = {Append(w, keyFile)}
      BY <2>5, <3>1 DEF SelfHeal
    <3>3. w = <<>>
      <4>1. IsEncrypted(<<keyFile>>, keyFile)
        BY DEF IsEncrypted
      <4> QED
        BY <2>1, <3>2, <4>1
    <3>4. passwords' = {<<keyFile>>}
      BY <3>2, <3>3
    <3> QED
      BY <2>1, <2>5, <3>1, <3>4 DEF SelfHeal, OneVaultKey
  <2>6. CASE UNCHANGED vaultVars
    BY <2>1, <2>6 DEF vaultVars, OneVaultKey
  <2>7. ASSUME NEW p \in VaultUsers, InstallKey(p) PROVE OneVaultKey'
    BY <1>1, <1>2, <1>3, <2>7
  <2> QED
    BY <2>2, <2>3, <2>4, <2>5, <2>6, <2>7 DEF VaultNext
<1>4. CASE overtaken' # overtaken
  <2>1. PICK p \in VaultUsers : InstallKey(p)
    BY <1>4 DEF VaultNext, vaultVars, AddIdentity, DeleteIdentity, SelfHeal, FindKey,
                GenerateKey, LookAgain, VaultCrash
  <2>2. overtaken = FALSE
    BY <1>1, <2>1 DEF InstallKey, VaultIInv, VaultTypeOK
  <2> QED
    BY <1>2, <2>1, <2>2
<1> QED
  BY <1>3, <1>4

\* Hence the invariant of the vault holds in every state.
LEMMA VaultInvariant == VaultSpec => []VaultIInv
<1>1. VaultInit => VaultIInv
  <2> SUFFICES ASSUME VaultInit PROVE VaultIInv
    OBVIOUS
  <2>1. <<>> \in Seq(1..MaxVaultKeys)
    OBVIOUS
  <2>2. VaultTypeOK
    <3>1. \A w \in passwords : w \in Seq(1..MaxVaultKeys)
      BY <2>1 DEF VaultInit
    <3>2. 0 \in 0..MaxVaultKeys /\ 0 \in 0..MaxVaultCrashes
      BY VaultBounds
    <3> QED
      BY <3>1, <3>2 DEF VaultInit, VaultTypeOK
  <2>3. OneVaultKey
    BY DEF VaultInit, OneVaultKey
  <2> QED
    BY <2>2, <2>3 DEF VaultIInv
<1> QED
  BY <1>1, VaultStep, PTL DEF VaultSpec

\* The keys, the processes that hold them and the passwords keep their types.
THEOREM VaultTypes == VaultSpec => []VaultTypeOK
<1>1. VaultIInv => VaultTypeOK
  BY DEF VaultIInv
<1> QED
  BY <1>1, VaultInvariant, PTL

\* In every state, whatever the order in which the two processes start, crash and
\* first need the key, every password at rest is plaintext or encrypted exactly
\* once under the key in the file, unless both were past their second look at once.
THEOREM SecretsStayReadable == VaultSpec => []SecretsReadable
<1>1. VaultIInv => SecretsReadable
  BY DEF VaultIInv, OneVaultKey, SecretsReadable
<1> QED
  BY <1>1, VaultInvariant, PTL

-----------------------------------------------------------------------------
(* The appliance *)

\* The stages of a boot that has read the toggle and not yet ended.
Listening == {"certifying", "issuing", "identifying", "serving"}

\* The interface of a native boot follows the toggle from the moment it is read,
\* and only while requests are answered can the toggle move on, with a RESTART.
Followed ==
    native /\ stage \in Listening => bound = choice \/ restart \/ (fellBack /\ ~bound)

\* Between the key of a new TLS pair and its certificate the reason for the pair
\* stands, and no certificate is older than the first key.
Reason ==
    /\ tlsKey = 0 => cert = NoCert
    /\ stage = "issuing" => tlsKey # 0 /\ (cert = NoCert \/ cert.due = TRUE \/ Drifted)

ApplianceIInv == ApplianceTypeOK /\ Followed /\ Reason

\* The type invariant in parts.
Places ==
    /\ native \in BOOLEAN /\ stage \in Stages
    /\ seen \subseteq HostAddrs /\ published \subseteq HostAddrs
    /\ lan \in HostAddrs /\ own \in OwnAddrs
    /\ choice \in BOOLEAN /\ bound \in BOOLEAN /\ fellBack \in BOOLEAN /\ restart \in BOOLEAN
    /\ falls \in 0..MaxFalls /\ moves \in 0..MaxMoves

Pair ==
    /\ tlsKey \in 0..MaxIssued
    /\ cert \in [pair : 0..MaxIssued, sans : SUBSET (HostAddrs \cup OwnAddrs), due : BOOLEAN]

Identity == device \in [file : 0..Torn, row : 0..MaxIssued]

\* The parts make up the whole.
LEMMA ApplianceTypeParts == ApplianceTypeOK <=> Places /\ Pair /\ Identity
  BY DEF ApplianceTypeOK, Places, Pair, Identity

\* There is always another identity key.
LEMMA NewKeyFound ==
  ASSUME Identity
  PROVE  NewKeypair \in 1..MaxIssued
<1>1. 1 \in 1..MaxIssued /\ 2 \in 1..MaxIssued /\ 3 \in 1..MaxIssued
  BY ApplianceBounds
<1>2. \E n \in 1..MaxIssued : n \notin {device.file, device.row}
  BY <1>1
<1> QED
  BY <1>2 DEF NewKeypair

\* A key that loads is kept by every step.
LEMMA IdentityStep ==
  ASSUME Identity, [ApplianceNext]_applianceVars
  PROVE  Identity' /\ (Readable => device'.file = device.file)
<1>1. CASE Identify
  <2>1. PICK k, r : /\ k = IF Readable THEN device.file ELSE NewKeypair
                    /\ r \in {device.row, k} /\ device' = [file |-> k, row |-> r]
    BY <1>1 DEF Identify
  <2>2. k \in 1..MaxIssued
    BY <2>1, NewKeyFound DEF Readable
  <2>3. k \in 0..Torn /\ k \in 0..MaxIssued
    BY <2>2, ApplianceBounds DEF Torn
  <2> QED
    BY <2>1, <2>3 DEF Identity
<1>2. CASE Fall
  <2>1. device' = device \/ (device' = [device EXCEPT !.file = Torn] /\ ~Readable)
    BY <1>2 DEF Fall
  <2>2. Torn \in 0..Torn
    BY ApplianceBounds DEF Torn
  <2> QED
    BY <2>1, <2>2 DEF Identity
<1>3. CASE UNCHANGED device
  BY <1>3 DEF Identity
<1> QED
  BY <1>1, <1>2, <1>3 DEF ApplianceNext, applianceVars, Files, Start, ReadAddresses,
      KeepCertificate, IssueKey, IssueCert, SetRemoteAccess, RestartEngine, TakeRestart,
      Rebuild, PublishHostIdentity, WorldMoves

\* What a step may do to the TLS pair.
LEMMA PairStep ==
  ASSUME ApplianceIInv, [ApplianceNext]_applianceVars
  PROVE  /\ Pair'
         /\ (tlsKey = 0 => cert = NoCert)'
         /\ cert'.pair # cert.pair /\ cert # NoCert /\ ~cert.due
               => (cert'.sans \ cert.sans) \cap HostAddrs # {}
<1>0. Places /\ Pair /\ Reason
  BY ApplianceTypeParts DEF ApplianceIInv
<1>1. CASE IssueKey
  <2>1. tlsKey' = tlsKey + 1 /\ tlsKey < MaxIssued /\ cert' = cert
    BY <1>1 DEF IssueKey
  <2> QED
    BY <1>0, <2>1, ApplianceBounds DEF Pair
<1>2. CASE IssueCert
  <2>1. /\ cert' = [pair |-> tlsKey, sans |-> DesiredSans, due |-> FALSE]
        /\ tlsKey' = tlsKey /\ stage = "issuing"
    BY <1>2 DEF IssueCert
  <2>2. DesiredSans \subseteq HostAddrs \cup OwnAddrs
    BY <1>0 DEF DesiredSans, Self, Places
  <2>3. Pair'
    BY <1>0, <2>1, <2>2 DEF Pair
  <2>4. tlsKey' = 0 => cert' = NoCert
    BY <1>0, <2>1 DEF Reason
  <2>5. ASSUME cert # NoCert, ~cert.due PROVE (cert'.sans \ cert.sans) \cap HostAddrs # {}
    <3>1. Drifted
      BY <1>0, <2>1, <2>5 DEF Reason
    <3>2. PICK a \in seen : a \notin cert.sans
      BY <3>1 DEF Drifted
    <3>3. a \in HostAddrs /\ a \in cert'.sans
      BY <1>0, <2>1, <3>2 DEF Places, DesiredSans
    <3> QED
      BY <3>2, <3>3
  <2> QED
    BY <2>3, <2>4, <2>5
<1>3. CASE WorldMoves
  <2>1. tlsKey' = tlsKey /\ (cert' = cert \/ (cert' = [cert EXCEPT !.due = TRUE] /\ cert # NoCert))
    BY <1>3 DEF WorldMoves
  <2>2. Pair' /\ cert'.pair = cert.pair
    BY <1>0, <2>1 DEF Pair
  <2> QED
    BY <1>0, <2>1, <2>2 DEF Reason
<1>4. CASE UNCHANGED <<tlsKey, cert>>
  BY <1>0, <1>4 DEF Pair, Reason
<1> QED
  BY <1>1, <1>2, <1>3, <1>4 DEF ApplianceNext, applianceVars, Files, Start, ReadAddresses,
      KeepCertificate, Identify, SetRemoteAccess, RestartEngine, TakeRestart,
      Rebuild, Fall, PublishHostIdentity

\* The stages of a boot, the addresses and the files stay what they are.
LEMMA PlacesStep ==
  ASSUME Places, [ApplianceNext]_applianceVars
  PROVE  Places'
<1> USE DEF Places, Env, Files, Bind, Stages
<1>1. CASE Start \/ TakeRestart \/ Rebuild
  BY <1>1 DEF Start, TakeRestart, Rebuild
<1>2. CASE ReadAddresses
  <2>1. seen' \subseteq HostAddrs
    BY <1>2 DEF ReadAddresses, AddressesGiven
  <2>2. fellBack' \in BOOLEAN /\ bound' \in BOOLEAN /\ stage' \in Stages
    BY <1>2 DEF ReadAddresses
  <2>3. UNCHANGED <<native, lan, published, falls, moves, own, choice, restart>>
    BY <1>2 DEF ReadAddresses
  <2> QED
    BY <2>1, <2>2, <2>3
<1>3. CASE KeepCertificate \/ IssueKey \/ IssueCert
  BY <1>3 DEF KeepCertificate, IssueKey, IssueCert
<1>4. CASE Identify
  BY <1>4 DEF Identify
<1>5. CASE RestartEngine \/ PublishHostIdentity
  BY <1>5 DEF RestartEngine, PublishHostIdentity
<1>6. CASE SetRemoteAccess
  <2>1. moves' \in 0..MaxMoves
    BY <1>6, ApplianceBounds DEF SetRemoteAccess
  <2> QED
    BY <1>6, <2>1 DEF SetRemoteAccess
<1>7. CASE Fall
  <2>1. falls' \in 0..MaxFalls
    BY <1>7, ApplianceBounds DEF Fall
  <2> QED
    BY <1>7, <2>1 DEF Fall
<1>8. CASE WorldMoves
  <2>1. moves' \in 0..MaxMoves /\ lan' \in HostAddrs
    BY <1>8, ApplianceBounds DEF WorldMoves
  <2> QED
    BY <1>8, <2>1 DEF WorldMoves
<1>9. CASE UNCHANGED applianceVars
  BY <1>9 DEF applianceVars
<1> QED
  BY <1>1, <1>2, <1>3, <1>4, <1>5, <1>6, <1>7, <1>8, <1>9 DEF ApplianceNext

\* Every boot follows the toggle it has read, and a change of it asks for another boot.
LEMMA FollowedStep ==
  ASSUME Places, Followed, [ApplianceNext]_applianceVars
  PROVE  Followed'
<1>1. CASE ReadAddresses
  <2>1. /\ native' = native /\ choice' = choice
        /\ bound' = (native => choice /\ ~fellBack')
    BY <1>1 DEF ReadAddresses, Env
  <2> QED
    BY <2>1 DEF Followed, Places
<1>2. CASE SetRemoteAccess \/ RestartEngine
  BY <1>2 DEF Followed, SetRemoteAccess, RestartEngine
<1>3. CASE Start \/ TakeRestart \/ Rebuild \/ Fall
  <2>1. stage' \notin Listening
    BY <1>3 DEF Start, TakeRestart, Rebuild, Fall, Listening
  <2> QED
    BY <2>1 DEF Followed
<1>4. CASE \/ KeepCertificate \/ IssueKey \/ IssueCert
           \/ PublishHostIdentity \/ WorldMoves \/ UNCHANGED applianceVars
  <2>1. /\ UNCHANGED <<native, choice, bound, fellBack, restart>>
        /\ stage' \in Listening => stage \in Listening
    BY <1>4 DEF KeepCertificate, IssueKey, IssueCert, PublishHostIdentity, WorldMoves,
                applianceVars, Env, Bind, Listening
  <2> QED
    BY <2>1 DEF Followed
<1>5. CASE Identify
  <2>1. /\ UNCHANGED <<native, choice, bound, fellBack>> /\ stage \in Listening
        /\ stage' \in Listening => restart' = restart
    BY <1>5 DEF Identify, Env, Bind, Listening
  <2> QED
    BY <2>1 DEF Followed
<1> QED
  BY <1>1, <1>2, <1>3, <1>4, <1>5 DEF ApplianceNext

\* A certificate is only issued for a reason, and the reason does not go away meanwhile.
LEMMA ReasonStep ==
  ASSUME ApplianceIInv, [ApplianceNext]_applianceVars
  PROVE  (stage = "issuing" => tlsKey # 0 /\ (cert = NoCert \/ cert.due = TRUE \/ Drifted))'
<1> SUFFICES ASSUME stage' = "issuing"
             PROVE  tlsKey' # 0 /\ (cert' = NoCert \/ cert'.due = TRUE \/ Drifted')
  OBVIOUS
<1>0. Pair /\ Reason
  BY ApplianceTypeParts DEF ApplianceIInv
<1>1. CASE IssueKey
  <2>1. /\ tlsKey' = tlsKey + 1 /\ cert' = cert /\ seen' = seen /\ MustIssue
    BY <1>1 DEF IssueKey
  <2>2. tlsKey' # 0
    BY <1>0, <2>1 DEF Pair
  <2>3. cert = NoCert \/ cert.due = TRUE \/ Drifted
    BY <1>0, <2>1 DEF MustIssue, Reason, Pair
  <2> QED
    BY <2>1, <2>2, <2>3 DEF Drifted
<1>2. CASE WorldMoves
  <2>1. /\ tlsKey' = tlsKey /\ seen' = seen /\ stage = "issuing"
        /\ cert' = cert \/ cert' = [cert EXCEPT !.due = TRUE]
    BY <1>2 DEF WorldMoves
  <2> QED
    BY <1>0, <2>1 DEF Pair, Reason, Drifted
<1>3. CASE UNCHANGED <<tlsKey, cert, seen, stage>>
  BY <1>0, <1>3 DEF Reason, Drifted
<1> QED
  BY <1>1, <1>2, <1>3 DEF ApplianceNext, applianceVars, Env, Files, Start, ReadAddresses,
      KeepCertificate, IssueCert, Identify, SetRemoteAccess, RestartEngine, TakeRestart,
      Rebuild, Fall, PublishHostIdentity

\* Hence the invariant of the appliance holds in every state.
LEMMA ApplianceInvariant == ApplianceSpec => []ApplianceIInv
<1>1. ApplianceInit => ApplianceIInv
  <2> SUFFICES ASSUME ApplianceInit PROVE ApplianceIInv
    OBVIOUS
  <2>1. /\ 0 \in 0..MaxFalls /\ 0 \in 0..MaxMoves /\ 0 \in 0..MaxIssued /\ 0 \in 0..Torn
    BY ApplianceBounds DEF Torn
  <2>2. Places
    BY <2>1 DEF ApplianceInit, Places, Stages
  <2>3. Pair /\ Identity
    BY <2>1 DEF ApplianceInit, Pair, Identity, NoCert
  <2>4. Followed /\ Reason
    BY DEF ApplianceInit, Followed, Reason, Listening
  <2> QED
    BY <2>2, <2>3, <2>4, ApplianceTypeParts DEF ApplianceIInv
<1>2. ApplianceIInv /\ [ApplianceNext]_applianceVars => ApplianceIInv'
  <2> SUFFICES ASSUME ApplianceIInv, [ApplianceNext]_applianceVars PROVE ApplianceIInv'
    OBVIOUS
  <2>1. Places /\ Pair /\ Identity /\ Followed
    BY ApplianceTypeParts DEF ApplianceIInv
  <2>2. Places' /\ Pair' /\ Identity'
    BY <2>1, PlacesStep, PairStep, IdentityStep
  <2>3. ApplianceTypeOK'
    BY <2>2 DEF ApplianceTypeOK, Places, Pair, Identity
  <2>4. Followed'
    BY <2>1, FollowedStep
  <2>5. Reason'
    BY PairStep, ReasonStep DEF Reason
  <2> QED
    BY <2>3, <2>4, <2>5 DEF ApplianceIInv
<1> QED
  BY <1>1, <1>2, PTL DEF ApplianceSpec

\* The files, settings and addresses of the appliance keep their types.
THEOREM ApplianceTypes == ApplianceSpec => []ApplianceTypeOK
<1>1. ApplianceIInv => ApplianceTypeOK
  BY DEF ApplianceIInv
<1> QED
  BY <1>1, ApplianceInvariant, PTL

\* In every state, a native server that is up listens where the toggle says, or a
\* RESTART that will make it so is pending, or its boot could not read the toggle
\* and it listens on localhost only.
THEOREM ListensAsChosen == ApplianceSpec => []BoundAsChosen
<1>1. ApplianceIInv => BoundAsChosen
  BY DEF ApplianceIInv, Followed, BoundAsChosen, Listening
<1> QED
  BY <1>1, ApplianceInvariant, PTL

\* In every behaviour, a certificate that is not near its expiry gives way only to
\* one that covers an address of the host the old one lacked, and an identity key
\* that loads is never replaced, whatever restarts, crashes and renumberings come.
THEOREM TrustSurvives == ApplianceSpec => TrustKept
<1>1. ApplianceIInv /\ [ApplianceNext]_applianceVars =>
        /\ (cert'.pair # cert.pair /\ cert # NoCert /\ ~cert.due)
             => (cert'.sans \ cert.sans) \cap HostAddrs # {}
        /\ Readable => device'.file = device.file
  BY PairStep, IdentityStep, ApplianceTypeParts DEF ApplianceIInv
<1> QED
  BY <1>1, ApplianceInvariant, PTL DEF ApplianceSpec, TrustKept

-----------------------------------------------------------------------------
(* Inventory *)

NodeRow == [macs : SUBSET Macs, host : Names, prio : {0, 10, 30, 40},
            type : Types \ {None}]
InvRow == [name : Names, type : Types]

\* The MACs that have a node.
Covered(ns) == UNION {ns[i].macs : i \in DOMAIN ns}

\* No MAC has two nodes.
Apart(ns) == \A i, j \in DOMAIN ns : i # j => ns[i].macs \cap ns[j].macs = {}

NodesIInv ==
    /\ nodes \in Seq(NodeRow) /\ Apart(nodes)
    /\ Covered(nodes) \subseteq rows
    /\ Len(nodes) <= Cardinality(Covered(nodes))

ScanPasses == {"weld", "arpweld", "singleton", "classify", "candread", "candapply",
               "overread", "overapply", "reoverread", "reoverapply", "snapread", "snapwrite"}

\* The rows outside logical_nodes.
RowsIInv ==
    /\ rows \subseteq Macs /\ arp \subseteq rows /\ located \subseteq Macs
    /\ fresh \subseteq cand /\ cand \subseteq Macs /\ late \subseteq Macs
    /\ inv \in [Macs -> InvRow \cup {NoRow}] /\ said \in [Macs -> InvRow]
    /\ pc \in {"idle"} \cup ScanPasses
    /\ edits \in 0..MaxEdits

ReqIInv ==
    /\ req \in [mac : Macs \cup {0}, node : Ids \cup {0}, name : Names \cup {"keep"},
                type : Types \cup {"keep"}]
    /\ req.mac = 0 \/ req.node = 0

\* What a pass has read and not yet used: the confirmed MACs, unless the correction
\* came since; the rows, likewise; and the nodes by their MACs, which only the passes
\* of the deep scan change.
ReadRows == [mac : Macs, row : InvRow]

CandidatesRead ==
    pc = "candapply" =>
       \A m \in Macs \ late : Row(m).name # None \/ Row(m).type # None => [mac |-> m] \in read

RowsRead ==
    pc \in {"overapply", "reoverapply"} =>
         /\ read \subseteq ReadRows /\ IsFiniteSet(read)
         /\ \A r \in read : r.mac \notin late => inv[r.mac] = r.row
         /\ \A m \in Macs \ late : inv[m] # NoRow => [mac |-> m, row |-> inv[m]] \in read

NodesRead ==
    pc = "snapwrite" =>
         /\ read \subseteq NodeRow
         /\ {n.macs : n \in read} = {nodes[i].macs : i \in Live}

ReadIInv == CandidatesRead /\ RowsRead /\ NodesRead

\* The node shows what the row says.
Shows(node, row) == /\ row.name # None => node.host = row.name
                    /\ row.type # None => node.type = row.type

\* MAC m has the one row of node i, and no correction of that node came late.
LoneRow(i, m) == \A k \in nodes[i].macs : k \notin late /\ (k # m => inv[k] = NoRow)

\* SnapshotSeesOverlay: only a correction of the node itself may part the two.
SeesIInv ==
    pc = "snapread" =>
       \A i \in Live : \A m \in nodes[i].macs : LoneRow(i, m) => Shows(nodes[i], Row(m))

InventoryIInv == NodesIInv /\ RowsIInv /\ ReqIInv /\ ReadIInv /\ SeesIInv

-----------------------------------------------------------------------------
\* A sequence as a function, and back.
LEMMA SeqAsFunction ==
  ASSUME NEW S, NEW q \in Seq(S)
  PROVE  Len(q) \in Nat /\ q \in [1..Len(q) -> S] /\ DOMAIN q = 1..Len(q)
  BY LenProperties

\* A function on 1..n is a sequence of that length.
LEMMA FunctionAsSeq ==
  ASSUME NEW S, NEW n \in Nat, NEW q \in [1..n -> S]
  PROVE  q \in Seq(S) /\ Len(q) = n /\ DOMAIN q = 1..n
  BY SeqDef

\* What the passes write into a node: its name, with or without the priority of its
\* source, and its type; its MACs stay.
LEMMA NodeFields ==
  ASSUME NEW n \in NodeRow, NEW h \in Names, NEW p \in {0, 10, 30, 40},
         NEW t \in Types \ {None}
  PROVE  /\ [n EXCEPT !.host = h, !.prio = p] \in NodeRow
         /\ [n EXCEPT !.host = h, !.prio = p].macs = n.macs
         /\ [n EXCEPT !.host = h, !.type = t] \in NodeRow
         /\ [n EXCEPT !.host = h, !.type = t].macs = n.macs
         /\ [n EXCEPT !.host = h, !.type = t].host = h
         /\ [n EXCEPT !.host = h, !.type = t].type = t
         /\ [n EXCEPT !.type = t] \in NodeRow
         /\ [n EXCEPT !.type = t].macs = n.macs
  BY DEF NodeRow

\* The columns of a node.
LEMMA NodeColumns ==
  ASSUME NEW n \in NodeRow
  PROVE  n.macs \in SUBSET Macs /\ n.host \in Names /\ n.type \in Types \ {None}
         /\ n.prio \in {0, 10, 30, 40}
  BY DEF NodeRow

\* A node with other MACs is still a node.
LEMMA NodeMacs ==
  ASSUME NEW n \in NodeRow, NEW S \in SUBSET Macs
  PROVE  [n EXCEPT !.macs = S] \in NodeRow /\ [n EXCEPT !.macs = S].macs = S
  BY DEF NodeRow

\* The same nodes, whatever is written on them.
SameMacs(ns, new) ==
    DOMAIN new = DOMAIN ns /\ \A i \in DOMAIN ns : new[i].macs = ns[i].macs

\* What is written on the nodes moves no MAC.
LEMMA SameMacsCover ==
  ASSUME NEW ns, NEW new, SameMacs(ns, new)
  PROVE  Covered(new) = Covered(ns) /\ (Apart(ns) => Apart(new))
  BY DEF SameMacs, Covered, Apart

\* What a step does that writes on nodes at most.
Stay == nodes' \in [DOMAIN nodes -> NodeRow] /\ SameMacs(nodes, nodes')

\* A step that writes on nodes at most keeps the invariant of the nodes.
LEMMA NodesStay ==
  ASSUME NodesIInv, Stay, rows \subseteq rows'
  PROVE  NodesIInv'
<1>1. Len(nodes) \in Nat /\ DOMAIN nodes = 1..Len(nodes)
  BY SeqAsFunction DEF NodesIInv
<1>2. nodes' \in Seq(NodeRow) /\ Len(nodes') = Len(nodes)
  BY <1>1, FunctionAsSeq DEF Stay
<1>3. Covered(nodes') = Covered(nodes) /\ Apart(nodes')
  BY SameMacsCover DEF NodesIInv, Stay
<1> QED
  BY <1>2, <1>3 DEF NodesIInv

\* The node of a MAC is one of those that have it, and the only one.
LEMMA NodeFound ==
  ASSUME NEW m, HasNode(m)
  PROVE  NodeOf(m) \in Live /\ NodeOf(m) \in DOMAIN nodes /\ m \in nodes[NodeOf(m)].macs
         /\ (Apart(nodes) => \A i \in DOMAIN nodes : m \in nodes[i].macs => i = NodeOf(m))
<1>1. NodeOf(m) \in Live /\ m \in nodes[NodeOf(m)].macs
  BY DEF HasNode, NodeOf
<1>2. NodeOf(m) \in DOMAIN nodes
  BY <1>1 DEF Live
<1> QED
  BY <1>1, <1>2 DEF Apart

\* A MAC has a node exactly when it is among the covered ones.
LEMMA Housed ==
  ASSUME NEW m
  PROVE  HasNode(m) <=> m \in Covered(nodes)
  BY DEF HasNode, Covered, Live

\* The lowest MAC of a node is one of its MACs.
LEMMA LowestMac ==
  ASSUME NEW S \in SUBSET Macs, S # {}
  PROVE  MinMac(S) \in S /\ \A k \in S : MinMac(S) <= k
<1>1. S \subseteq Nat
  BY InventoryAssumption
<1>2. PICK m \in S : \A k \in S : ~(<<k, m>> \in OpToRel(<, Nat))
  BY <1>1, NatLessThanWellFounded, WFMin
<1>3. ASSUME NEW k \in S PROVE m <= k
  <2>1. k \in Nat /\ m \in Nat
    BY <1>1
  <2>2. ~(k < m)
    BY <1>2, <2>1 DEF OpToRel
  <2> QED
    BY <2>1, <2>2
<1> QED
  BY <1>3 DEF MinMac

\* Renaming a node, as the registry of names allows it.
LEMMA RenamedKeeps ==
  ASSUME NEW n \in NodeRow, NEW h \in Names, NEW p \in {10, 30, 40}
  PROVE  Renamed(n, h, p) \in NodeRow /\ Renamed(n, h, p).macs = n.macs
<1>1. /\ [n EXCEPT !.host = h, !.prio = p] \in NodeRow
      /\ [n EXCEPT !.host = h, !.prio = p].macs = n.macs
  BY DEF NodeRow
<1>2. \/ Renamed(n, h, p) = n
      \/ Renamed(n, h, p) = [n EXCEPT !.host = h, !.prio = p]
  BY Zenon DEF Renamed
<1> QED
  BY <1>1, <1>2

-----------------------------------------------------------------------------
\* The passes that change which MACs a node has.

\* The hardware weld gives each located MAC without a node to one infrastructure node.
LEMMA WeldKeeps == ASSUME NodesIInv, RowsIInv, HardwareWeld PROVE NodesIInv'
<1> DEFINE ghosts == {g \in located : ~HasNode(g)}
           infra(g) == {i \in Live : /\ nodes[i].type \in InfraTypes
                                     /\ \E b \in nodes[i].macs : Near(g, b)}
           welded == {g \in ghosts : infra(g) # {}}
<1>1. PICK to \in [welded -> DOMAIN nodes] :
          nodes' = [i \in DOMAIN nodes |->
                      [nodes[i] EXCEPT !.macs = @ \cup {g \in welded : to[g] = i}]]
  BY DEF HardwareWeld
<1>2. rows' = rows \cup welded
  BY DEF HardwareWeld, WithRows
<1>3. welded \subseteq Macs /\ \A g \in welded : g \notin Covered(nodes)
  BY Housed DEF RowsIInv
<1> HIDE DEF welded
<1>4. /\ Len(nodes) \in Nat /\ DOMAIN nodes = 1..Len(nodes)
      /\ \A i \in DOMAIN nodes : nodes[i] \in NodeRow /\ nodes[i].macs \in SUBSET Macs
  BY SeqAsFunction, NodeColumns DEF NodesIInv
<1>5. \A i \in DOMAIN nodes :
         /\ nodes'[i] \in NodeRow
         /\ nodes'[i].macs = nodes[i].macs \cup {g \in welded : to[g] = i}
  <2> SUFFICES ASSUME NEW i \in DOMAIN nodes
               PROVE  /\ nodes'[i] \in NodeRow
                      /\ nodes'[i].macs = nodes[i].macs \cup {g \in welded : to[g] = i}
    OBVIOUS
  <2> DEFINE S == nodes[i].macs \cup {g \in welded : to[g] = i}
  <2>1. nodes'[i] = [nodes[i] EXCEPT !.macs = S]
    BY <1>1
  <2>2. S \in SUBSET Macs /\ nodes[i] \in NodeRow
    BY <1>3, <1>4
  <2> HIDE DEF S
  <2>3. nodes'[i] \in NodeRow /\ nodes'[i].macs = S
    BY <2>1, <2>2, NodeMacs
  <2> QED
    BY <2>3 DEF S
<1>6. DOMAIN nodes' = DOMAIN nodes
  BY <1>1
<1>7. nodes' \in Seq(NodeRow) /\ Len(nodes') = Len(nodes)
  <2>1. nodes' \in [1..Len(nodes) -> NodeRow]
    BY <1>1, <1>4, <1>5, <1>6
  <2> QED
    BY <2>1, <1>4, FunctionAsSeq
<1>8. Covered(nodes') = Covered(nodes) \cup welded
  BY <1>5, <1>6 DEF Covered
<1>9. Apart(nodes')
  <2> SUFFICES ASSUME NEW i \in DOMAIN nodes, NEW j \in DOMAIN nodes, i # j,
                      NEW m \in nodes'[i].macs \cap nodes'[j].macs
               PROVE  FALSE
    BY <1>6 DEF Apart
  <2>1. m \in nodes[i].macs \/ (m \in welded /\ to[m] = i)
    BY <1>5
  <2>2. m \in nodes[j].macs \/ (m \in welded /\ to[m] = j)
    BY <1>5
  <2>3. m \in welded => m \notin nodes[i].macs /\ m \notin nodes[j].macs
    BY <1>3 DEF Covered
  <2> QED
    BY <2>1, <2>2, <2>3 DEF NodesIInv, Apart
<1>10. Len(nodes) <= Cardinality(Covered(nodes'))
  <2>1. Covered(nodes') \subseteq Macs
    BY <1>3, <1>4, <1>8 DEF Covered
  <2>2. IsFiniteSet(Covered(nodes')) /\ IsFiniteSet(Covered(nodes))
    BY <1>8, <2>1, InventoryAssumption, FS_Subset
  <2>3. Cardinality(Covered(nodes)) <= Cardinality(Covered(nodes'))
    BY <1>8, <2>2, FS_Subset
  <2>4. Cardinality(Covered(nodes)) \in Nat /\ Cardinality(Covered(nodes')) \in Nat
    BY <2>2, FS_CardinalityType
  <2>5. Len(nodes) <= Cardinality(Covered(nodes))
    BY DEF NodesIInv
  <2> QED
    BY <1>4, <2>3, <2>4, <2>5
<1>11. Covered(nodes') \subseteq rows'
  BY <1>2, <1>8 DEF NodesIInv
<1> QED
  BY <1>7, <1>9, <1>10, <1>11 DEF NodesIInv

\* What the merges go through: the same ids, each MAC with the one node it had or
\* with the one that took it.
Merging == {ns \in [DOMAIN nodes -> NodeRow] : Apart(ns) /\ Covered(ns) = Covered(nodes)}

\* One merge: the older node of a pair takes all MACs of the younger.
LEMMA MergeKeeps ==
  ASSUME DOMAIN nodes \subseteq Nat, NEW ns \in Merging
  PROVE  MergeOnce(ns) \in Merging
<1> DEFINE pairs == {p \in (DOMAIN ns) \X (DOMAIN ns) :
                       /\ p[1] < p[2]
                       /\ \E a \in ns[p[1]].macs \cap arp, b \in ns[p[2]].macs \cap arp : Near(a, b)}
           p == CHOOSE p \in pairs : TRUE
           x == p[1]
           y == p[2]
<1>1. CASE pairs = {}
  BY <1>1 DEF MergeOnce
<1>2. CASE pairs # {}
  <2>1. p \in pairs
    BY <1>2
  <2> HIDE DEF p
  <2>2. x \in DOMAIN ns /\ y \in DOMAIN ns /\ x < y
    BY <2>1
  <2>3. x # y
    <3>1. DOMAIN ns \subseteq Nat
      BY DEF Merging
    <3>2. x \in Nat /\ y \in Nat
      BY <2>2, <3>1
    <3> HIDE DEF x, y
    <3> QED
      BY <2>2, <3>2
  <2>4. MergeOnce(ns) = [ns EXCEPT ![x].macs = @ \cup ns[y].macs, ![y].macs = {}]
    BY <1>2 DEF MergeOnce, p
  <2> HIDE DEF x, y
  <2>5. /\ ns \in [DOMAIN nodes -> NodeRow] /\ Apart(ns) /\ Covered(ns) = Covered(nodes)
        /\ \A i \in DOMAIN ns : ns[i] \in NodeRow /\ ns[i].macs \in SUBSET Macs
    BY NodeColumns DEF Merging
  <2> DEFINE new == MergeOnce(ns)
             S == ns[x].macs \cup ns[y].macs
  <2>6. /\ DOMAIN new = DOMAIN ns
        /\ new[x] = [ns[x] EXCEPT !.macs = S]
        /\ new[y] = [ns[y] EXCEPT !.macs = {}]
        /\ \A i \in DOMAIN ns \ {x, y} : new[i] = ns[i]
    BY <2>2, <2>3, <2>4
  <2>7. /\ S \in SUBSET Macs /\ {} \in SUBSET Macs
        /\ ns[x] \in NodeRow /\ ns[y] \in NodeRow
    BY <2>2, <2>5
  <2> HIDE DEF new
  <2>8. /\ new[x] \in NodeRow /\ new[x].macs = S
        /\ new[y] \in NodeRow /\ new[y].macs = {}
    <3> HIDE DEF S
    <3> QED
      BY <2>6, <2>7, NodeMacs
  <2>9. new \in [DOMAIN nodes -> NodeRow]
    <3>1. \A i \in DOMAIN ns : new[i] \in NodeRow
      BY <2>5, <2>6, <2>8
    <3>2. new = [i \in DOMAIN ns |-> new[i]]
      <4>1. new = [ns EXCEPT ![x].macs = @ \cup ns[y].macs, ![y].macs = {}]
        BY <2>4 DEF new
      <4> QED
        BY <4>1
    <3> QED
      BY <2>5, <2>6, <3>1, <3>2
  <2>9a. /\ \A m \in new[x].macs : m \in ns[x].macs \/ m \in ns[y].macs
         /\ \A m : m \notin new[y].macs
         /\ \A i \in DOMAIN ns \ {x, y} : new[i].macs = ns[i].macs
    BY <2>6, <2>8
  <2>10. Apart(new)
    <3> SUFFICES ASSUME NEW i \in DOMAIN ns, NEW j \in DOMAIN ns, i # j,
                        NEW m \in new[i].macs \cap new[j].macs
                 PROVE  FALSE
      BY <2>6 DEF Apart
    <3>1. \A u, v \in DOMAIN ns : m \in ns[u].macs /\ m \in ns[v].macs => u = v
      BY <2>5 DEF Apart
    <3>2. i # y /\ j # y
      BY <2>9a
    <3>3. CASE i # x /\ j # x
      BY <2>9a, <3>1, <3>2, <3>3
    <3>4. CASE i = x
      BY <2>2, <2>9a, <3>1, <3>2, <3>4
    <3>5. CASE j = x
      BY <2>2, <2>9a, <3>1, <3>2, <3>5
    <3> QED
      BY <3>3, <3>4, <3>5
  <2>11. Covered(new) = Covered(ns)
    <3>1. Covered(new) \subseteq Covered(ns)
      <4> SUFFICES ASSUME NEW i \in DOMAIN ns, NEW m \in new[i].macs PROVE m \in Covered(ns)
        BY <2>6 DEF Covered
      <4>1. m \in ns[i].macs \/ m \in ns[y].macs
        BY <2>9a
      <4> QED
        BY <2>2, <4>1 DEF Covered
    <3>2. ASSUME NEW i \in DOMAIN ns, NEW m \in ns[i].macs PROVE m \in Covered(new)
      <4>1. m \in new[IF i = y THEN x ELSE i].macs
        BY <2>2, <2>6, <2>8
      <4> QED
        BY <2>2, <2>6, <4>1 DEF Covered
    <3> QED
      BY <3>1, <3>2 DEF Covered
  <2> QED
    BY <2>5, <2>9, <2>10, <2>11 DEF Merging, new
<1> QED
  BY <1>1, <1>2

\* Five merges in a row.
LEMMA MergesKeep ==
  ASSUME DOMAIN nodes \subseteq Nat, nodes \in Merging
  PROVE  MergeAll(nodes) \in Merging
<1> DEFINE n == 5
           Step(u) == MergeOnce(u)
           IsFold(f) == f = [s \in SUBSET (1..n) |-> IF s = {} THEN nodes ELSE Step(f[s \ {Max(s)}])]
           fold == CHOOSE f : IsFold(f)
<1>1. DOMAIN <<1, 2, 3, 4, 5>> = 1..n
  OBVIOUS
<1>2. MergeAll(nodes) = fold[1..n]
  BY <1>1 DEF MergeAll, FoldLeft, MapThenFoldSet
<1>3. n \in Nat /\ \A u \in Merging : Step(u) \in Merging
  BY MergeKeeps
<1> HIDE DEF n, Step
<1>4. \E f : IsFold(f)
  <2> DEFINE step == [i \in 1..n |-> [u \in Merging |-> Step(u)]]
  <2>1. step \in [1..n -> [Merging -> Merging]]
    BY <1>3
  <2>2. PICK f \in [SUBSET (1..n) -> Merging] : f = Unfolded(n, nodes, step, f)
    <3> HIDE DEF step
    <3>1. \A V : \A x \in V, g \in [1..n -> [V -> V]] :
             \E f \in [SUBSET (1..n) -> V] : f = Unfolded(n, x, g, f)
      BY <1>3, FoldExists
    <3>2. \A x \in Merging, g \in [1..n -> [Merging -> Merging]] :
             \E f \in [SUBSET (1..n) -> Merging] : f = Unfolded(n, x, g, f)
      BY <3>1
    <3> QED
      BY <2>1, <3>2
  <2>3. ASSUME NEW s \in SUBSET (1..n), s # {}
        PROVE  step[Max(s)][f[s \ {Max(s)}]] = Step(f[s \ {Max(s)}])
    BY <1>3, <2>3, LastPosition
  <2>4. f = [s \in SUBSET (1..n) |-> IF s = {} THEN nodes ELSE step[Max(s)][f[s \ {Max(s)}]]]
    BY <2>2 DEF Unfolded
  <2> HIDE DEF step
  <2>5. IsFold(f)
    BY <2>3, <2>4
  <2> QED
    BY <2>5
<1>5. IsFold(fold)
  BY <1>4
<1> HIDE DEF fold
<1> DEFINE kept == [s \in SUBSET (1..n) |-> Merging]
<1>6. fold[{}] \in kept[{}]
  BY <1>5
<1>7. ASSUME NEW s \in SUBSET (1..n), s # {}, fold[s \ {Max(s)}] \in kept[s \ {Max(s)}]
      PROVE  fold[s] \in kept[s]
  <2>1. s \ {Max(s)} \in SUBSET (1..n)
    BY <1>3, <1>7, LastPosition
  <2>2. fold[s \ {Max(s)}] \in Merging
    BY <1>7, <2>1
  <2>3. fold[s] = Step(fold[s \ {Max(s)}])
    BY <1>5, <1>7
  <2> QED
    BY <1>3, <2>2, <2>3
<1> HIDE DEF kept
<1>8. fold[1..n] \in kept[1..n]
  BY <1>3, <1>6, <1>7, FoldReaches
<1> QED
  BY <1>2, <1>8 DEF kept

\* The ARP-confirmed weld as a whole leaves every MAC the one node it is in.
LEMMA MergeWeldKeeps == ASSUME NodesIInv, ArpConfirmedWeld PROVE NodesIInv'
<1>1. Len(nodes) \in Nat /\ DOMAIN nodes = 1..Len(nodes) /\ nodes \in [DOMAIN nodes -> NodeRow]
  BY SeqAsFunction DEF NodesIInv
<1>2. nodes \in Merging
  BY <1>1 DEF Merging, NodesIInv
<1>3. nodes' \in Merging /\ rows' = rows
  BY <1>1, <1>2, MergesKeep DEF ArpConfirmedWeld
<1>4. nodes' \in [1..Len(nodes) -> NodeRow] /\ Apart(nodes') /\ Covered(nodes') = Covered(nodes)
  BY <1>1, <1>3 DEF Merging
<1>5. nodes' \in Seq(NodeRow) /\ Len(nodes') = Len(nodes)
  BY <1>1, <1>4, FunctionAsSeq
<1> QED
  BY <1>3, <1>4, <1>5 DEF NodesIInv

\* The singleton pass adds one node for each row that has none, and no more: that is
\* why ids never outnumber MACs.
LEMMA SingletonKeeps == ASSUME NodesIInv, RowsIInv, Singleton PROVE NodesIInv'
<1> DEFINE lone == {m \in rows : ~HasNode(m)}
           k == Cardinality(lone)
           q == SetToSeq(lone)
           add == [i \in 1..k |-> [macs |-> {q[i]}, host |-> "device", prio |-> 0,
                                   type |-> "Endpoint"]]
<1>1. nodes' = nodes \o add /\ rows' = rows
  BY DEF Singleton
<1>2. lone \subseteq Macs /\ IsFiniteSet(lone)
  BY InventoryAssumption, FS_Subset DEF RowsIInv
<1>3. lone \cap Covered(nodes) = {}
  BY Housed
<1> HIDE DEF lone
<1>4. /\ k \in Nat /\ q \in [1..k -> lone]
      /\ \A m \in lone : \E i \in 1..k : q[i] = m
      /\ \A i, j \in 1..k : q[i] = q[j] => i = j
  BY <1>2, Listing
<1> HIDE DEF k, q
<1>5. add \in [1..k -> NodeRow] /\ \A i \in 1..k : add[i].macs = {q[i]}
  BY <1>2, <1>4 DEF NodeRow, Names, Types, None
<1>6. add \in Seq(NodeRow) /\ Len(add) = k
  BY <1>4, <1>5, FunctionAsSeq
<1> HIDE DEF add
<1> DEFINE n == Len(nodes)
<1>7. nodes \in Seq(NodeRow) /\ n \in Nat /\ DOMAIN nodes = 1..n
  BY SeqAsFunction DEF NodesIInv
<1>8. /\ nodes' \in Seq(NodeRow) /\ Len(nodes') = n + k
      /\ \A i \in 1..n + k : nodes'[i] = IF i <= n THEN nodes[i] ELSE add[i - n]
  BY <1>1, <1>6, <1>7, ConcatProperties
<1>9. DOMAIN nodes' = 1..n + k
  BY <1>8, SeqAsFunction
<1>10. /\ \A i \in 1..n : i \in 1..n + k /\ nodes'[i].macs = nodes[i].macs
       /\ \A i \in 1..k : n + i \in 1..n + k /\ nodes'[n + i].macs = {q[i]}
       /\ \A i \in 1..n + k : i \in 1..n \/ \E j \in 1..k : i = n + j
  <2>1. \A i \in 1..n : i \in 1..n + k /\ nodes'[i].macs = nodes[i].macs
    BY <1>4, <1>7, <1>8
  <2>2. ASSUME NEW i \in 1..k PROVE n + i \in 1..n + k /\ nodes'[n + i].macs = {q[i]}
    <3>1. n + i \in 1..n + k /\ ~(n + i <= n) /\ (n + i) - n = i
      BY <1>4, <1>7
    <3>2. nodes'[n + i] = add[i]
      BY <1>8, <3>1
    <3> QED
      BY <1>5, <3>1, <3>2
  <2>3. ASSUME NEW i \in 1..n + k, ~(i \in 1..n) PROVE \E j \in 1..k : i = n + j
    <3>1. i - n \in 1..k /\ i = n + (i - n)
      BY <1>4, <1>7, <2>3
    <3> QED
      BY <3>1
  <2> QED
    BY <2>1, <2>2, <2>3
<1>11. Covered(nodes') = Covered(nodes) \cup lone
  <2>1. ASSUME NEW m \in Covered(nodes') PROVE m \in Covered(nodes) \cup lone
    <3>1. PICK i \in 1..n + k : m \in nodes'[i].macs
      BY <1>9 DEF Covered
    <3>2. CASE i \in 1..n
      BY <1>7, <1>10, <3>1, <3>2 DEF Covered
    <3>3. CASE \E j \in 1..k : i = n + j
      <4>1. PICK j \in 1..k : i = n + j
        BY <3>3
      <4>2. m = q[j] /\ q[j] \in lone
        BY <1>4, <1>10, <3>1, <4>1
      <4> QED
        BY <4>2
    <3> QED
      BY <1>10, <3>2, <3>3
  <2>2. ASSUME NEW m \in Covered(nodes) PROVE m \in Covered(nodes')
    BY <1>7, <1>9, <1>10 DEF Covered
  <2>3. ASSUME NEW m \in lone PROVE m \in Covered(nodes')
    <3>1. PICK i \in 1..k : q[i] = m
      BY <1>4
    <3> QED
      BY <1>9, <1>10, <3>1 DEF Covered
  <2> QED
    BY <2>1, <2>2, <2>3
<1>12. Apart(nodes')
  <2> SUFFICES ASSUME NEW i \in 1..n + k, NEW j \in 1..n + k, i # j,
                      NEW m \in nodes'[i].macs \cap nodes'[j].macs
               PROVE  FALSE
    BY <1>9 DEF Apart
  <2>1. \A x \in 1..n + k : m \in nodes'[x].macs =>
            \/ x \in 1..n /\ m \in nodes[x].macs /\ m \in Covered(nodes)
            \/ \E y \in 1..k : x = n + y /\ m = q[y] /\ m \in lone
    <3> SUFFICES ASSUME NEW x \in 1..n + k, m \in nodes'[x].macs
                 PROVE  \/ x \in 1..n /\ m \in nodes[x].macs /\ m \in Covered(nodes)
                        \/ \E y \in 1..k : x = n + y /\ m = q[y] /\ m \in lone
      OBVIOUS
    <3>1. CASE x \in 1..n
      BY <1>7, <1>10, <3>1 DEF Covered
    <3>2. CASE \E y \in 1..k : x = n + y
      <4>1. PICK y \in 1..k : x = n + y
        BY <3>2
      <4>2. m = q[y] /\ q[y] \in lone
        BY <1>4, <1>10, <4>1
      <4> QED
        BY <4>1, <4>2
    <3> QED
      BY <1>10, <3>1, <3>2
  <2>2. CASE m \in lone
    <3>1. m \notin Covered(nodes)
      BY <1>3, <2>2
    <3>2. PICK y \in 1..k : i = n + y /\ m = q[y]
      BY <2>1, <3>1
    <3>3. PICK z \in 1..k : j = n + z /\ m = q[z]
      BY <2>1, <3>1
    <3>4. y = z
      BY <1>4, <3>2, <3>3
    <3> QED
      BY <3>2, <3>3, <3>4
  <2>3. CASE m \notin lone
    <3>1. i \in 1..n /\ m \in nodes[i].macs /\ j \in 1..n /\ m \in nodes[j].macs
      BY <2>1, <2>3
    <3> QED
      BY <1>7, <3>1 DEF NodesIInv, Apart
  <2> QED
    BY <2>2, <2>3
<1>13. n + k <= Cardinality(Covered(nodes'))
  <2>1. IsFiniteSet(Covered(nodes))
    <3>1. Covered(nodes) \subseteq Macs
      BY DEF NodesIInv, RowsIInv
    <3> QED
      BY <3>1, InventoryAssumption, FS_Subset
  <2>2. /\ Cardinality(Covered(nodes) \cup lone)
             = Cardinality(Covered(nodes)) + Cardinality(lone) - Cardinality(Covered(nodes) \cap lone)
        /\ Covered(nodes) \cap lone = {} /\ Cardinality({}) = 0
    BY <1>2, <1>3, <2>1, FS_Union, FS_EmptySet
  <2>3. Cardinality(Covered(nodes)) \in Nat /\ k = Cardinality(lone) /\ n <= Cardinality(Covered(nodes))
    BY <2>1, FS_CardinalityType DEF k, NodesIInv
  <2>4. Cardinality(Covered(nodes')) = Cardinality(Covered(nodes)) + k - 0
    BY <1>11, <2>2, <2>3
  <2> DEFINE c == Cardinality(Covered(nodes))
  <2>5. c \in Nat /\ k \in Nat /\ n \in Nat /\ n <= c
    BY <1>4, <1>7, <2>3
  <2> HIDE DEF c, n
  <2>6. n + k <= c + k - 0
    BY <2>5
  <2> QED
    BY <2>4, <2>6 DEF c
<1>14. Covered(nodes') \subseteq rows'
  BY <1>1, <1>11 DEF NodesIInv, lone
<1> QED
  BY <1>8, <1>12, <1>13, <1>14 DEF NodesIInv

-----------------------------------------------------------------------------
\* The passes that write names and types.

\* What the promotions go through: the same nodes, and the rows that were read as
\* confirmed as they are.
Promoting ==
    {st \in [nodes : [DOMAIN nodes -> NodeRow], inv : [Macs -> InvRow \cup {NoRow}]] :
        /\ SameMacs(nodes, st.nodes)
        /\ \A m \in Macs : [mac |-> m] \in read => st.inv[m] = inv[m]}

\* One candidate: its node is renamed and typed, and no confirmed row is touched.
LEMMA PromoteKeeps ==
  ASSUME NEW st \in Promoting, NEW m \in Macs
  PROVE  Promoted(st, m) \in Promoting
<1> DEFINE self == Proto[m] \in SelfIdentifying
           i == CHOOSE i \in DOMAIN st.nodes : m \in st.nodes[i].macs
           named == Renamed(st.nodes[i], "label", IF self THEN 40 ELSE 10)
           type == IF self THEN "Smart Switch" ELSE "Smart Switch (Unverified)"
           new == [nodes |-> [st.nodes EXCEPT ![i] = [named EXCEPT !.type = type]],
                   inv |-> IF self THEN [st.inv EXCEPT ![m] = [name |-> "label", type |-> type]]
                           ELSE st.inv]
<1>1. Promoted(st, m) = st \/ (Promoted(st, m) = new /\ HasNode(m) /\ [mac |-> m] \notin read)
  BY Zenon DEF Promoted
<1>2. ASSUME HasNode(m), [mac |-> m] \notin read PROVE new \in Promoting
  <2>1. /\ st.nodes \in [DOMAIN nodes -> NodeRow] /\ st.inv \in [Macs -> InvRow \cup {NoRow}]
        /\ SameMacs(nodes, st.nodes)
        /\ \A k \in Macs : [mac |-> k] \in read => st.inv[k] = inv[k]
    BY DEF Promoting
  <2>2. \E j \in DOMAIN st.nodes : m \in st.nodes[j].macs
    BY <1>2, <2>1 DEF HasNode, Live, SameMacs
  <2>3. i \in DOMAIN nodes /\ st.nodes[i] \in NodeRow
    BY <2>1, <2>2 DEF SameMacs
  <2> HIDE DEF i
  <2>4. type \in Types \ {None} /\ "label" \in Names /\ (IF self THEN 40 ELSE 10) \in {10, 30, 40}
    BY DEF Types, Names, None
  <2> HIDE DEF type, self
  <2>5. named \in NodeRow /\ named.macs = st.nodes[i].macs
    BY <2>3, <2>4, RenamedKeeps
  <2> HIDE DEF named
  <2>6. [named EXCEPT !.type = type] \in NodeRow /\ [named EXCEPT !.type = type].macs = st.nodes[i].macs
    <3>1. [named EXCEPT !.type = type] \in NodeRow /\ [named EXCEPT !.type = type].macs = named.macs
      BY <2>4, <2>5 DEF NodeRow
    <3> QED
      BY <2>5, <3>1
  <2> DEFINE node == [named EXCEPT !.type = type]
             ns == [st.nodes EXCEPT ![i] = node]
             rs == IF self THEN [st.inv EXCEPT ![m] = [name |-> "label", type |-> type]] ELSE st.inv
  <2> HIDE DEF node
  <2>7. ns \in [DOMAIN nodes -> NodeRow] /\ SameMacs(nodes, ns)
    BY <2>1, <2>3, <2>6 DEF SameMacs, node
  <2>8. rs \in [Macs -> InvRow \cup {NoRow}] /\ \A k \in Macs : [mac |-> k] \in read => rs[k] = inv[k]
    <3>1. [name |-> "label", type |-> type] \in InvRow
      BY <2>4 DEF InvRow
    <3> DEFINE row == [name |-> "label", type |-> type]
    <3> HIDE DEF row
    <3>2. [st.inv EXCEPT ![m] = row] \in [Macs -> InvRow \cup {NoRow}]
      BY <2>1, <3>1 DEF row
    <3>3. \A k \in Macs : [mac |-> k] \in read => [st.inv EXCEPT ![m] = row][k] = inv[k]
      BY <1>2, <2>1
    <3> QED
      BY <2>1, <3>2, <3>3 DEF row
  <2>9. new = [nodes |-> ns, inv |-> rs]
    BY DEF node
  <2> HIDE DEF ns, rs, new
  <2> QED
    BY <2>7, <2>8, <2>9 DEF Promoting
<1> HIDE DEF new
<1> QED
  BY <1>1, <1>2

\* And so do the promotions of all MACs, in any order.
LEMMA PromotesKeep ==
  ASSUME NEW st \in Promoting, NEW order \in SetToSeqs(Macs)
  PROVE  PromoteAll(st, order) \in Promoting
<1> DEFINE n == Cardinality(Macs)
           Step(u, i) == Promoted(u, order[i])
           IsFold(f) == f = [s \in SUBSET (1..n) |-> IF s = {} THEN st
                                                     ELSE Step(f[s \ {Max(s)}], Max(s))]
           fold == CHOOSE f : IsFold(f)
<1>1. n \in Nat /\ order \in [1..n -> Macs]
  BY InventoryAssumption, Orders
<1>2. PromoteAll(st, order) = fold[1..n]
  BY <1>1 DEF PromoteAll, FoldLeft, MapThenFoldSet
<1>3. \A u \in Promoting, i \in 1..n : Step(u, i) \in Promoting
  BY <1>1, PromoteKeeps
<1> HIDE DEF n, Step
<1>4. \E f : IsFold(f)
  <2> DEFINE step == [i \in 1..n |-> [u \in Promoting |-> Step(u, i)]]
  <2>1. step \in [1..n -> [Promoting -> Promoting]]
    BY <1>3
  <2>2. PICK f \in [SUBSET (1..n) -> Promoting] : f = Unfolded(n, st, step, f)
    <3> HIDE DEF step
    <3>1. \A V : \A x \in V, g \in [1..n -> [V -> V]] :
             \E f \in [SUBSET (1..n) -> V] : f = Unfolded(n, x, g, f)
      BY <1>1, FoldExists
    <3>2. \A x \in Promoting, g \in [1..n -> [Promoting -> Promoting]] :
             \E f \in [SUBSET (1..n) -> Promoting] : f = Unfolded(n, x, g, f)
      BY <3>1
    <3> QED
      BY <2>1, <3>2
  <2>3. ASSUME NEW s \in SUBSET (1..n), s # {}
        PROVE  step[Max(s)][f[s \ {Max(s)}]] = Step(f[s \ {Max(s)}], Max(s))
    BY <1>1, <2>3, LastPosition
  <2>4. f = [s \in SUBSET (1..n) |-> IF s = {} THEN st ELSE step[Max(s)][f[s \ {Max(s)}]]]
    BY <2>2 DEF Unfolded
  <2> HIDE DEF step
  <2>5. IsFold(f)
    BY <2>3, <2>4
  <2> QED
    BY <2>5
<1>5. IsFold(fold)
  BY <1>4
<1> HIDE DEF fold
<1> DEFINE kept == [s \in SUBSET (1..n) |-> Promoting]
<1>6. fold[{}] \in kept[{}]
  BY <1>5
<1>7. ASSUME NEW s \in SUBSET (1..n), s # {}, fold[s \ {Max(s)}] \in kept[s \ {Max(s)}]
      PROVE  fold[s] \in kept[s]
  <2>1. Max(s) \in 1..n /\ s \ {Max(s)} \in SUBSET (1..n)
    BY <1>1, <1>7, LastPosition
  <2>2. fold[s \ {Max(s)}] \in Promoting
    BY <1>7, <2>1
  <2>3. fold[s] = Step(fold[s \ {Max(s)}], Max(s))
    BY <1>5, <1>7
  <2> QED
    BY <1>3, <2>1, <2>2, <2>3
<1> HIDE DEF kept
<1>8. fold[1..n] \in kept[1..n]
  BY <1>1, <1>6, <1>7, FoldReaches
<1> QED
  BY <1>2, <1>8 DEF kept

\* What the overlay goes through: the same nodes.
Overlaying == {ns \in [DOMAIN nodes -> NodeRow] : SameMacs(nodes, ns)}

\* A node that a row has labelled shows the row.
LEMMA LabelledShows ==
  ASSUME NEW n \in NodeRow, NEW row \in InvRow
  PROVE  /\ Labelled(n, row) \in NodeRow /\ Labelled(n, row).macs = n.macs
         /\ Shows(Labelled(n, row), row)
<1> DEFINE h == IF row.name # None THEN row.name ELSE n.host
           t == IF row.type # None THEN row.type ELSE n.type
<1>1. /\ h \in Names /\ t \in Types \ {None}
      /\ row.name # None => h = row.name
      /\ row.type # None => t = row.type
  BY NodeColumns DEF InvRow
<1>2. Labelled(n, row) = [n EXCEPT !.host = h, !.type = t]
  BY Zenon DEF Labelled
<1> HIDE DEF h, t
<1>3. /\ [n EXCEPT !.host = h, !.type = t] \in NodeRow
      /\ [n EXCEPT !.host = h, !.type = t].macs = n.macs
      /\ [n EXCEPT !.host = h, !.type = t].host = h
      /\ [n EXCEPT !.host = h, !.type = t].type = t
  BY <1>1 DEF NodeRow
<1> QED
  BY <1>1, <1>2, <1>3 DEF Shows

\* One row: its node shows it, the others stay as they are.
LEMMA OverlayKeeps ==
  ASSUME NEW ns \in Overlaying, NEW r \in ReadRows
  PROVE  /\ Overlaid(ns, r) \in Overlaying
         /\ HasNode(r.mac) => Shows(Overlaid(ns, r)[NodeOf(r.mac)], r.row)
         /\ \A i \in DOMAIN nodes : ~(HasNode(r.mac) /\ i = NodeOf(r.mac)) => Overlaid(ns, r)[i] = ns[i]
<1>1. CASE ~HasNode(r.mac)
  BY <1>1 DEF Overlaid
<1>2. CASE HasNode(r.mac)
  <2> DEFINE x == NodeOf(r.mac)
             node == Labelled(ns[x], r.row)
             new == Overlaid(ns, r)
  <2>1. x \in DOMAIN nodes
    BY <1>2, NodeFound
  <2>2. /\ ns \in [DOMAIN nodes -> NodeRow] /\ SameMacs(nodes, ns) /\ ns[x] \in NodeRow
        /\ r.row \in InvRow
    BY <2>1 DEF Overlaying, ReadRows
  <2>3. new = [ns EXCEPT ![x] = node]
    BY <1>2 DEF Overlaid
  <2> HIDE DEF x, new
  <2>4. node \in NodeRow /\ node.macs = ns[x].macs /\ Shows(node, r.row)
    BY <2>2, LabelledShows
  <2> HIDE DEF node
  <2>5. new \in [DOMAIN nodes -> NodeRow] /\ SameMacs(nodes, new)
    BY <2>1, <2>2, <2>3, <2>4 DEF SameMacs
  <2>6. new[x] = node /\ \A i \in DOMAIN nodes : i # x => new[i] = ns[i]
    BY <2>1, <2>2, <2>3
  <2>7. new \in Overlaying /\ Shows(new[x], r.row) /\ \A i \in DOMAIN nodes : i # x => new[i] = ns[i]
    BY <2>4, <2>5, <2>6 DEF Overlaying
  <2> QED
    BY <1>2, <2>7 DEF x, new
<1> QED
  BY <1>1, <1>2

\* What the fold over the rows that were read returns.
LEMMA OverlayAllReaches ==
  ASSUME NEW S, IsFiniteSet(S), NEW order \in SetToSeqs(S), NEW U, NEW st \in U,
         \A u \in U, r \in S : Overlaid(u, r) \in U,
         NEW kept, st \in kept[{}],
         \A s \in SUBSET (1..Cardinality(S)), u \in U :
            s # {} /\ u \in kept[s \ {Max(s)}] => Overlaid(u, order[Max(s)]) \in kept[s]
  PROVE  OverlayAll(st, order) \in U \cap kept[1..Cardinality(S)]
<1> DEFINE n == Cardinality(S)
           Step(u, i) == Overlaid(u, order[i])
           IsFold(f) == f = [s \in SUBSET (1..n) |-> IF s = {} THEN st
                                                     ELSE Step(f[s \ {Max(s)}], Max(s))]
           fold == CHOOSE f : IsFold(f)
<1>1. n \in Nat /\ order \in [1..n -> S]
  BY Orders
<1>2. OverlayAll(st, order) = fold[1..n]
  BY <1>1 DEF OverlayAll, FoldLeft, MapThenFoldSet
<1>3. \A u \in U, i \in 1..n : Step(u, i) \in U
  BY <1>1
<1>4. \A s \in SUBSET (1..n), u \in U :
         s # {} /\ u \in kept[s \ {Max(s)}] => Step(u, Max(s)) \in kept[s]
  OBVIOUS
<1> HIDE DEF n, Step
<1>5. \E f : IsFold(f)
  <2> DEFINE step == [i \in 1..n |-> [u \in U |-> Step(u, i)]]
  <2>1. step \in [1..n -> [U -> U]]
    BY <1>3
  <2>2. PICK f \in [SUBSET (1..n) -> U] : f = Unfolded(n, st, step, f)
    <3>1. n \in Nat /\ st \in U
      BY <1>1
    <3> HIDE DEF step
    <3>2. \A V : \A x \in V, g \in [1..n -> [V -> V]] :
             \E f \in [SUBSET (1..n) -> V] : f = Unfolded(n, x, g, f)
      BY <3>1, FoldExists
    <3>3. \A x \in U, g \in [1..n -> [U -> U]] :
             \E f \in [SUBSET (1..n) -> U] : f = Unfolded(n, x, g, f)
      BY <3>2
    <3> QED
      BY <2>1, <3>1, <3>3
  <2>3. ASSUME NEW s \in SUBSET (1..n), s # {}
        PROVE  step[Max(s)][f[s \ {Max(s)}]] = Step(f[s \ {Max(s)}], Max(s))
    BY <1>1, <2>3, LastPosition
  <2>4. f = [s \in SUBSET (1..n) |-> IF s = {} THEN st ELSE step[Max(s)][f[s \ {Max(s)}]]]
    BY <2>2 DEF Unfolded
  <2> HIDE DEF step
  <2>5. IsFold(f)
    BY <2>3, <2>4
  <2> QED
    BY <2>5
<1>6. IsFold(fold)
  BY <1>5
<1> HIDE DEF fold
<1> DEFINE both == [s \in SUBSET (1..n) |-> U \cap kept[s]]
<1>7. fold[{}] \in both[{}]
  BY <1>6
<1>8. ASSUME NEW s \in SUBSET (1..n), s # {}, fold[s \ {Max(s)}] \in both[s \ {Max(s)}]
      PROVE  fold[s] \in both[s]
  <2>1. Max(s) \in 1..n /\ s \ {Max(s)} \in SUBSET (1..n)
    BY <1>1, <1>8, LastPosition
  <2>2. fold[s \ {Max(s)}] \in U /\ fold[s \ {Max(s)}] \in kept[s \ {Max(s)}]
    BY <1>8, <2>1
  <2>3. fold[s] = Step(fold[s \ {Max(s)}], Max(s))
    BY <1>6, <1>8
  <2>4. fold[s] \in U /\ fold[s] \in kept[s]
    BY <1>3, <1>4, <1>8, <2>1, <2>2, <2>3
  <2> QED
    BY <2>4
<1> HIDE DEF both
<1>9. fold[1..n] \in both[1..n]
  BY <1>1, <1>7, <1>8, FoldReaches
<1>10. fold[1..n] \in U \cap kept[1..n]
  BY <1>9 DEF both
<1> QED
  BY <1>2, <1>10 DEF n

\* The overlay keeps the nodes, and a node of which one row only was read shows it,
\* in whatever order the rows came.
LEMMA OverlayShows ==
  ASSUME nodes \in [DOMAIN nodes -> NodeRow], Apart(nodes), IsFiniteSet(read), read \subseteq ReadRows,
         NEW order \in SetToSeqs(read)
  PROVE  /\ OverlayAll(nodes, order) \in Overlaying
         /\ \A i \in DOMAIN nodes : \A r \in read :
               /\ r.mac \in nodes[i].macs
               /\ \A x \in read : x.mac \in nodes[i].macs => x = r
               => Shows(OverlayAll(nodes, order)[i], r.row)
<1> DEFINE n == Cardinality(read)
           Only(i, r) == /\ r.mac \in nodes[i].macs
                         /\ \A x \in read : x.mac \in nodes[i].macs => x = r
           Taken(s, r) == \E p \in s : order[p] = r
           Shown(s, u) == \A i \in DOMAIN nodes : \A r \in read :
                             Only(i, r) /\ Taken(s, r) => Shows(u[i], r.row)
           kept == [s \in SUBSET (1..n) |-> {u \in Overlaying : Shown(s, u)}]
<1>1. n \in Nat /\ order \in [1..n -> read] /\ \A r \in read : \E p \in 1..n : order[p] = r
  BY Orders
<1>2. nodes \in Overlaying
  BY DEF Overlaying, SameMacs
<1>3. \A u \in Overlaying, r \in read : Overlaid(u, r) \in Overlaying
  BY OverlayKeeps
<1>4. nodes \in kept[{}]
  <2>1. Shown({}, nodes)
    OBVIOUS
  <2> HIDE DEF Shown
  <2> QED
    BY <1>2, <2>1
<1>5. ASSUME NEW s \in SUBSET (1..n), NEW u \in Overlaying, s # {}, u \in kept[s \ {Max(s)}]
      PROVE  Overlaid(u, order[Max(s)]) \in kept[s]
  <2> DEFINE x == order[Max(s)]
             v == Overlaid(u, x)
  <2>1. Max(s) \in s /\ s \ {Max(s)} \in SUBSET (1..n) /\ x \in read
    BY <1>1, <1>5, LastPosition
  <2>2. Shown(s \ {Max(s)}, u)
    BY <1>5, <2>1
  <2>3. v \in Overlaying
    BY <1>3, <2>1
  <2>4. ASSUME NEW i \in DOMAIN nodes, NEW r \in read, Only(i, r), Taken(s, r)
        PROVE  Shows(v[i], r.row)
    <3>1. CASE r = x
      <4>1. HasNode(x.mac) /\ NodeOf(x.mac) = i
        <5>1. HasNode(x.mac)
          BY <2>4, <3>1 DEF HasNode, Live
        <5> QED
          BY <2>4, <3>1, <5>1, NodeFound
      <4> QED
        BY <2>1, <3>1, <4>1, OverlayKeeps
    <3>2. CASE r # x
      <4>1. Taken(s \ {Max(s)}, r)
        BY <2>4, <3>2
      <4>2. Shows(u[i], r.row)
        BY <2>2, <2>4, <4>1
      <4>3. x.mac \notin nodes[i].macs
        BY <2>1, <2>4, <3>2
      <4>4. ~(HasNode(x.mac) /\ i = NodeOf(x.mac))
        BY <4>3, NodeFound
      <4>5. v[i] = u[i]
        <5> HIDE DEF x
        <5> QED
          BY <2>1, <4>4, OverlayKeeps
      <4> QED
        BY <4>2, <4>5
    <3> QED
      BY <3>1, <3>2
  <2>5. Shown(s, v)
    BY <2>4
  <2> HIDE DEF Shown, v
  <2> QED
    BY <2>3, <2>5 DEF v
<1> HIDE DEF kept
<1>6. OverlayAll(nodes, order) \in Overlaying \cap kept[1..n]
  BY <1>2, <1>3, <1>4, <1>5, OverlayAllReaches
<1>7. Shown(1..n, OverlayAll(nodes, order))
  <2> DEFINE v == OverlayAll(nodes, order)
  <2> HIDE DEF v, Shown
  <2>1. v \in kept[1..n]
    BY <1>6 DEF v
  <2> QED
    BY <2>1 DEF kept, v
<1>8. \A r \in read : Taken(1..n, r)
  BY <1>1
<1> QED
  BY <1>6, <1>7, <1>8

\* One node written on.
LEMMA OneStays ==
  ASSUME NodesIInv, NEW i \in DOMAIN nodes, NEW n \in NodeRow, n.macs = nodes[i].macs,
         nodes' = [nodes EXCEPT ![i] = n]
  PROVE  Stay
<1>1. nodes \in [DOMAIN nodes -> NodeRow]
  BY SeqAsFunction DEF NodesIInv
<1> QED
  BY <1>1 DEF Stay, SameMacs

\* logical_nodes as a function on its ids.
LEMMA NodesFunction ==
  ASSUME NodesIInv
  PROVE  nodes \in [DOMAIN nodes -> NodeRow] /\ DOMAIN nodes = 1..Len(nodes) /\ Len(nodes) \in Nat
  BY SeqAsFunction DEF NodesIInv

\* A name sweep writes on one node.
LEMMA SweepStays ==
  ASSUME NodesIInv, NEW m \in Responders, NEW s \in Sources, SweepName(m, s)
  PROVE  Stay
<1> DEFINE i == NodeOf(m)
           n == Renamed(nodes[i], s.host, s.prio)
<1>1. nodes' = [nodes EXCEPT ![i] = n] /\ HasNode(m)
  BY DEF SweepName
<1>2. i \in DOMAIN nodes /\ nodes[i] \in NodeRow
  BY <1>1, NodesFunction, NodeFound
<1> HIDE DEF i
<1>3. s.host \in Names /\ s.prio \in {10, 30, 40}
  BY DEF Sources, Names, None
<1>4. n \in NodeRow /\ n.macs = nodes[i].macs
  BY <1>2, <1>3, RenamedKeeps
<1> HIDE DEF n
<1> QED
  BY <1>1, <1>2, <1>4, OneStays

\* The classification pass writes types only.
LEMMA ClassificationStays ==
  ASSUME NodesIInv, Classification
  PROVE  Stay
<1>1. PICK told : nodes' = [i \in DOMAIN nodes |-> Classified(nodes[i], told)]
  BY DEF Classification
<1>2. ASSUME NEW n \in NodeRow PROVE Classified(n, told) \in NodeRow /\ Classified(n, told).macs = n.macs
  <2> DEFINE tells(t) == \E m \in n.macs \cap told : Banner[m] = t
             ap == IF tells("Access Point") THEN "Access Point" ELSE n.type
             switch == IF /\ n.macs \cap LinkedMacs # {}
                          /\ ap \notin ProtectedTypes \cup {"Smart Switch (Unverified)"}
                       THEN "Switch" ELSE ap
             t == IF tells("Docker Host") THEN "Docker Host" ELSE switch
  <2>1. Classified(n, told) = [n EXCEPT !.type = t]
    BY Zenon DEF Classified
  <2>2. ap \in Types \ {None}
    <3>1. n.type \in Types \ {None} /\ "Access Point" \in Types \ {None}
      BY NodeColumns DEF Types, None
    <3> QED
      BY <3>1
  <2> HIDE DEF ap
  <2>3. t \in Types \ {None}
    <3>1. "Switch" \in Types \ {None} /\ "Docker Host" \in Types \ {None}
      BY DEF Types, None
    <3> QED
      BY <2>2, <3>1
  <2> HIDE DEF t
  <2>4. [n EXCEPT !.type = t] \in NodeRow /\ [n EXCEPT !.type = t].macs = n.macs
    BY <2>3 DEF NodeRow
  <2> QED
    BY <2>1, <2>4
<1>3. \A i \in DOMAIN nodes : nodes[i] \in NodeRow
  BY NodesFunction
<1> QED
  BY <1>1, <1>2, <1>3 DEF Stay, SameMacs

\* The candidate pass writes on nodes, and leaves the rows it read as confirmed.
LEMMA CandidatesStay ==
  ASSUME NodesIInv, RowsIInv, CandidateApply
  PROVE  /\ Stay /\ inv' \in [Macs -> InvRow \cup {NoRow}]
         /\ \A m \in Macs : [mac |-> m] \in read => inv'[m] = inv[m]
<1> DEFINE st == [nodes |-> nodes, inv |-> inv]
<1>1. st \in Promoting
  BY NodesFunction DEF Promoting, SameMacs, RowsIInv
<1>2. PICK order \in SetToSeqs(Macs) :
         nodes' = PromoteAll(st, order).nodes /\ inv' = PromoteAll(st, order).inv
  BY DEF CandidateApply
<1> HIDE DEF st
<1>3. PromoteAll(st, order) \in Promoting
  BY <1>1, PromotesKeep
<1> QED
  BY <1>2, <1>3 DEF Promoting, Stay

\* The overlay writes on nodes, and a node with one row among those read shows it.
LEMMA OverlayStays ==
  ASSUME NodesIInv, ReadIInv, OverlayApply
  PROVE  /\ Stay
         /\ \A i \in DOMAIN nodes : \A r \in read :
               /\ r.mac \in nodes[i].macs
               /\ \A x \in read : x.mac \in nodes[i].macs => x = r
               => Shows(nodes'[i], r.row)
<1>1. PICK order \in SetToSeqs(read) : nodes' = OverlayAll(nodes, order)
  BY DEF OverlayApply
<1>2. IsFiniteSet(read) /\ read \subseteq ReadRows
  BY DEF OverlayApply, ReadIInv, RowsRead
<1>3. Apart(nodes) /\ nodes \in [DOMAIN nodes -> NodeRow]
  BY NodesFunction DEF NodesIInv
<1> HIDE DEF Stay
<1>4. nodes' \in Overlaying
  BY <1>1, <1>2, <1>3, OverlayShows
<1>5. \A i \in DOMAIN nodes : \A r \in read :
               /\ r.mac \in nodes[i].macs
               /\ \A x \in read : x.mac \in nodes[i].macs => x = r
               => Shows(nodes'[i], r.row)
  BY <1>1, <1>2, <1>3, OverlayShows
<1> QED
  BY <1>4, <1>5 DEF Overlaying, Stay

\* A field that a request leaves out, or that is blank where a blank counts for
\* nothing, stays as it is.
LEMMA CoalesceKnown ==
  ASSUME NEW S, NEW old \in S, NEW new \in S \cup {"keep"}
  PROVE  Coalesce(old, new) \in S /\ (old # None => Coalesce(old, new) # None)
  BY DEF Coalesce

\* Where a blank clears the field, one that was set stays set unless it is cleared.
LEMMA GivenKnown ==
  ASSUME NEW S, NEW old \in S, NEW new \in S \cup {"keep"}
  PROVE  Given(old, new) \in S /\ (old # None /\ new # None => Given(old, new) # None)
  BY DEF Given

\* The fields of a request.
LEMMA RequestFields ==
  ASSUME NEW r \in Requests
  PROVE  /\ r.name \in Names \cup {"keep"} /\ r.type \in Types \cup {"keep"}
         /\ r.type # None
<1>1. CASE r = [name |-> "alice", type |-> "keep"]
  <2>1. r.name = "alice" /\ r.type = "keep"
    BY <1>1
  <2> QED
    BY <2>1 DEF Names, None
<1>2. CASE r = [name |-> None, type |-> "keep"]
  <2>1. r.name = None /\ r.type = "keep"
    BY <1>2
  <2> QED
    BY <2>1 DEF Names, None
<1>3. CASE r = [name |-> None, type |-> "Docker Host"]
  <2>1. r.name = None /\ r.type = "Docker Host"
    BY <1>3
  <2> QED
    BY <2>1 DEF Names, Types, None
<1> QED
  BY <1>1, <1>2, <1>3 DEF Requests

\* A name and a type written on node i.
LEMMA CorrectionStays ==
  ASSUME NodesIInv, NEW i \in DOMAIN nodes, NEW h \in Names, NEW t \in Types \ {None},
         nodes' = [nodes EXCEPT ![i] = [nodes[i] EXCEPT !.host = h, !.type = t]]
  PROVE  Stay /\ \A j \in DOMAIN nodes : j # i => nodes'[j] = nodes[j]
<1> DEFINE n == [nodes[i] EXCEPT !.host = h, !.type = t]
<1>1. nodes[i] \in NodeRow
  BY NodesFunction
<1>2. n \in NodeRow /\ n.macs = nodes[i].macs
  BY <1>1 DEF NodeRow
<1>3. nodes' = [nodes EXCEPT ![i] = n]
  OBVIOUS
<1> HIDE DEF n
<1>4. Stay
  BY <1>2, <1>3, OneStays
<1>5. \A j \in DOMAIN nodes : j # i => nodes'[j] = nodes[j]
  BY <1>3, NodesFunction
<1> QED
  BY <1>4, <1>5

\* The second commit of an inventory correction writes on the node of its MAC.
LEMMA MirrorStays ==
  ASSUME NodesIInv, ReqIInv, MirrorToNode
  PROVE  /\ Stay
         /\ \A i \in DOMAIN nodes : req.mac \notin nodes[i].macs => nodes'[i] = nodes[i]
<1>1. CASE ~HasNode(req.mac)
  <2>1. nodes' = nodes
    BY <1>1 DEF MirrorToNode
  <2> QED
    BY <2>1, NodesFunction DEF Stay, SameMacs
<1>2. CASE HasNode(req.mac)
  <2> DEFINE i == NodeOf(req.mac)
  <2>1. nodes' = [nodes EXCEPT ![i] = Corrected(nodes[i], req)]
    BY <1>2 DEF MirrorToNode
  <2>2. i \in DOMAIN nodes /\ req.mac \in nodes[i].macs
    BY <1>2, NodeFound
  <2>3. req.name \in Names \cup {"keep"} /\ req.type \in Types \cup {"keep"}
    BY DEF ReqIInv
  <2> HIDE DEF i
  <2> DEFINE h == Coalesce(nodes[i].host, req.name)
             t == Coalesce(nodes[i].type, req.type)
  <2>4. nodes[i] \in NodeRow
    BY <2>2, NodesFunction
  <2>5. h \in Names /\ t \in Types \ {None}
    BY <2>3, <2>4, NodeColumns, CoalesceKnown
  <2>6. Corrected(nodes[i], req) = [nodes[i] EXCEPT !.host = h, !.type = t]
    BY Zenon DEF Corrected
  <2> HIDE DEF h, t
  <2>7. nodes' = [nodes EXCEPT ![i] = [nodes[i] EXCEPT !.host = h, !.type = t]]
    BY <2>1, <2>6
  <2>8. Stay /\ \A j \in DOMAIN nodes : j # i => nodes'[j] = nodes[j]
    BY <2>2, <2>5, <2>7, CorrectionStays
  <2> QED
    BY <2>2, <2>8
<1> QED
  BY <1>1, <1>2

\* The first commit of a node's correction writes on that node.
LEMMA UpdateStays ==
  ASSUME NodesIInv, NEW i \in Live, NEW r \in Requests, NodeUpdate(i, r)
  PROVE  Stay /\ \A j \in DOMAIN nodes : j # i => nodes'[j] = nodes[j]
<1> DEFINE h == Given(nodes[i].host, r.name)
           t == Given(nodes[i].type, r.type)
<1>1. nodes' = [nodes EXCEPT ![i] = Rewritten(nodes[i], r)]
  BY DEF NodeUpdate
<1>2. i \in DOMAIN nodes
  BY DEF Live
<1>3. nodes[i] \in NodeRow
  BY <1>2, NodesFunction
<1>4. h \in Names /\ t \in Types \ {None}
  BY <1>3, NodeColumns, RequestFields, GivenKnown
<1>5. Rewritten(nodes[i], r) = [nodes[i] EXCEPT !.host = h, !.type = t]
  BY Zenon DEF Rewritten
<1> HIDE DEF h, t
<1>6. nodes' = [nodes EXCEPT ![i] = [nodes[i] EXCEPT !.host = h, !.type = t]]
  BY <1>1, <1>5
<1> QED
  BY <1>2, <1>4, <1>6, CorrectionStays

\* Every step leaves logical_nodes a list of nodes that share no MAC, no longer than
\* the MACs that have one.
LEMMA NodesStep ==
  ASSUME NodesIInv, RowsIInv, ReqIInv, ReadIInv, [InventoryNext]_inventoryVars
  PROVE  NodesIInv'
<1>1. CASE HardwareWeld
  BY <1>1, WeldKeeps
<1>2. CASE ArpConfirmedWeld
  BY <1>2, MergeWeldKeeps
<1>3. CASE Singleton
  BY <1>3, SingletonKeeps
<1>4. CASE CleanSlate
  <2>1. nodes' = <<>> /\ rows' = {}
    BY <1>4 DEF CleanSlate
  <2>2. Covered(<<>>) = {} /\ Apart(<<>>)
    BY DEF Covered, Apart
  <2>3. <<>> \in Seq(NodeRow) /\ Len(<<>>) = 0 /\ Cardinality({}) = 0
    BY EmptySeq, FS_EmptySet
  <2>4. nodes' \in Seq(NodeRow) /\ Apart(nodes') /\ Covered(nodes') \subseteq rows'
    BY <2>1, <2>2, <2>3
  <2>5. Len(nodes') <= Cardinality(Covered(nodes'))
    <3>1. Len(nodes') = 0 /\ Cardinality(Covered(nodes')) = 0
      BY <2>1, <2>2, <2>3
    <3> QED
      BY <3>1
  <2> QED
    BY <2>4, <2>5 DEF NodesIInv
<1>5. CASE \E m \in Responders, s \in Sources : SweepName(m, s)
  <2>1. rows' = rows
    BY <1>5 DEF SweepName
  <2> QED
    BY <1>5, <2>1, SweepStays, NodesStay
<1>6. CASE Classification
  <2>1. rows' = rows
    BY <1>6 DEF Classification
  <2> QED
    BY <1>6, <2>1, ClassificationStays, NodesStay
<1>7. CASE CandidateApply
  <2>1. rows' = rows
    BY <1>7 DEF CandidateApply
  <2> QED
    BY <1>7, <2>1, CandidatesStay, NodesStay
<1>8. CASE OverlayApply
  <2>1. rows' = rows
    BY <1>8 DEF OverlayApply
  <2> QED
    BY <1>8, <2>1, OverlayStays, NodesStay
<1>9. CASE MirrorToNode
  <2>1. rows' = rows
    BY <1>9 DEF MirrorToNode
  <2> QED
    BY <1>9, <2>1, MirrorStays, NodesStay
<1>10. CASE \E i \in Live, r \in Requests : NodeUpdate(i, r)
  <2>1. rows' = rows
    BY <1>10 DEF NodeUpdate
  <2> QED
    BY <1>10, <2>1, UpdateStays, NodesStay
<1>11. CASE nodes' = nodes /\ rows \subseteq rows'
  <2>1. Stay
    BY <1>11, NodesFunction DEF Stay, SameMacs
  <2> QED
    BY <1>11, <2>1, NodesStay
<1> QED
  <2>1. CASE \E m \in Macs : ArpSighting(m) \/ FdbSighting(m)
    BY <2>1, <1>11 DEF ArpSighting, FdbSighting
  <2>2. CASE SmartSwitchDiscovery \/ CandidateRead \/ OverlayRead \/ SnapshotRead \/ SnapshotWrite
    BY <2>2, <1>11 DEF SmartSwitchDiscovery, CandidateRead, OverlayRead, SnapshotRead,
                       SnapshotWrite, network
  <2>3. CASE \/ \E m \in Macs, r \in Requests : InventoryUpdate(m, r)
             \/ \E m \in Macs : InventoryDelete(m)
             \/ PersistOverride
    BY <2>3, <1>11 DEF InventoryUpdate, InventoryDelete, PersistOverride, network
  <2>4. CASE UNCHANGED inventoryVars
    BY <2>4, <1>11 DEF inventoryVars
  <2> QED
    BY <1>1, <1>2, <1>3, <1>4, <1>5, <1>6, <1>7, <1>8, <1>9, <1>10, <2>1, <2>2, <2>3, <2>4
       DEF InventoryNext, Scrapers, DeepScan, Operator

\* The row of a MAC, blank when there is none.
LEMMA RowKnown ==
  ASSUME RowsIInv, NEW m \in Macs
  PROVE  /\ Row(m) \in InvRow /\ Row(m).name \in Names /\ Row(m).type \in Types
         /\ inv[m] # NoRow => inv[m] \in InvRow /\ Row(m) = inv[m]
         /\ inv[m] = NoRow => Row(m).name = None /\ Row(m).type = None
<1>1. [name |-> None, type |-> None] \in InvRow
  BY DEF InvRow, Names, Types
<1>2. inv[m] \in InvRow \cup {NoRow}
  BY DEF RowsIInv
<1>3. \A r \in InvRow : r.name \in Names /\ r.type \in Types
  BY DEF InvRow
<1> QED
  BY <1>1, <1>2, <1>3 DEF Row

\* The absence of a row is not a row with empty columns.
LEMMA NoRowIsNone == \A r \in InvRow : r # NoRow
<1>1. NoRow.name = "norow"
  BY DEF NoRow
<1>2. \A r \in InvRow : r.name \in Names
  BY DEF InvRow
<1>3. "norow" \notin Names
  BY DEF Names, None
<1> QED
  BY <1>1, <1>2, <1>3

\* Folding the rows of a node: a value that one of its MACs holds, when one does.
LEMMA FoldedValues ==
  ASSUME RowsIInv, NEW n \in NodeRow, n.macs # {}
  PROVE  /\ FoldedRow(n) \in InvRow
         /\ FoldedRow(n).name = Row(MinMac(n.macs)).name \/ Row(MinMac(n.macs)).name = None
         /\ FoldedRow(n).type = Row(MinMac(n.macs)).type \/ Row(MinMac(n.macs)).type = None
         /\ FoldedRow(n).name # None => \E m \in n.macs : FoldedRow(n).name = Row(m).name
         /\ FoldedRow(n).type # None => \E m \in n.macs : FoldedRow(n).type = Row(m).type
         /\ \A m \in n.macs : Row(m).name # None => FoldedRow(n).name # None
         /\ \A m \in n.macs : Row(m).type # None => FoldedRow(n).type # None
<1> DEFINE canon == MinMac(n.macs)
           strays == {m \in n.macs \ {canon} : inv[m] # NoRow}
           sname == IF \E m \in strays : inv[m].name # None
                    THEN inv[CHOOSE m \in strays : inv[m].name # None].name ELSE None
           stype == IF \E m \in strays : inv[m].type # None
                    THEN inv[CHOOSE m \in strays : inv[m].type # None].type ELSE None
<1>1. n.macs \in SUBSET Macs /\ canon \in n.macs /\ canon \in Macs
  BY NodeColumns, LowestMac
<1>2. FoldedRow(n) = [name |-> Filled(Row(canon).name, sname), type |-> Filled(Row(canon).type, stype)]
  BY DEF FoldedRow
<1>3. /\ sname # None => \E m \in strays : sname = inv[m].name
      /\ \A m \in strays : inv[m].name # None => sname # None
  OBVIOUS
<1>4. /\ stype # None => \E m \in strays : stype = inv[m].type
      /\ \A m \in strays : inv[m].type # None => stype # None
  OBVIOUS
<1> HIDE DEF canon, sname, stype
<1>5. \A m \in strays : m \in Macs /\ m \in n.macs /\ Row(m) = inv[m]
  BY <1>1, RowKnown
<1>6. \A m \in n.macs : m = canon \/ m \in strays \/ (Row(m).name = None /\ Row(m).type = None)
  BY <1>1, RowKnown
<1> HIDE DEF strays
<1>7. Row(canon).name \in Names /\ Row(canon).type \in Types
  BY <1>1, RowKnown
<1>8. sname \in Names /\ stype \in Types
  <2>1. None \in Names /\ None \in Types
    BY DEF Names, Types
  <2> QED
    BY <1>3, <1>4, <1>5, <2>1, RowKnown
<1>9. FoldedRow(n).name = Filled(Row(canon).name, sname) /\ FoldedRow(n).type = Filled(Row(canon).type, stype)
  BY <1>2
<1>10. FoldedRow(n) \in InvRow
  BY <1>2, <1>7, <1>8 DEF InvRow, Filled
<1>11. /\ FoldedRow(n).name = Row(canon).name \/ Row(canon).name = None
       /\ FoldedRow(n).name # None => \E m \in n.macs : FoldedRow(n).name = Row(m).name
       /\ \A m \in n.macs : Row(m).name # None => FoldedRow(n).name # None
  BY <1>1, <1>3, <1>5, <1>6, <1>9 DEF Filled
<1>12. /\ FoldedRow(n).type = Row(canon).type \/ Row(canon).type = None
       /\ FoldedRow(n).type # None => \E m \in n.macs : FoldedRow(n).type = Row(m).type
       /\ \A m \in n.macs : Row(m).type # None => FoldedRow(n).type # None
  BY <1>1, <1>4, <1>5, <1>6, <1>9 DEF Filled
<1> QED
  BY <1>10, <1>11, <1>12 DEF canon

\* And a node leaves no column of its row empty.
LEMMA BackfilledValues ==
  ASSUME RowsIInv, NEW n \in NodeRow, n.macs # {}
  PROVE  /\ Backfilled(n) \in InvRow
         /\ Backfilled(n).name = FoldedRow(n).name \/ FoldedRow(n).name = None
         /\ Backfilled(n).type = FoldedRow(n).type \/ FoldedRow(n).type = None
<1>1. FoldedRow(n) \in InvRow
  BY FoldedValues
<1>2. FoldedRow(n).name \in Names /\ FoldedRow(n).type \in Types /\ n.host \in Names /\ n.type \in Types
  BY <1>1, NodeColumns DEF InvRow
<1> QED
  BY <1>2 DEF Backfilled, Filled, InvRow

\* What the snapshot writes: nothing on the row of a MAC without a node, the folded
\* and backfilled row under the lowest MAC of a node, and no row under its others.
LEMMA SnapshotWrites ==
  ASSUME NodesIInv, RowsIInv, ReadIInv, SnapshotWrite
  PROVE  /\ \A m \in Macs : ~HasNode(m) => inv'[m] = inv[m]
         /\ \A i \in Live : \A m \in nodes[i].macs : \E n \in NodeRow :
               /\ n.macs = nodes[i].macs
               /\ inv'[m] = IF m = MinMac(nodes[i].macs) THEN Backfilled(n) ELSE NoRow
         /\ inv' \in [Macs -> InvRow \cup {NoRow}]
<1> DEFINE owner(m) == CHOOSE n \in read : m \in n.macs
<1>1. /\ inv' = [m \in Macs |->
              IF \A n \in read : m \notin n.macs THEN inv[m]
              ELSE IF m = MinMac(owner(m).macs) THEN Backfilled(owner(m)) ELSE StrayRow(m)]
      /\ pc = "snapwrite"
  BY DEF SnapshotWrite
<1>2. read \subseteq NodeRow /\ {n.macs : n \in read} = {nodes[i].macs : i \in Live}
  BY <1>1 DEF ReadIInv, NodesRead
<1>3. ASSUME NEW m \in Macs, ~HasNode(m) PROVE inv'[m] = inv[m]
  <2>1. \A n \in read : m \notin n.macs
    BY <1>2, <1>3 DEF HasNode
  <2> QED
    BY <1>1, <2>1
<1>4. ASSUME NEW i \in Live, NEW m \in nodes[i].macs
      PROVE  /\ owner(m) \in NodeRow /\ owner(m).macs = nodes[i].macs /\ m \in Macs
             /\ inv'[m] = IF m = MinMac(nodes[i].macs) THEN Backfilled(owner(m)) ELSE NoRow
  <2>1. i \in DOMAIN nodes /\ nodes[i] \in NodeRow /\ m \in Macs
    BY NodesFunction, NodeColumns DEF Live
  <2>2. PICK n \in read : n.macs = nodes[i].macs
    BY <1>2
  <2>3. owner(m) \in read /\ m \in owner(m).macs
    BY <2>2
  <2>4. PICK j \in Live : owner(m).macs = nodes[j].macs
    BY <1>2, <2>3
  <2>5. j = i
    BY <2>1, <2>3, <2>4 DEF NodesIInv, Apart, Live
  <2>6. inv'[m] = IF m = MinMac(owner(m).macs) THEN Backfilled(owner(m)) ELSE StrayRow(m)
    BY <1>1, <2>1, <2>3
  <2> HIDE DEF owner
  <2> QED
    BY <1>2, <2>1, <2>3, <2>4, <2>5, <2>6 DEF StrayRow
<1>5. \A i \in Live : \A m \in nodes[i].macs : \E n \in NodeRow :
               /\ n.macs = nodes[i].macs
               /\ inv'[m] = IF m = MinMac(nodes[i].macs) THEN Backfilled(n) ELSE NoRow
  <2> HIDE DEF owner
  <2> QED
    BY <1>4
<1>6. inv' \in [Macs -> InvRow \cup {NoRow}]
  <2> SUFFICES ASSUME NEW m \in Macs PROVE inv'[m] \in InvRow \cup {NoRow}
    BY <1>1
  <2>1. CASE ~HasNode(m)
    BY <1>3, <2>1 DEF RowsIInv
  <2>2. CASE HasNode(m)
    <3>1. PICK i \in Live : m \in nodes[i].macs
      BY <2>2 DEF HasNode
    <3>2. PICK n \in NodeRow : /\ n.macs = nodes[i].macs
                               /\ inv'[m] = IF m = MinMac(nodes[i].macs) THEN Backfilled(n) ELSE NoRow
      BY <1>5, <3>1
    <3>3. Backfilled(n) \in InvRow
      BY <3>1, <3>2, BackfilledValues
    <3> QED
      BY <3>2, <3>3
  <2> QED
    BY <2>1, <2>2
<1> QED
  BY <1>3, <1>5, <1>6

\* The rows the scrapers and the discovery write.
SightingsKnown ==
    rows \subseteq Macs /\ arp \subseteq rows /\ located \subseteq Macs
    /\ fresh \subseteq cand /\ cand \subseteq Macs

\* Every step keeps them among the known MACs.
LEMMA SightingsKept ==
  ASSUME SightingsKnown, [InventoryNext]_inventoryVars
  PROVE  SightingsKnown'
<1>1. CASE \E m \in Macs : ArpSighting(m) \/ FdbSighting(m)
  BY <1>1 DEF SightingsKnown, ArpSighting, FdbSighting
<1>2. CASE CleanSlate
  BY <1>2 DEF SightingsKnown, CleanSlate
<1>3. CASE SmartSwitchDiscovery
  <2>1. PICK found \in SUBSET {m \in Macs : Proto[m] # "none"} :
           cand' = cand \cup found /\ fresh' = found
    BY <1>3 DEF SmartSwitchDiscovery
  <2> QED
    BY <1>3, <2>1 DEF SightingsKnown, SmartSwitchDiscovery
<1>4. CASE HardwareWeld
  <2>1. \E S \in SUBSET located : rows' = rows \cup S
    BY <1>4 DEF HardwareWeld, WithRows
  <2> QED
    BY <1>4, <2>1 DEF SightingsKnown, HardwareWeld
<1>5. CASE CandidateRead
  <2>1. PICK stale \in SUBSET (cand \ fresh) : cand' = cand \ stale
    BY <1>5 DEF CandidateRead
  <2> QED
    BY <1>5, <2>1 DEF SightingsKnown, CandidateRead
<1>6. CASE UNCHANGED <<rows, arp, located, cand, fresh>>
  BY <1>6 DEF SightingsKnown
<1> QED
  BY <1>1, <1>2, <1>3, <1>4, <1>5, <1>6 DEF InventoryNext, Scrapers, DeepScan, Operator,
     SweepName, ArpConfirmedWeld, Singleton, Classification, CandidateApply, OverlayRead,
     OverlayApply, SnapshotRead, SnapshotWrite, InventoryUpdate, NodeUpdate, InventoryDelete,
     MirrorToNode, PersistOverride, network, inventoryVars

\* The second commit of a node's correction has something to write, and somewhere.
Persists == req.node \in Live /\ {req.name, req.type} \ {"keep", None} # {}

\* Its row is one of the node's MACs.
LEMMA PersistsToMac ==
  ASSUME NodesIInv, Persists
  PROVE  MinMac(nodes[req.node].macs) \in Macs
<1>1. nodes[req.node].macs \in SUBSET Macs /\ nodes[req.node].macs # {}
  BY NodesFunction, NodeColumns DEF Live, Persists
<1> QED
  BY <1>1, LowestMac

\* The rows of the inventory, and what the operator last confirmed.
LEMMA InventoryRowsKept ==
  ASSUME NodesIInv, RowsIInv, ReqIInv, ReadIInv, [InventoryNext]_inventoryVars
  PROVE  inv' \in [Macs -> InvRow \cup {NoRow}] /\ said' \in [Macs -> InvRow]
<1>1. CASE CandidateApply
  <2>1. said' = said
    BY <1>1 DEF CandidateApply
  <2> QED
    BY <1>1, <2>1, CandidatesStay DEF RowsIInv
<1>2. CASE SnapshotWrite
  <2>1. said' = said
    BY <1>2 DEF SnapshotWrite
  <2> QED
    BY <1>2, <2>1, SnapshotWrites DEF RowsIInv
<1>3. ASSUME NEW m \in Macs, NEW r \in Requests, InventoryUpdate(m, r)
      PROVE  inv' \in [Macs -> InvRow \cup {NoRow}] /\ said' \in [Macs -> InvRow]
  <2> DEFINE x == [name |-> Given(Row(m).name, r.name), type |-> Given(Row(m).type, r.type)]
             y == [name |-> Given(said[m].name, r.name), type |-> Given(said[m].type, r.type)]
  <2>1. inv' = [inv EXCEPT ![m] = x] /\ said' = [said EXCEPT ![m] = y]
    BY <1>3 DEF InventoryUpdate
  <2>2. r.name \in Names \cup {"keep"} /\ r.type \in Types \cup {"keep"}
    BY RequestFields
  <2>3. said[m].name \in Names /\ said[m].type \in Types
    BY DEF RowsIInv, InvRow
  <2>4. x \in InvRow /\ y \in InvRow
    BY <2>2, <2>3, RowKnown, GivenKnown DEF InvRow
  <2> HIDE DEF x, y
  <2> QED
    BY <2>1, <2>4 DEF RowsIInv
<1>4. CASE PersistOverride
  <2>1. CASE Persists
    <3> DEFINE m == MinMac(nodes[req.node].macs)
               x == [name |-> Given(Row(m).name, req.name), type |-> Given(Row(m).type, req.type)]
               y == [name |-> Given(said[m].name, req.name), type |-> Given(said[m].type, req.type)]
    <3>1. inv' = [inv EXCEPT ![m] = x] /\ said' = [said EXCEPT ![m] = y]
      BY <1>4, <2>1 DEF PersistOverride, Persists
    <3>2. m \in Macs
      BY <2>1, PersistsToMac
    <3> HIDE DEF m
    <3>3. req.name \in Names \cup {"keep"} /\ req.type \in Types \cup {"keep"}
      BY DEF ReqIInv
    <3>4. said[m].name \in Names /\ said[m].type \in Types
      BY <3>2 DEF RowsIInv, InvRow
    <3>5. x \in InvRow /\ y \in InvRow
      BY <3>2, <3>3, <3>4, RowKnown, GivenKnown DEF InvRow
    <3> HIDE DEF x, y
    <3> QED
      BY <3>1, <3>2, <3>5 DEF RowsIInv
  <2>2. CASE ~Persists
    BY <1>4, <2>2 DEF PersistOverride, Persists, RowsIInv
  <2> QED
    BY <2>1, <2>2
<1>5. ASSUME NEW m \in Macs, InventoryDelete(m)
      PROVE  inv' \in [Macs -> InvRow \cup {NoRow}] /\ said' \in [Macs -> InvRow]
  <2> DEFINE y == [name |-> None, type |-> None]
  <2>1. y \in InvRow
    BY DEF InvRow, Names, Types
  <2>2. inv' = [inv EXCEPT ![m] = NoRow] /\ said' = [said EXCEPT ![m] = y]
    BY <1>5 DEF InventoryDelete
  <2> HIDE DEF y
  <2> QED
    BY <2>1, <2>2 DEF RowsIInv
<1>6. CASE inv' = inv /\ said' = said
  BY <1>6 DEF RowsIInv
<1> QED
  BY <1>1, <1>2, <1>3, <1>4, <1>5, <1>6 DEF InventoryNext, Scrapers, DeepScan, Operator,
     ArpSighting, FdbSighting, CleanSlate, SmartSwitchDiscovery, HardwareWeld,
     SweepName, ArpConfirmedWeld, Singleton, Classification, CandidateRead, OverlayRead,
     OverlayApply, SnapshotRead, NodeUpdate, MirrorToNode, network, inventoryVars

\* The pass of the deep scan, the corrections that came late, and the bound.
LEMMA PassesKept ==
  ASSUME NodesIInv, RowsIInv, ReqIInv, [InventoryNext]_inventoryVars
  PROVE  late' \subseteq Macs /\ pc' \in {"idle"} \cup ScanPasses /\ edits' \in 0..MaxEdits
<1>1. ASSUME NEW m \in Macs PROVE Late(m) \subseteq Macs
  BY DEF Late, RowsIInv
<1>2. CASE Scrapers
  <2>1. late' = late /\ pc' = pc /\ edits' = edits
    BY <1>2 DEF Scrapers, ArpSighting, FdbSighting, SweepName, CleanSlate
  <2> QED
    BY <2>1 DEF RowsIInv
<1>3. CASE DeepScan
  <2>1. (late' = late \/ late' = {}) /\ edits' = edits
    BY <1>3 DEF DeepScan, SmartSwitchDiscovery, HardwareWeld, ArpConfirmedWeld, Singleton,
       Classification, CandidateRead, CandidateApply, OverlayRead, OverlayApply, SnapshotRead,
       SnapshotWrite
  <2>2. pc' \in {"idle"} \cup ScanPasses
    BY <1>3 DEF DeepScan, SmartSwitchDiscovery, HardwareWeld, ArpConfirmedWeld, Singleton,
       Classification, CandidateRead, CandidateApply, OverlayRead, OverlayApply, SnapshotRead,
       SnapshotWrite, ScanPasses
  <2> QED
    BY <2>1, <2>2 DEF RowsIInv
<1>4. CASE Operator
  <2>1. pc' = pc
    BY <1>4 DEF Operator, InventoryUpdate, NodeUpdate, InventoryDelete, MirrorToNode, PersistOverride
  <2>2. edits' = edits \/ (edits' = edits + 1 /\ edits < MaxEdits)
    BY <1>4 DEF Operator, InventoryUpdate, NodeUpdate, InventoryDelete, MirrorToNode, PersistOverride
  <2>3. edits' \in 0..MaxEdits
    <3>1. MaxEdits \in Nat /\ edits \in 0..MaxEdits
      BY InventoryAssumption DEF RowsIInv
    <3> QED
      BY <2>2, <3>1
  <2>4. late' = late \/ \E m \in Macs : late' = Late(m)
    <3>1. CASE \/ \E m \in Macs, r \in Requests : InventoryUpdate(m, r)
               \/ \E m \in Macs : InventoryDelete(m)
      BY <3>1 DEF InventoryUpdate, InventoryDelete
    <3>2. CASE MirrorToNode
      <4>1. req.mac # 0 /\ late' = Late(req.mac)
        BY <3>2 DEF MirrorToNode
      <4>2. req.mac \in Macs
        BY <4>1 DEF ReqIInv
      <4> QED
        BY <4>1, <4>2
    <3>3. CASE PersistOverride
      <4>1. CASE Persists
        <5>1. late' = Late(MinMac(nodes[req.node].macs))
          BY <3>3, <4>1 DEF PersistOverride, Persists
        <5> QED
          BY <4>1, <5>1, PersistsToMac
      <4>2. CASE ~Persists
        BY <3>3, <4>2 DEF PersistOverride, Persists
      <4> QED
        BY <4>1, <4>2
    <3>4. ASSUME NEW i \in Live, NEW r \in Requests, NodeUpdate(i, r)
          PROVE  \E m \in Macs : late' = Late(m)
      <4>1. late' = Late(MinMac(nodes[i].macs))
        BY <3>4 DEF NodeUpdate
      <4>2. nodes[i].macs \in SUBSET Macs /\ nodes[i].macs # {}
        BY NodesFunction, NodeColumns DEF Live
      <4> QED
        BY <4>1, <4>2, LowestMac
    <3> QED
      BY <1>4, <3>1, <3>2, <3>3, <3>4 DEF Operator
  <2> QED
    BY <1>1, <2>1, <2>3, <2>4 DEF RowsIInv
<1>5. CASE UNCHANGED inventoryVars
  BY <1>5 DEF inventoryVars, RowsIInv
<1> QED
  BY <1>2, <1>3, <1>4, <1>5 DEF InventoryNext

\* Together: every step keeps the rows outside logical_nodes.
LEMMA RowsStep ==
  ASSUME NodesIInv, RowsIInv, ReqIInv, ReadIInv, [InventoryNext]_inventoryVars
  PROVE  RowsIInv'
<1>1. SightingsKnown
  BY DEF SightingsKnown, RowsIInv
<1>2. SightingsKnown'
  BY <1>1, SightingsKept
<1> QED
  BY <1>2, InventoryRowsKept, PassesKept DEF RowsIInv, SightingsKnown, ScanPasses

\* Ids of nodes are no more than there are MACs.
LEMMA IdsBound == ASSUME NodesIInv, RowsIInv PROVE DOMAIN nodes \subseteq Ids
<1>1. Covered(nodes) \subseteq Macs /\ IsFiniteSet(Macs)
  BY InventoryAssumption DEF NodesIInv, RowsIInv
<1>2. /\ IsFiniteSet(Covered(nodes)) /\ Cardinality(Covered(nodes)) <= Cardinality(Macs)
  BY <1>1, FS_Subset
<1>3. Cardinality(Covered(nodes)) \in Nat /\ Cardinality(Macs) \in Nat
  BY <1>1, <1>2, FS_CardinalityType
<1>4. DOMAIN nodes = 1..Len(nodes) /\ Len(nodes) \in Nat /\ Len(nodes) <= Cardinality(Covered(nodes))
  BY NodesFunction DEF NodesIInv
<1> QED
  BY <1>2, <1>3, <1>4 DEF Ids

\* The correction whose second commit is outstanding.
LEMMA ReqStep ==
  ASSUME NodesIInv, RowsIInv, ReqIInv, [InventoryNext]_inventoryVars
  PROVE  ReqIInv'
<1>1. ASSUME req' = Idle PROVE ReqIInv'
  <2>1. 0 \in Macs \cup {0} /\ 0 \in Ids \cup {0} /\ "keep" \in Names \cup {"keep"} /\ "keep" \in Types \cup {"keep"}
    OBVIOUS
  <2>2. Idle \in [mac : Macs \cup {0}, node : Ids \cup {0}, name : Names \cup {"keep"},
                  type : Types \cup {"keep"}] /\ Idle.mac = 0
    BY <2>1 DEF Idle
  <2> QED
    BY <1>1, <2>2 DEF ReqIInv
<1>2. ASSUME NEW m \in Macs, NEW r \in Requests, InventoryUpdate(m, r) PROVE ReqIInv'
  <2> DEFINE new == [mac |-> m, node |-> 0, name |-> r.name, type |-> r.type]
  <2>1. req' = new
    BY <1>2 DEF InventoryUpdate
  <2>2. 0 \in Ids \cup {0} /\ m \in Macs \cup {0}
    OBVIOUS
  <2>3. r.name \in Names \cup {"keep"} /\ r.type \in Types \cup {"keep"}
    BY RequestFields
  <2>4. new \in [mac : Macs \cup {0}, node : Ids \cup {0}, name : Names \cup {"keep"},
                  type : Types \cup {"keep"}] /\ new.node = 0
    BY <2>2, <2>3
  <2> HIDE DEF new
  <2> QED
    BY <2>1, <2>4 DEF ReqIInv
<1>3. ASSUME NEW i \in Live, NEW r \in Requests, NodeUpdate(i, r) PROVE ReqIInv'
  <2> DEFINE new == [mac |-> 0, node |-> i, name |-> r.name, type |-> r.type]
  <2>1. req' = new
    BY <1>3 DEF NodeUpdate
  <2>2. 0 \in Macs \cup {0} /\ i \in Ids \cup {0}
    BY IdsBound DEF Live
  <2>3. r.name \in Names \cup {"keep"} /\ r.type \in Types \cup {"keep"}
    BY RequestFields
  <2>4. new \in [mac : Macs \cup {0}, node : Ids \cup {0}, name : Names \cup {"keep"},
                  type : Types \cup {"keep"}] /\ new.mac = 0
    BY <2>2, <2>3
  <2> HIDE DEF new
  <2> QED
    BY <2>1, <2>4 DEF ReqIInv
<1>4. ASSUME req' = req PROVE ReqIInv'
  BY <1>4 DEF ReqIInv
<1>5. CASE MirrorToNode \/ PersistOverride
  BY <1>5, <1>1 DEF MirrorToNode, PersistOverride
<1>6. CASE Scrapers
  BY <1>6, <1>4 DEF Scrapers, ArpSighting, FdbSighting, SweepName, CleanSlate
<1>7. CASE DeepScan
  BY <1>7, <1>4 DEF DeepScan, SmartSwitchDiscovery, HardwareWeld, ArpConfirmedWeld, Singleton,
     Classification, CandidateRead, CandidateApply, OverlayRead, OverlayApply, SnapshotRead,
     SnapshotWrite
<1>8. CASE \E m \in Macs : InventoryDelete(m)
  BY <1>8, <1>4 DEF InventoryDelete
<1>9. CASE UNCHANGED inventoryVars
  BY <1>9, <1>4 DEF inventoryVars
<1> QED
  BY <1>2, <1>3, <1>5, <1>6, <1>7, <1>8, <1>9 DEF InventoryNext, Operator

\* A correction is late for the pass under way, and writes no other row.
LEMMA OperatorIsLate ==
  ASSUME NodesIInv, RowsIInv, ReqIInv, Operator
  PROVE  /\ pc' = pc /\ read' = read /\ late \subseteq late'
         /\ pc \in {"candapply", "overapply", "reoverapply", "snapread", "snapwrite"} =>
               \A m \in Macs : m \notin late' => inv'[m] = inv[m]
<1>1. pc' = pc /\ read' = read /\ late \subseteq late'
  BY DEF Operator, InventoryUpdate, NodeUpdate, InventoryDelete, MirrorToNode, PersistOverride, Late
<1>2. ASSUME pc \in {"candapply", "overapply", "reoverapply", "snapread", "snapwrite"},
             NEW m \in Macs, m \notin late'
      PROVE  inv'[m] = inv[m]
  <2>1. \A k : Late(k) = late \cup {k}
    BY <1>2 DEF Late
  <2>2. ASSUME NEW k \in Macs, NEW r \in Requests, InventoryUpdate(k, r) PROVE inv'[m] = inv[m]
    BY <1>2, <2>1, <2>2 DEF InventoryUpdate, RowsIInv
  <2>3. ASSUME NEW k \in Macs, InventoryDelete(k) PROVE inv'[m] = inv[m]
    BY <1>2, <2>1, <2>3 DEF InventoryDelete, RowsIInv
  <2>4. CASE PersistOverride
    <3>1. CASE Persists
      <4>1. \E k, x : late' = Late(k) /\ inv' = [inv EXCEPT ![k] = x]
        BY <2>4, <3>1 DEF PersistOverride, Persists
      <4> QED
        BY <1>2, <2>1, <4>1 DEF RowsIInv
    <3>2. CASE ~Persists
      BY <2>4, <3>2 DEF PersistOverride, Persists
    <3> QED
      BY <3>1, <3>2
  <2> QED
    BY <2>2, <2>3, <2>4 DEF Operator, NodeUpdate, MirrorToNode, network
<1> QED
  BY <1>1, <1>2

\* A correction leaves every node its MACs.
LEMMA OperatorStays ==
  ASSUME NodesIInv, ReqIInv, Operator
  PROVE  Stay
<1>1. CASE MirrorToNode
  BY <1>1, MirrorStays
<1>2. CASE \E i \in Live, r \in Requests : NodeUpdate(i, r)
  BY <1>2, UpdateStays
<1>3. CASE nodes' = nodes
  BY <1>3, NodesFunction DEF Stay, SameMacs
<1> QED
  BY <1>1, <1>2, <1>3 DEF Operator, InventoryUpdate, InventoryDelete, PersistOverride, network

\* The scrapers and the start of a deep scan come between deep scans, when nothing
\* that was read waits to be used.
Waiting == {"candapply", "overapply", "reoverapply", "snapread", "snapwrite"}

\* None of them leads to a pass that has read and not yet written.
LEMMA ScrapersFirst ==
  ASSUME Scrapers \/ SmartSwitchDiscovery \/ HardwareWeld \/ ArpConfirmedWeld \/ Singleton
         \/ Classification \/ CandidateApply \/ SnapshotWrite
  PROVE  pc' \notin Waiting
  BY DEF Scrapers, ArpSighting, FdbSighting, SweepName, CleanSlate, SmartSwitchDiscovery,
         HardwareWeld, ArpConfirmedWeld, Singleton, Classification, CandidateApply,
         SnapshotWrite, Waiting

\* The confirmed MACs that were read stay confirmed, unless a correction came since.
LEMMA CandidatesReadStep ==
  ASSUME NodesIInv, RowsIInv, ReqIInv, CandidatesRead, [InventoryNext]_inventoryVars
  PROVE  CandidatesRead'
<1> SUFFICES ASSUME pc' = "candapply", NEW m \in Macs, m \notin late',
                    Row(m)'.name # None \/ Row(m)'.type # None
             PROVE  [mac |-> m] \in read'
  BY DEF CandidatesRead
<1>1. CASE CandidateRead
  BY <1>1 DEF CandidateRead, Row
<1>2. CASE Operator
  <2>1. pc = "candapply" /\ read' = read /\ m \notin late /\ inv'[m] = inv[m]
    BY <1>2, OperatorIsLate
  <2>2. Row(m)' = Row(m)
    BY <2>1 DEF Row
  <2> QED
    BY <2>1, <2>2 DEF CandidatesRead
<1>3. CASE OverlayRead \/ OverlayApply \/ SnapshotRead
  BY <1>3 DEF OverlayRead, OverlayApply, SnapshotRead
<1>4. CASE UNCHANGED inventoryVars
  <2>1. Row(m)' = Row(m) /\ pc' = pc /\ late' = late /\ read' = read
    BY <1>4 DEF Row, inventoryVars
  <2> QED
    BY <2>1 DEF CandidatesRead
<1> QED
  BY <1>1, <1>2, <1>3, <1>4, ScrapersFirst DEF InventoryNext, DeepScan, Waiting

\* The rows that were read are still the rows, unless a correction came since.
LEMMA RowsReadStep ==
  ASSUME NodesIInv, RowsIInv, ReqIInv, RowsRead, [InventoryNext]_inventoryVars
  PROVE  RowsRead'
<1> SUFFICES ASSUME pc' \in {"overapply", "reoverapply"} PROVE RowsRead'
  BY DEF RowsRead
<1>1. CASE OverlayRead
  <2> DEFINE S == {k \in Macs : inv[k] # NoRow}
             f == [m \in S |-> [mac |-> m, row |-> inv[m]]]
  <2>1. read' = {[mac |-> m, row |-> inv[m]] : m \in S} /\ late' = {} /\ inv' = inv
    BY <1>1 DEF OverlayRead
  <2>2. f \in Surjection(S, read')
    BY <2>1 DEF Surjection
  <2>3. IsFiniteSet(S)
    BY InventoryAssumption, FS_Subset
  <2>4. IsFiniteSet(read')
    BY <2>2, <2>3, FS_Surjection
  <2>5. \A m \in S : inv[m] \in InvRow
    BY DEF RowsIInv
  <2>6. read' \subseteq ReadRows
    BY <2>1, <2>5 DEF ReadRows
  <2>7. \A r \in read' : inv'[r.mac] = r.row
    BY <2>1
  <2>8. \A m \in Macs : inv'[m] # NoRow => [mac |-> m, row |-> inv'[m]] \in read'
    BY <2>1
  <2> QED
    BY <2>4, <2>6, <2>7, <2>8 DEF RowsRead
<1>2. CASE Operator
  <2>1. /\ pc' = pc /\ read' = read /\ late \subseteq late'
        /\ \A m \in Macs : m \notin late' => inv'[m] = inv[m]
    BY <1>2, OperatorIsLate
  <2>2. /\ read \subseteq ReadRows /\ IsFiniteSet(read)
        /\ \A r \in read : r.mac \notin late => inv[r.mac] = r.row
        /\ \A m \in Macs \ late : inv[m] # NoRow => [mac |-> m, row |-> inv[m]] \in read
    BY <2>1 DEF RowsRead
  <2>3. \A r \in read : r.mac \in Macs
    BY <2>2 DEF ReadRows
  <2> QED
    BY <2>1, <2>2, <2>3 DEF RowsRead
<1>3. CASE CandidateRead \/ OverlayApply \/ SnapshotRead
  BY <1>3 DEF CandidateRead, OverlayApply, SnapshotRead
<1>4. CASE UNCHANGED inventoryVars
  BY <1>4 DEF RowsRead, inventoryVars
<1> QED
  BY <1>1, <1>2, <1>3, <1>4, ScrapersFirst DEF InventoryNext, DeepScan, Waiting

\* The nodes that were read still have the MACs they had.
LEMMA NodesReadStep ==
  ASSUME NodesIInv, RowsIInv, ReqIInv, NodesRead, [InventoryNext]_inventoryVars
  PROVE  NodesRead'
<1> SUFFICES ASSUME pc' = "snapwrite" PROVE NodesRead'
  BY DEF NodesRead
<1>1. CASE SnapshotRead
  <2>1. read' = {nodes[i] : i \in Live} /\ nodes' = nodes
    BY <1>1 DEF SnapshotRead, network
  <2>2. \A i \in Live : nodes[i] \in NodeRow
    BY NodesFunction DEF Live
  <2>3. Live' = Live
    BY <2>1 DEF Live
  <2>4. {n.macs : n \in read'} = {nodes[i].macs : i \in Live}
    BY <2>1
  <2> QED
    BY <2>1, <2>2, <2>3, <2>4 DEF NodesRead
<1>2. CASE Operator
  <2>1. pc = "snapwrite" /\ read' = read /\ Stay
    BY <1>2, OperatorIsLate, OperatorStays
  <2>2. Live' = Live /\ \A i \in Live : nodes'[i].macs = nodes[i].macs
    BY <2>1 DEF Stay, SameMacs, Live
  <2>3. {nodes'[i].macs : i \in Live'} = {nodes[i].macs : i \in Live}
    BY <2>2
  <2> QED
    BY <2>1, <2>3 DEF NodesRead
<1>3. CASE CandidateRead \/ OverlayApply \/ OverlayRead
  BY <1>3 DEF CandidateRead, OverlayApply, OverlayRead
<1>4. CASE UNCHANGED inventoryVars
  BY <1>4 DEF NodesRead, inventoryVars, Live
<1> QED
  BY <1>1, <1>2, <1>3, <1>4, ScrapersFirst DEF InventoryNext, DeepScan, Waiting

\* When the re-overlay has been applied, a node of which one MAC only has a row, and
\* of which nothing was corrected since the rows were read, shows that row.
LEMMA OverlaySees ==
  ASSUME NodesIInv, RowsIInv, ReadIInv, OverlayApply,
         NEW i \in Live, NEW m \in nodes[i].macs, LoneRow(i, m)
  PROVE  Shows(nodes'[i], Row(m))
<1>1. i \in DOMAIN nodes /\ nodes[i].macs \in SUBSET Macs /\ m \in Macs
  BY NodesFunction, NodeColumns DEF Live
<1>2. CASE inv[m] = NoRow
  BY <1>1, <1>2, RowKnown DEF Shows
<1>3. CASE inv[m] # NoRow
  <2> DEFINE r == [mac |-> m, row |-> inv[m]]
  <2>1. /\ read \subseteq ReadRows
        /\ \A x \in read : x.mac \notin late => inv[x.mac] = x.row
        /\ \A k \in Macs \ late : inv[k] # NoRow => [mac |-> k, row |-> inv[k]] \in read
    BY DEF OverlayApply, ReadIInv, RowsRead
  <2>2. r \in read
    BY <1>1, <1>3, <2>1 DEF LoneRow
  <2>3. ASSUME NEW x \in read, x.mac \in nodes[i].macs PROVE x = r
    <3>1. inv[x.mac] = x.row
      BY <2>1, <2>3 DEF LoneRow
    <3>2. x \in ReadRows /\ x.row # NoRow
      BY <2>1, NoRowIsNone DEF ReadRows
    <3>3. x.mac = m
      BY <2>3, <3>1, <3>2 DEF LoneRow
    <3> QED
      BY <3>1, <3>2, <3>3 DEF ReadRows
  <2>4. r.mac = m /\ r.row = inv[m]
    OBVIOUS
  <2> HIDE DEF r
  <2>5. Shows(nodes'[i], r.row)
    BY <1>1, <2>2, <2>3, <2>4, OverlayStays
  <2> QED
    BY <1>1, <1>3, <2>4, <2>5, RowKnown
<1> QED
  BY <1>2, <1>3

\* No step parts what a node shows from what its one row says, but a correction of it.
LEMMA SeesStep ==
  ASSUME NodesIInv, RowsIInv, ReqIInv, ReadIInv, SeesIInv, [InventoryNext]_inventoryVars
  PROVE  SeesIInv'
<1> SUFFICES ASSUME pc' = "snapread", NEW i \in Live', NEW m \in nodes'[i].macs,
                    LoneRow(i, m)'
             PROVE  Shows(nodes'[i], Row(m)')
  BY DEF SeesIInv
<1>1. CASE OverlayApply
  <2>1. inv' = inv /\ late' = late /\ Stay
    BY <1>1, OverlayStays DEF OverlayApply
  <2>2. Row(m)' = Row(m) /\ i \in Live /\ nodes'[i].macs = nodes[i].macs
    BY <2>1 DEF Row, Live, Stay, SameMacs
  <2>3. LoneRow(i, m)
    BY <2>1, <2>2 DEF LoneRow
  <2> QED
    BY <1>1, <2>2, <2>3, OverlaySees
<1>2. CASE Operator
  <2>1. /\ pc = "snapread" /\ late \subseteq late' /\ Stay
        /\ \A k \in Macs : k \notin late' => inv'[k] = inv[k]
    BY <1>2, OperatorIsLate, OperatorStays
  <2>2. i \in Live /\ i \in DOMAIN nodes /\ nodes'[i].macs = nodes[i].macs /\ nodes[i].macs \in SUBSET Macs
    <3>1. i \in DOMAIN nodes /\ nodes'[i].macs = nodes[i].macs
      BY <2>1 DEF Live, Stay, SameMacs
    <3> QED
      BY <3>1, NodesFunction, NodeColumns DEF Live
  <2>3. \A k \in nodes[i].macs : k \notin late' /\ k \notin late /\ inv'[k] = inv[k]
    BY <2>1, <2>2 DEF LoneRow
  <2>4. LoneRow(i, m) /\ Row(m)' = Row(m) /\ m \in nodes[i].macs
    BY <2>2, <2>3 DEF LoneRow, Row
  <2>5. \A k : Late(k) = late \cup {k}
    BY <2>1 DEF Late
  <2>6. nodes'[i] = nodes[i]
    <3>1. ASSUME NEW j \in Live, NEW r \in Requests, NodeUpdate(j, r) PROVE nodes'[i] = nodes[i]
      <4>1. j # i
        <5>1. MinMac(nodes[j].macs) \in late'
          BY <2>5, <3>1 DEF NodeUpdate
        <5>2. MinMac(nodes[i].macs) \in nodes[i].macs
          BY <2>2, LowestMac DEF Live
        <5> QED
          BY <2>3, <5>1, <5>2
      <4> QED
        BY <2>2, <3>1, <4>1, UpdateStays
    <3>2. CASE MirrorToNode
      <4>1. req.mac \in late'
        BY <2>5, <3>2 DEF MirrorToNode
      <4>2. req.mac \notin nodes[i].macs
        BY <2>3, <4>1
      <4> QED
        BY <2>2, <3>2, <4>2, MirrorStays
    <3>3. CASE nodes' = nodes
      BY <3>3
    <3> QED
      BY <1>2, <3>1, <3>2, <3>3 DEF Operator, InventoryUpdate, InventoryDelete, PersistOverride,
         network
  <2> QED
    BY <2>1, <2>2, <2>4, <2>6 DEF SeesIInv
<1>3. CASE OverlayRead \/ CandidateRead \/ SnapshotRead
  BY <1>3 DEF OverlayRead, CandidateRead, SnapshotRead
<1>4. CASE UNCHANGED inventoryVars
  BY <1>4 DEF SeesIInv, inventoryVars, Live, LoneRow, Row, Shows
<1> QED
  BY <1>1, <1>2, <1>3, <1>4, ScrapersFirst DEF InventoryNext, DeepScan, Waiting

\* The empty network.db and inventory.db satisfy the invariant.
LEMMA InventoryInitially == InventoryInit => InventoryIInv
<1> SUFFICES ASSUME InventoryInit PROVE InventoryIInv
  OBVIOUS
<1>1. NodesIInv
  <2>1. nodes = <<>>
    BY DEF InventoryInit
  <2>2. Covered(<<>>) = {} /\ Apart(<<>>)
    BY DEF Covered, Apart
  <2>3. <<>> \in Seq(NodeRow) /\ Len(<<>>) = 0 /\ Cardinality({}) = 0
    BY EmptySeq, FS_EmptySet
  <2>4. nodes \in Seq(NodeRow) /\ Apart(nodes) /\ Covered(nodes) \subseteq rows
    BY <2>1, <2>2, <2>3
  <2>5. Len(nodes) <= Cardinality(Covered(nodes))
    <3>1. Len(nodes) = 0 /\ Cardinality(Covered(nodes)) = 0
      BY <2>1, <2>2, <2>3
    <3> QED
      BY <3>1
  <2> QED
    BY <2>4, <2>5 DEF NodesIInv
<1>2. RowsIInv
  <2>1. 0 \in 0..MaxEdits
    <3>1. MaxEdits \in Nat
      BY InventoryAssumption
    <3> QED
      BY <3>1
  <2>2. [name |-> None, type |-> None] \in InvRow
    BY DEF InvRow, Names, Types
  <2> QED
    BY <2>1, <2>2 DEF InventoryInit, RowsIInv
<1>3. ReqIInv
  <2>1. 0 \in Macs \cup {0} /\ 0 \in Ids \cup {0} /\ "keep" \in Names \cup {"keep"} /\ "keep" \in Types \cup {"keep"}
    OBVIOUS
  <2>2. Idle \in [mac : Macs \cup {0}, node : Ids \cup {0}, name : Names \cup {"keep"},
                  type : Types \cup {"keep"}] /\ Idle.mac = 0
    BY <2>1 DEF Idle
  <2> QED
    BY <2>2 DEF InventoryInit, ReqIInv
<1>4. ReadIInv /\ SeesIInv
  BY DEF InventoryInit, ReadIInv, CandidatesRead, RowsRead, NodesRead, SeesIInv
<1> QED
  BY <1>1, <1>2, <1>3, <1>4 DEF InventoryIInv

\* Every step keeps it, so it holds in every state.
LEMMA InventoryInvariant == InventorySpec => []InventoryIInv
<1>1. InventoryIInv /\ [InventoryNext]_inventoryVars => InventoryIInv'
  <2> SUFFICES ASSUME InventoryIInv, [InventoryNext]_inventoryVars PROVE InventoryIInv'
    OBVIOUS
  <2>1. NodesIInv /\ RowsIInv /\ ReqIInv /\ ReadIInv /\ SeesIInv
    BY DEF InventoryIInv
  <2>2. CandidatesRead /\ RowsRead /\ NodesRead
    BY <2>1 DEF ReadIInv
  <2>3. NodesIInv' /\ RowsIInv' /\ ReqIInv'
    BY <2>1, NodesStep, RowsStep, ReqStep
  <2>4. CandidatesRead' /\ RowsRead' /\ NodesRead'
    BY <2>1, <2>2, CandidatesReadStep, RowsReadStep, NodesReadStep
  <2>5. SeesIInv'
    BY <2>1, SeesStep
  <2> QED
    BY <2>3, <2>4, <2>5 DEF InventoryIInv, ReadIInv
<1> QED
  BY <1>1, InventoryInitially, PTL DEF InventorySpec

\* In every state, logical_nodes is a list of nodes with known columns, no longer than
\* there are MACs, and the rows of inventory.db have known names and types.
THEOREM InventoryTypes == InventorySpec => []InventoryTypeOK
<1>1. InventoryIInv => InventoryTypeOK
  <2> SUFFICES ASSUME InventoryIInv PROVE InventoryTypeOK
    OBVIOUS
  <2>1. NodesIInv /\ RowsIInv /\ ReqIInv
    BY DEF InventoryIInv
  <2> DEFINE Node == [macs : SUBSET rows, host : Names, prio : {0, 10, 30, 40},
                      type : Types \ {None}]
  <2>2. nodes \in Seq(Node)
    <3>1. nodes \in [DOMAIN nodes -> NodeRow] /\ DOMAIN nodes = 1..Len(nodes) /\ Len(nodes) \in Nat
      BY <2>1, NodesFunction
    <3>2. ASSUME NEW i \in DOMAIN nodes PROVE nodes[i] \in Node
      <4>1. nodes[i] \in NodeRow /\ nodes[i].macs \in SUBSET rows
        BY <2>1, <3>1 DEF NodesIInv, Covered
      <4> QED
        BY <4>1 DEF NodeRow
    <3>3. nodes \in [1..Len(nodes) -> Node]
      BY <3>1, <3>2
    <3> QED
      BY <3>1, <3>3, FunctionAsSeq
  <2>3. DOMAIN nodes \subseteq Ids
    BY <2>1, IdsBound
  <2> QED
    BY <2>1, <2>2, <2>3 DEF InventoryTypeOK, RowsIInv, ReqIInv, InvRow, ScanPasses
<1> QED
  BY <1>1, InventoryInvariant, PTL

\* In every state in which the snapshot of a deep scan is about to read, a node the
\* inventory names shows that name and that type, unless a correction of the node
\* came after the re-overlay had read: the backfill that follows copies
\* no stale value over what the operator confirmed.
THEOREM SnapshotReadsOverlay == InventorySpec => []SnapshotSeesOverlay
<1>1. InventoryIInv => SnapshotSeesOverlay
  <2> SUFFICES ASSUME InventoryIInv, pc = "snapread", NEW i \in Live, NEW m \in nodes[i].macs,
                      m \notin late,
                      \A k \in nodes[i].macs \ {m} : inv[k] = NoRow /\ k \notin late
               PROVE  Shows(nodes[i], Row(m))
    BY Zenon DEF SnapshotSeesOverlay, Shows
  <2>1. LoneRow(i, m)
    BY DEF LoneRow
  <2> QED
    BY <2>1 DEF InventoryIInv, SeesIInv
<1> QED
  BY <1>1, InventoryInvariant, PTL

\* Only the snapshot ends a deep scan.
LEMMA ScanEnds ==
  ASSUME [InventoryNext]_inventoryVars, pc = "snapwrite", pc' = "idle"
  PROVE  SnapshotWrite
  BY DEF InventoryNext, Scrapers, DeepScan, Operator, ArpSighting, FdbSighting, SweepName,
         CleanSlate, SmartSwitchDiscovery, HardwareWeld, ArpConfirmedWeld, Singleton,
         Classification, CandidateRead, CandidateApply, OverlayRead, OverlayApply,
         SnapshotRead, InventoryUpdate, NodeUpdate, InventoryDelete, MirrorToNode,
         PersistOverride, inventoryVars

\* What the snapshot leaves of the rows of a node.
LEMMA SnapshotLeaves ==
  ASSUME NodesIInv, RowsIInv, ReadIInv, SnapshotWrite, NEW i \in Live
  PROVE  \E n \in NodeRow :
            /\ n.macs = nodes[i].macs /\ n.macs # {}
            /\ MinMac(n.macs) \in n.macs
            /\ inv'[MinMac(n.macs)] = Backfilled(n)
            /\ \A m \in n.macs \ {MinMac(n.macs)} : inv'[m] = NoRow
<1>1. nodes[i].macs \in SUBSET Macs /\ nodes[i].macs # {}
  BY NodesFunction, NodeColumns DEF Live
<1>2. MinMac(nodes[i].macs) \in nodes[i].macs
  BY <1>1, LowestMac
<1>3. \A m \in nodes[i].macs : \E n \in NodeRow :
         /\ n.macs = nodes[i].macs
         /\ inv'[m] = IF m = MinMac(nodes[i].macs) THEN Backfilled(n) ELSE NoRow
  BY SnapshotWrites
<1>4. PICK n \in NodeRow : /\ n.macs = nodes[i].macs
                           /\ inv'[MinMac(nodes[i].macs)] = Backfilled(n)
  BY <1>2, <1>3
<1>5. \A m \in nodes[i].macs \ {MinMac(nodes[i].macs)} : inv'[m] = NoRow
  BY <1>3
<1> QED
  BY <1>1, <1>2, <1>4, <1>5

\* In every behaviour, the snapshot of a deep scan leaves a device one row, under its
\* lowest MAC, whatever was welded, corrected or deleted while the scan ran.
THEOREM OneRowIsLeft == InventorySpec => OneRowPerDevice
<1>1. InventoryIInv /\ [InventoryNext]_inventoryVars =>
        (pc = "snapwrite" /\ pc' = "idle" =>
          \A i \in Live : {m \in nodes[i].macs : inv'[m] # NoRow} = {MinMac(nodes[i].macs)})
  <2> SUFFICES ASSUME InventoryIInv, [InventoryNext]_inventoryVars, pc = "snapwrite", pc' = "idle",
                      NEW i \in Live
               PROVE  {m \in nodes[i].macs : inv'[m] # NoRow} = {MinMac(nodes[i].macs)}
    OBVIOUS
  <2>1. NodesIInv /\ RowsIInv /\ ReadIInv /\ SnapshotWrite
    BY ScanEnds DEF InventoryIInv
  <2>2. PICK n \in NodeRow :
            /\ n.macs = nodes[i].macs /\ n.macs # {}
            /\ MinMac(n.macs) \in n.macs
            /\ inv'[MinMac(n.macs)] = Backfilled(n)
            /\ \A m \in n.macs \ {MinMac(n.macs)} : inv'[m] = NoRow
    BY <2>1, SnapshotLeaves
  <2>3. Backfilled(n) # NoRow
    BY <2>1, <2>2, BackfilledValues, NoRowIsNone
  <2> QED
    BY <2>2, <2>3
<1> QED
  BY <1>1, InventoryInvariant, PTL DEF InventorySpec, OneRowPerDevice

\* In every behaviour, a name or a type that one row of a device holds is not lost when
\* the snapshot folds the rows, and no discovered value takes its place.
THEOREM NothingIsFoldedAway == InventorySpec => FoldKeepsValues
<1>1. InventoryIInv /\ [InventoryNext]_inventoryVars =>
        (pc = "snapwrite" /\ pc' = "idle" =>
          \A i \in Live, f \in {"name", "type"} :
             LET held == {Row(m)[f] : m \in nodes[i].macs} \ {None}
             IN  held # {} => inv'[MinMac(nodes[i].macs)][f] \in held)
  <2> SUFFICES ASSUME InventoryIInv, [InventoryNext]_inventoryVars, pc = "snapwrite", pc' = "idle",
                      NEW i \in Live, NEW f \in {"name", "type"}, NEW k \in nodes[i].macs,
                      Row(k)[f] # None
               PROVE  inv'[MinMac(nodes[i].macs)][f] \in {Row(m)[f] : m \in nodes[i].macs} \ {None}
    OBVIOUS
  <2>1. NodesIInv /\ RowsIInv /\ ReadIInv /\ SnapshotWrite
    BY ScanEnds DEF InventoryIInv
  <2>2. PICK n \in NodeRow :
            /\ n.macs = nodes[i].macs /\ n.macs # {}
            /\ MinMac(n.macs) \in n.macs
            /\ inv'[MinMac(n.macs)] = Backfilled(n)
            /\ \A m \in n.macs \ {MinMac(n.macs)} : inv'[m] = NoRow
    BY <2>1, SnapshotLeaves
  <2>3. CASE f = "name"
    <3>1. FoldedRow(n).name # None /\ \E m \in n.macs : FoldedRow(n).name = Row(m).name
      BY <2>1, <2>2, <2>3, FoldedValues
    <3>2. Backfilled(n).name = FoldedRow(n).name
      BY <2>1, <2>2, <3>1, BackfilledValues
    <3> QED
      BY <2>2, <2>3, <3>1, <3>2
  <2>4. CASE f = "type"
    <3>1. FoldedRow(n).type # None /\ \E m \in n.macs : FoldedRow(n).type = Row(m).type
      BY <2>1, <2>2, <2>4, FoldedValues
    <3>2. Backfilled(n).type = FoldedRow(n).type
      BY <2>1, <2>2, <3>1, BackfilledValues
    <3> QED
      BY <2>2, <2>4, <3>1, <3>2
  <2> QED
    BY <2>3, <2>4
<1> QED
  BY <1>1, InventoryInvariant, PTL DEF InventorySpec, FoldKeepsValues

-----------------------------------------------------------------------------
(* The value a human confirmed *)

\* The row of a MAC holds what the operator said last, and what is said is kept.
\* Kept(m, f) is what a step must show of it.
Confirmed(m, f) == /\ said[m][f] # None /\ inv[m][f] = said[m][f] /\ m \notin late
                   /\ HasNode(m) => m = MinMac(nodes[NodeOf(m)].macs)

\* A confirmed value is a value of a row, not the absence of one.
LEMMA ConfirmedRow ==
  ASSUME RowsIInv, NEW m \in Macs, NEW f \in {"name", "type"}, Confirmed(m, f)
  PROVE  inv[m] \in InvRow /\ Row(m) = inv[m] /\ Row(m)[f] # None /\ inv[m][f] = said[m][f]
<1>1. said[m] \in InvRow /\ inv[m][f] = said[m][f] /\ said[m][f] # None
  BY DEF RowsIInv, Confirmed
<1>2. said[m].name # "norow" /\ said[m].type # "norow"
  BY <1>1 DEF InvRow, Names, Types, None
<1>3. inv[m] # NoRow
  BY <1>1, <1>2 DEF NoRow
<1> QED
  BY <1>1, <1>3, RowKnown

\* An automatic confirmation leaves the row of a confirmed MAC as it is.
LEMMA PromotionKeeps ==
  ASSUME NodesIInv, RowsIInv, ReadIInv, CandidateApply,
         NEW m \in Macs, NEW f \in {"name", "type"}, Confirmed(m, f)
  PROVE  inv'[m] = inv[m]
<1>1. Row(m).name # None \/ Row(m).type # None
  BY ConfirmedRow
<1>2. m \in Macs \ late /\ pc = "candapply"
  BY DEF Confirmed, CandidateApply
<1>3. [mac |-> m] \in read
  BY <1>1, <1>2 DEF ReadIInv, CandidatesRead
<1> QED
  BY <1>3, CandidatesStay

\* The backfill leaves the confirmed column of a device's lowest MAC as it is.
LEMMA BackfillKeeps ==
  ASSUME NodesIInv, RowsIInv, ReadIInv, SnapshotWrite,
         NEW m \in Macs, NEW f \in {"name", "type"}, Confirmed(m, f)
  PROVE  inv'[m][f] = inv[m][f]
<1>1. CASE ~HasNode(m)
  BY <1>1, SnapshotWrites
<1>2. CASE HasNode(m)
  <2> DEFINE i == NodeOf(m)
  <2>1. i \in Live /\ m = MinMac(nodes[i].macs)
    BY <1>2, NodeFound DEF Confirmed
  <2> HIDE DEF i
  <2>2. PICK n \in NodeRow :
            /\ n.macs = nodes[i].macs /\ n.macs # {}
            /\ MinMac(n.macs) \in n.macs
            /\ inv'[MinMac(n.macs)] = Backfilled(n)
    BY <2>1, SnapshotLeaves
  <2>3. inv'[m] = Backfilled(n) /\ m = MinMac(n.macs)
    BY <2>1, <2>2
  <2>4. Row(m) = inv[m] /\ Row(m)[f] # None
    BY ConfirmedRow
  <2>5. CASE f = "name"
    <3>1. FoldedRow(n).name = Row(m).name
      BY <2>2, <2>3, <2>4, <2>5, FoldedValues
    <3> QED
      BY <2>2, <2>3, <2>4, <2>5, <3>1, BackfilledValues
  <2>6. CASE f = "type"
    <3>1. FoldedRow(n).type = Row(m).type
      BY <2>2, <2>3, <2>4, <2>6, FoldedValues
    <3> QED
      BY <2>2, <2>3, <2>4, <2>6, <3>1, BackfilledValues
  <2> QED
    BY <2>5, <2>6
<1> QED
  BY <1>1, <1>2

\* A request that confirms nothing new leaves the confirmed values of its row: the
\* same function of the request is applied to what was said and to what the row holds.
LEMMA UpdateKeeps ==
  ASSUME NodesIInv, RowsIInv, NEW k \in Macs, NEW r \in Requests, InventoryUpdate(k, r),
         NEW m \in Macs, NEW f \in {"name", "type"}, Confirmed(m, f), said' = said
  PROVE  inv'[m][f] = inv[m][f]
<1> DEFINE x == [name |-> Given(Row(k).name, r.name), type |-> Given(Row(k).type, r.type)]
           y == [name |-> Given(said[k].name, r.name), type |-> Given(said[k].type, r.type)]
<1>1. inv' = [inv EXCEPT ![k] = x] /\ said' = [said EXCEPT ![k] = y]
  BY DEF InventoryUpdate
<1>2. said \in [Macs -> InvRow] /\ inv \in [Macs -> InvRow \cup {NoRow}]
  BY DEF RowsIInv
<1>3. Row(m) = inv[m] /\ inv[m][f] = said[m][f]
  BY ConfirmedRow
<1>4. x.name = Given(Row(k).name, r.name) /\ x.type = Given(Row(k).type, r.type)
      /\ y.name = Given(said[k].name, r.name) /\ y.type = Given(said[k].type, r.type)
  OBVIOUS
<1> HIDE DEF x, y
<1>5. y = said[k]
  BY <1>1, <1>2
<1>6. CASE m # k
  BY <1>1, <1>2, <1>6
<1>7. CASE m = k
  <2>1. inv'[m] = x
    BY <1>1, <1>2, <1>7
  <2>2. CASE f = "name"
    BY <1>3, <1>4, <1>5, <1>7, <2>1, <2>2
  <2>3. CASE f = "type"
    BY <1>3, <1>4, <1>5, <1>7, <2>1, <2>3
  <2> QED
    BY <2>2, <2>3
<1> QED
  BY <1>6, <1>7

\* The same for the row that a node's correction writes in its second commit.
LEMMA PersistKeeps ==
  ASSUME NodesIInv, RowsIInv, ReqIInv, PersistOverride,
         NEW m \in Macs, NEW f \in {"name", "type"}, Confirmed(m, f), said' = said
  PROVE  inv'[m][f] = inv[m][f]
<1>1. CASE ~Persists
  BY <1>1 DEF PersistOverride, Persists
<1>2. CASE Persists
  <2> DEFINE k == MinMac(nodes[req.node].macs)
             x == [name |-> Given(Row(k).name, req.name), type |-> Given(Row(k).type, req.type)]
             y == [name |-> Given(said[k].name, req.name), type |-> Given(said[k].type, req.type)]
  <2>1. inv' = [inv EXCEPT ![k] = x] /\ said' = [said EXCEPT ![k] = y]
    BY <1>2 DEF PersistOverride, Persists
  <2>2. k \in Macs
    BY <1>2, PersistsToMac
  <2> HIDE DEF k
  <2>3. said \in [Macs -> InvRow] /\ inv \in [Macs -> InvRow \cup {NoRow}]
    BY DEF RowsIInv
  <2>4. Row(m) = inv[m] /\ inv[m][f] = said[m][f]
    BY ConfirmedRow
  <2>5. x.name = Given(Row(k).name, req.name) /\ x.type = Given(Row(k).type, req.type)
        /\ y.name = Given(said[k].name, req.name) /\ y.type = Given(said[k].type, req.type)
    OBVIOUS
  <2> HIDE DEF x, y
  <2>6. y = said[k]
    BY <2>1, <2>2, <2>3
  <2>7. CASE m # k
    BY <2>1, <2>3, <2>7
  <2>8. CASE m = k
    <3>1. inv'[m] = x
      BY <2>1, <2>3, <2>8
    <3>2. CASE f = "name"
      BY <2>4, <2>5, <2>6, <2>8, <3>1, <3>2
    <3>3. CASE f = "type"
      BY <2>4, <2>5, <2>6, <2>8, <3>1, <3>3
    <3> QED
      BY <3>2, <3>3
  <2> QED
    BY <2>7, <2>8
<1> QED
  BY <1>1, <1>2

\* To delete a row is to say that nothing is confirmed any more.
LEMMA DeleteKeeps ==
  ASSUME RowsIInv, NEW k \in Macs, InventoryDelete(k),
         NEW m \in Macs, NEW f \in {"name", "type"}, Confirmed(m, f), said' = said
  PROVE  inv'[m][f] = inv[m][f]
<1>1. inv' = [inv EXCEPT ![k] = NoRow] /\ said' = [said EXCEPT ![k] = [name |-> None, type |-> None]]
  BY DEF InventoryDelete
<1>2. said \in [Macs -> InvRow] /\ inv \in [Macs -> InvRow \cup {NoRow}]
  BY DEF RowsIInv
<1>3. said[m][f] # None
  BY DEF Confirmed
<1>4. m # k
  <2> SUFFICES ASSUME m = k PROVE FALSE
    OBVIOUS
  <2>1. said[m] = [name |-> None, type |-> None]
    BY <1>1, <1>2
  <2> QED
    BY <1>3, <2>1
<1> QED
  BY <1>1, <1>2, <1>4

\* In every behaviour, what the operator confirmed for a MAC outlives every pass of the
\* engine, as long as the MAC names its node and the correction did not arrive between
\* what a pass reads and what it writes.
THEOREM ConfirmedValuesStay == InventorySpec => HumanValueKept
<1>1. InventoryIInv /\ [InventoryNext]_inventoryVars =>
        \A m \in Macs, f \in {"name", "type"} :
          /\ said[m][f] # None /\ inv[m][f] = said[m][f] /\ m \notin late
          /\ HasNode(m) => m = MinMac(nodes[NodeOf(m)].macs)
          /\ said' = said
          => inv'[m][f] = said[m][f]
  <2> SUFFICES ASSUME InventoryIInv, [InventoryNext]_inventoryVars,
                      NEW m \in Macs, NEW f \in {"name", "type"}, Confirmed(m, f), said' = said
               PROVE  inv'[m][f] = said[m][f]
    BY Zenon DEF Confirmed
  <2>1. NodesIInv /\ RowsIInv /\ ReqIInv /\ ReadIInv
    BY DEF InventoryIInv
  <2>2. inv[m][f] = said[m][f]
    BY DEF Confirmed
  <2>3. CASE CandidateApply
    BY <2>1, <2>2, <2>3, PromotionKeeps
  <2>4. CASE SnapshotWrite
    BY <2>1, <2>2, <2>4, BackfillKeeps
  <2>5. ASSUME NEW k \in Macs, NEW r \in Requests, InventoryUpdate(k, r)
        PROVE  inv'[m][f] = said[m][f]
    BY <2>1, <2>2, <2>5, UpdateKeeps
  <2>6. CASE PersistOverride
    BY <2>1, <2>2, <2>6, PersistKeeps
  <2>7. ASSUME NEW k \in Macs, InventoryDelete(k) PROVE inv'[m][f] = said[m][f]
    BY <2>1, <2>2, <2>7, DeleteKeeps
  <2>8. CASE inv' = inv
    BY <2>2, <2>8
  <2> QED
    BY <2>3, <2>4, <2>5, <2>6, <2>7, <2>8 DEF InventoryNext, Scrapers, DeepScan, Operator,
       ArpSighting, FdbSighting, CleanSlate, SmartSwitchDiscovery, HardwareWeld,
       SweepName, ArpConfirmedWeld, Singleton, Classification, CandidateRead, OverlayRead,
       OverlayApply, SnapshotRead, NodeUpdate, MirrorToNode, network, inventoryVars
<1> QED
  BY <1>1, InventoryInvariant, PTL DEF InventorySpec, HumanValueKept

-----------------------------------------------------------------------------
(* The seven together *)

\* Every behaviour of the dashboard model is one of each component, so that what is
\* proved of a component holds of the model the run checks.
LEMMA DashboardParts ==
  DashboardSpec => /\ InventorySpec /\ AccountsSpec /\ RegistrationSpec /\ InboxSpec
                   /\ FindingsSpec /\ VaultSpec /\ ApplianceSpec
<1>1. DashboardInit => /\ InventoryInit /\ AccountsInit /\ RegistrationInit /\ InboxInit
                       /\ FindingsInit /\ VaultInit /\ ApplianceInit
  BY DEF DashboardInit
<1>2. [DashboardNext]_dashboardVars =>
         /\ [InventoryNext]_inventoryVars /\ [AccountsNext]_accountVars
         /\ [RegistrationNext]_registrationVars /\ [InboxNext]_inboxVars
         /\ [FindingsNext]_findingVars /\ [VaultNext]_vaultVars
         /\ [ApplianceNext]_applianceVars
  BY DEF DashboardNext, dashboardVars
<1> QED
  BY <1>1, <1>2, PTL DEF DashboardSpec, InventorySpec, AccountsSpec, RegistrationSpec,
     InboxSpec, FindingsSpec, VaultSpec, ApplianceSpec

\* In every state of the dashboard model, the rows and settings of all seven
\* components have their types.
THEOREM DashboardTypes == DashboardSpec => []DashboardTypeOK
<1>1. /\ InventoryTypeOK /\ AccountsTypeOK /\ RegistrationTypeOK /\ InboxTypeOK
      /\ FindingsTypeOK /\ VaultTypeOK /\ ApplianceTypeOK
      <=> DashboardTypeOK
  BY DEF DashboardTypeOK
<1> QED
  BY <1>1, DashboardParts, InventoryTypes, AccountsTypes, RegistrationTypes, InboxTypes,
     FindingsTypes, VaultTypes, ApplianceTypes, PTL
================================================================================
