------------------------------ MODULE AlertInbox ------------------------------
(* The inbox of alerts and the badge that announces it: the routes under         *)
(* /api/alerts (server.py) against the poller, another process, whose            *)
(* create_alert() inserts and commits in network.db and then sets                *)
(* ALERTS_HAS_NEW in config.db.  A route awaits nothing, so the routes exclude   *)
(* one another, but each of them uses the two databases one after the other too. *)
EXTENDS Integers, FiniteSets

CONSTANTS
    Alerts,         \* bound: the rows that are ever inserted
    SeverityOf,     \* the severity of each of them
    TypeOf,         \* and its alert_type
    MaxSwallowed    \* bound: writes of the badge that fail

NoAlert == "none"

ASSUME InboxAssumption == NoAlert \notin Alerts /\ MaxSwallowed \in Nat

Severities == {SeverityOf[a] : a \in Alerts}
AlertTypes == {TypeOf[a] : a \in Alerts}
Statuses == {"all", "new", "acknowledged"}

VARIABLES
    status,     \* alerts: absent, new (read_at IS NULL), acknowledged or deleted
    hasNew,     \* ALERTS_HAS_NEW
    creating,   \* the alert that is inserted but has not set the badge
    request,    \* a route between its two databases
    announced,  \* history: alerts inserted since the badge was last dismissed
    raced,      \* history: an alert came in between the two writes of a request
    swallowed

inboxVars == <<status, hasNew, creating, request, announced, raced, swallowed>>
NoRequest == [clear |-> FALSE, under_way |-> FALSE]

InboxInit ==
    /\ status = [a \in Alerts |-> "absent"] /\ hasNew = FALSE
    /\ creating = NoAlert /\ request = NoRequest
    /\ announced = {} /\ raced = FALSE /\ swallowed = 0

-----------------------------------------------------------------------------
(* The poller *)

InsertAlert(a) ==
    /\ creating = NoAlert /\ status[a] = "absent"
    /\ status' = [status EXCEPT ![a] = "new"] /\ creating' = a
    /\ announced' = announced \cup {a}
    /\ raced' = (raced \/ request # NoRequest)
    /\ UNCHANGED <<hasNew, request, swallowed>>

SetBadge ==
    /\ creating # NoAlert /\ creating' = NoAlert
    /\ hasNew' = TRUE
    /\ raced' = (raced \/ request # NoRequest)
    /\ UNCHANGED <<status, request, announced, swallowed>>

\* _set_setting() swallows a failed write, and so does a crash.
BadgeNotSet ==
    /\ creating # NoAlert /\ swallowed < MaxSwallowed
    /\ creating' = NoAlert /\ swallowed' = swallowed + 1
    /\ UNCHANGED <<status, hasNew, request, announced, raced>>

\* prune_alerting_history(), when an alert is a year old.
PruneAlert(a) ==
    /\ status[a] \in {"new", "acknowledged"} /\ creating # a
    /\ status' = [status EXCEPT ![a] = "deleted"]
    /\ UNCHANGED <<hasNew, creating, request, announced, raced, swallowed>>

-----------------------------------------------------------------------------
(* The routes *)

Unread(st) == {a \in Alerts : st[a] = "new"}

\* _alert_filter_clauses()
Matches(a, st, sev, typ) ==
    /\ status[a] \in (IF st = "all" THEN {"new", "acknowledged"} ELSE {st})
    /\ sev \in {"all", SeverityOf[a]}
    /\ typ \in {"all", TypeOf[a]}

\* POST /api/alerts/{id}/read and DELETE /api/alerts/{id}: the badge stays.
MarkRead(a) ==
    /\ request = NoRequest /\ status[a] = "new"
    /\ status' = [status EXCEPT ![a] = "acknowledged"]
    /\ UNCHANGED <<hasNew, creating, request, announced, raced, swallowed>>

DeleteAlert(a) ==
    /\ request = NoRequest /\ status[a] \in {"new", "acknowledged"}
    /\ status' = [status EXCEPT ![a] = "deleted"]
    /\ UNCHANGED <<hasNew, creating, request, announced, raced, swallowed>>

\* What is left unread is counted in the transaction, over the whole inbox.
MutantLeftUnread(sev) == {a \in Unread(status') : sev \in {"all", SeverityOf[a]}}
LeftUnread(sev) == Unread(status')

\* POST /api/alerts/mark-all-read, the part in network.db: the level is its only
\* filter.
MarkAllRead(sev) ==
    /\ request = NoRequest
    /\ status' = [a \in Alerts |-> IF Matches(a, "new", sev, "all") THEN "acknowledged" ELSE status[a]]
    /\ request' = [clear |-> LeftUnread(sev) = {}, under_way |-> TRUE]
    /\ UNCHANGED <<hasNew, creating, announced, raced, swallowed>>

\* DELETE /api/alerts with at least one filter set.
DeleteAlerts(st, sev, typ) ==
    /\ request = NoRequest /\ {st, sev, typ} # {"all"}
    /\ status' = [a \in Alerts |-> IF Matches(a, st, sev, typ) THEN "deleted" ELSE status[a]]
    /\ request' = [clear |-> LeftUnread(sev) = {}, under_way |-> TRUE]
    /\ UNCHANGED <<hasNew, creating, announced, raced, swallowed>>

\* The part in config.db.
ClearBadge ==
    /\ request # NoRequest /\ request' = NoRequest
    /\ hasNew' = (hasNew /\ ~request.clear)
    /\ UNCHANGED <<status, creating, announced, raced, swallowed>>

\* POST /api/alerts/acknowledge, when the page is opened.
Acknowledge ==
    /\ request = NoRequest
    /\ hasNew' = FALSE /\ announced' = {}
    /\ UNCHANGED <<status, creating, request, raced, swallowed>>

InboxNext ==
    \/ \E a \in Alerts : InsertAlert(a) \/ PruneAlert(a) \/ MarkRead(a) \/ DeleteAlert(a)
    \/ SetBadge \/ BadgeNotSet \/ ClearBadge \/ Acknowledge
    \/ \E sev \in Severities \cup {"all"} :
         \/ MarkAllRead(sev)
         \/ \E st \in Statuses, typ \in AlertTypes \cup {"all"} : DeleteAlerts(st, sev, typ)

InboxSpec == InboxInit /\ [][InboxNext]_inboxVars

-----------------------------------------------------------------------------
(* Properties *)

\* Types: the rows of alerts, the badge and the request under way.
InboxTypeOK ==
    /\ status \in [Alerts -> {"absent", "new", "acknowledged", "deleted"}]
    /\ hasNew \in BOOLEAN /\ creating \in Alerts \cup {NoAlert}
    /\ request \in [clear : BOOLEAN, under_way : BOOLEAN]
    /\ announced \subseteq Alerts /\ raced \in BOOLEAN /\ swallowed \in 0..MaxSwallowed

\* An unread alert that came in since the badge was last dismissed keeps it lit,
\* whatever is read, deleted and filtered in the inbox meanwhile, unless the
\* write of the badge failed or the alert fell between the two writes of a request.
UnreadKeepsBadge ==
    Unread(status) \cap announced # {} =>
        hasNew \/ creating # NoAlert \/ raced \/ swallowed > 0
===============================================================================
