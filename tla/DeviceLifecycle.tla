--------------------------- MODULE DeviceLifecycle ---------------------------
(***************************************************************************)
(* What the device state tracker promises a reader of device_state and of  *)
(* the alert inbox: a device moves between new, online and offline along   *)
(* the legal edges only, and a move that is worth an alert becomes visible *)
(* in the same step as its alert, never without it and never before it,    *)
(* unless alerts of that kind are being held back.  A device found to be    *)
(* no neighbour is forgotten together with its alerts.                      *)
(***************************************************************************)

CONSTANT Devices

VARIABLES
  status,   \* status[d]: the row of d in device_state, "unknown" without one
  told,     \* told[d]: the newest alert about d in the inbox
  quiet,    \* the pass at work suppresses offline and online alerts
  initial   \* the pass at work suppresses new-device alerts

vars == <<status, told, quiet, initial>>

Statuses == {"unknown", "new", "online", "offline"}
Alerts == {"none", "new_device", "device_online", "device_offline"}

TypeOK ==
  /\ status \in [Devices -> Statuses]
  /\ told \in [Devices -> Alerts]
  /\ quiet \in BOOLEAN
  /\ initial \in BOOLEAN

Init ==
  /\ status = [d \in Devices |-> "unknown"]
  /\ told = [d \in Devices |-> "none"]
  /\ quiet = FALSE
  /\ initial = FALSE

\* The edges that call for an alert, and the alert each of them calls for.
Announced(from, to, alert) ==
  \/ from = "unknown" /\ to = "new" /\ alert = "new_device"
  \/ from = "offline" /\ to = "online" /\ alert = "device_online"
  \/ from \in {"new", "online"} /\ to = "offline" /\ alert = "device_offline"

\* The edges that may be taken without one.
Silent(from, to) ==
  \/ from = to
  \/ from = "new" /\ to = "online"
  \/ initial /\ from = "unknown" /\ to = "new"
  \/ quiet /\ from = "offline" /\ to = "online"
  \/ quiet /\ from \in {"new", "online"} /\ to = "offline"

Moves(d) ==
  \/ Silent(status[d], status'[d]) /\ told'[d] = told[d]
  \/ Announced(status[d], status'[d], told'[d])
  \/ status'[d] = "unknown" /\ told'[d] = "none"

\* Many devices may move at once: a pass becomes visible commit by commit.
\* What the pass holds back is settled before it writes anything.
Next ==
  /\ status' \in [Devices -> Statuses]
  /\ told' \in [Devices -> Alerts]
  /\ \A d \in Devices : Moves(d)
  /\ quiet' \in BOOLEAN /\ initial' \in BOOLEAN

Spec == Init /\ [][Next]_vars
=============================================================================
