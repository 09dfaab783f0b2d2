--------------------------- MODULE MCAlertDispatch ---------------------------
(* Bounds for model checking AlertDispatch: two alerts and batches of one, so *)
(* that an alert may have to wait for an older one, which may be waiting for  *)
(* the channel that does not answer.                                          *)
EXTENDS AlertDispatch

MCMaxAlerts == 2
MCBatchLimit == 1
BothChannels == {"email", "webhook"}
OneChannel == {"email"}

\* Bound: a behaviour has a second alert, or a reset and a lost answer, not both.
\* No fair action is held back by it.
MCNext == Next /\ (created' <= 1 \/ (resets' = 0 /\ timeouts' = 0))

MCSpec == Init /\ [][MCNext]_vars /\ Fairness
=============================================================================
