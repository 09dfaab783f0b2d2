-------------------------- MODULE MCSnmpCredentials --------------------------
(* Bounds for model checking SnmpCredentials: two addresses that may or may   *)
(* not belong to one node, and three calls: one that searches, one that waits *)
(* for it, and one that comes when the search is over and the other has not   *)
(* woken up yet.                                                              *)
EXTENDS SnmpCredentials, TLC

CONSTANTS a, b, p, q, r

MCAddresses == {a, b}
MCQueries == {p, q, r}
Symmetry == Permutations(MCAddresses) \cup Permutations(MCQueries)
=============================================================================
