--------------------------- MODULE MCPollingEngine ---------------------------
(* Bounds for model checking PollingEngine: a deep scan every third tick and  *)
(* ticks up to 5, so that every residue and the fold past MaxTick occur.      *)
EXTENDS PollingEngine

MCSlowInterval == 3
MCMaxTick == 5
=============================================================================
