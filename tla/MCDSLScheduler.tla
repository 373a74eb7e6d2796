--------------------------- MODULE MCDSLScheduler ---------------------------
(* Values for the constants of DSLScheduler. *)
EXTENDS DSLScheduler

CONSTANTS a, b

TwoThreads == {a, b}
=============================================================================
