--------------------------- MODULE MCLatencyCache ---------------------------
(* Instances of LatencyCache for TLC. *)
EXTENDS LatencyCache

ThreeTimes == 0 .. 2
=============================================================================
