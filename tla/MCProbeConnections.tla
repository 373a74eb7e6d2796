------------------------- MODULE MCProbeConnections -------------------------
(* Values for the constants of ProbeConnections. *)
EXTENDS ProbeConnections, TLC

CONSTANTS t1, t2, t3, d1, d2

ThreeTCP == {t1, t2, t3}
TwoDNS == {d1, d2}
=============================================================================
