--------------------------- MODULE MCClosestSearch ---------------------------
(* Latencies and rings of ClosestSearch for TLC: a chain, a tie and a loop.   *)
EXTENDS ClosestSearch

CONSTANTS n1, n2, n3

\* Every node always measures the same.  Half of 2 rounds to 1 and half of 1 to
\* 1: a request can come back between n2 and n3.
SteadyLat == (n1 :> {2}) @@ (n2 :> {1}) @@ (n3 :> {1})

\* n2 and n3 know each other, and one of them the farther node n1.
Rings == (n1 :> {n2}) @@ (n2 :> {n3}) @@ (n3 :> {n1, n2})
==============================================================================
