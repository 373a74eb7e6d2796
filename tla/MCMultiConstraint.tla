-------------------------- MODULE MCMultiConstraint --------------------------
(* Latencies and rings of MultiConstraint for TLC.                            *)
EXTENDS MultiConstraint

CONSTANTS n1, n2, n3, t1, t2

\* n1 and n2 miss the constraints by as little (an average excess of 1, which
\* is also the threshold, rounded), so a request can come back; n3 misses by more.
SteadyMeasures ==
    (n1 :> (t1 :> {4} @@ t2 :> {4})) @@ (n2 :> (t1 :> {4} @@ t2 :> {2})) @@
    (n3 :> (t1 :> {7} @@ t2 :> {5}))
Limits == t1 :> 1 @@ t2 :> 2
OneToProbe == {{t1}, {t1, t2}}
Rings == (n1 :> {n2, n3}) @@ (n2 :> {n1}) @@ (n3 :> {})
==============================================================================
