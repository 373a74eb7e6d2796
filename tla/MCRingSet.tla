----------------------------- MODULE MCRingSet -----------------------------
(* Instances of RingSet for TLC. *)
EXTENDS RingSet, TLC

\* Nodes are interchangeable in every property checked here.
NodeSymmetry == Permutations(Nodes)

\* With ExponentBase 2 the ring bounds are 1000 and 2000 microseconds, so
\* these fall in the rings 0, 1 and 2 of three rings; 900 and 1200 are within
\* half of each other across a ring boundary.
ThreeLatencies == {900, 1200, 2600}

\* Rings 0 and 1 of two rings.
TwoLatencies == {900, 1500}
============================================================================
