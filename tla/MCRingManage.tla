---------------------------- MODULE MCRingManage ----------------------------
(* Instances of RingManage for TLC. *)
EXTENDS RingManage, TLC

ManageSymmetry == Permutations(Nodes)

\* One latency keeps every node in ring 0; two spread them over two rings.
OneLatency == {900}
TwoLatencies == {900, 1500}
=============================================================================
