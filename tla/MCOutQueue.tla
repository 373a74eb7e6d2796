----------------------------- MODULE MCOutQueue -----------------------------
(* Values for the constants of OutQueue. *)
EXTENDS OutQueue

AllKinds == {"direct", "wrapped", "unwrappable"}
=============================================================================
