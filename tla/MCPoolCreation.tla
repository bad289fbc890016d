--------------------------- MODULE MCPoolCreation ----------------------------
(* Model-checking instance of PoolCreation. *)
EXTENDS PoolCreation
=============================================================================
