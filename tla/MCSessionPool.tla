---------------------------- MODULE MCSessionPool ----------------------------
(* Model-checking instance of SessionPool. *)
EXTENDS SessionPool
=============================================================================
