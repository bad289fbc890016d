---------------------------- MODULE MCSharedStore ----------------------------
(* SharedStore for TLC. *)
EXTENDS SharedStore
=============================================================================
