------------------------------- MODULE MCBeam --------------------------------
(* A small transition system for Beam: two actions, sequences that end after   *)
(* two or three steps, an oracle that sometimes allows both actions, and an    *)
(* action that is sometimes forbidden.                                        *)
EXTENDS Beam

MCIsFinal(path) == Len(path) = 3 \/ path = <<1, 1>>
MCIsAllowed(path, action) == ~MCIsFinal(path) /\ ~(path = <<0>> /\ action = 1)
MCOracle(path) ==
  CASE path = <<0>> -> <<0>>
    [] path = <<1>> -> <<1, 0>>
    [] OTHER -> <<Len(path) % 2>>
=============================================================================
