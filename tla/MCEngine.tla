------------------------------- MODULE MCEngine -------------------------------
(* Engine for TLC: three keys and two interchangeable values. *)
EXTENDS Engine, TLC

ValueSymmetry == Permutations(Values)
=============================================================================
