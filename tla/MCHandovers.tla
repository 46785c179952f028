---------------------------- MODULE MCHandovers ----------------------------
(* TLC instance of Handovers. *)
EXTENDS Handovers, TLC

HSymmetry == Permutations(Legacy) \cup Permutations(Invocation)
=============================================================================
