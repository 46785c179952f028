------------------------- MODULE MCSchedulerOwnership -------------------------
(* TLC instance of SchedulerOwnership. *)
EXTENDS SchedulerOwnership, TLC

Symmetry == Permutations(Legacy)
=============================================================================
