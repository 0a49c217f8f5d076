------------------------------ MODULE MCTasks ------------------------------
(* Values for the constants of Tasks.                                      *)
EXTENDS Tasks

Symmetry == Permutations(Threads \ YieldingNatives)
=============================================================================
