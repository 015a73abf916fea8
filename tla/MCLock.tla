------------------------------- MODULE MCLock -------------------------------
(* Instance of Lock: four processes and two locks. *)
EXTENDS Lock, TLC

CONSTANTS p1, p2, p3, p4, l1, l2

Symmetry == Permutations(Procs) \cup Permutations(Locks)
=============================================================================
