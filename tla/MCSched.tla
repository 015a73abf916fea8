------------------------------ MODULE MCSched ------------------------------
(* Instance of Sched: process structures that are all alike until forked,   *)
(* under two loads: three processes that do everything, and four that never *)
(* block.                                                                   *)
EXTENDS Sched

CONSTANTS p1, p2, p3, p4

Everything == [ops |-> {"fork", "wait", "sleep", "yield"}, procs |-> {p1, p2, p3}]
Busy(procs) == [ops |-> {"fork", "yield"}, procs |-> procs]
MCLoads == {Everything, Busy(Procs)}
MCFairLoads == {Busy(Procs)}

Symmetry == Permutations(Procs \ {First})
=============================================================================
