------------------------------ MODULE MCKernel -------------------------------
(* Instances of the parts of the kernel. *)
EXTENDS Kernel, TLC

(* The kernel's heap and a program's, and the segments of a program. *)
MCHeaps ==
  {[Library |-> FALSE, PageWords |-> 10, PagelWords |-> 3, BlockMax |-> 2,
    Start |-> [at |-> 12, words |-> 8], Sites |-> {0, 20}, Requests |-> {1, 2}],
   [Library |-> TRUE, PageWords |-> 8, PagelWords |-> 3, BlockMax |-> 1,
    Start |-> [at |-> 0, words |-> 2], Sites |-> {0, 8}, Requests |-> {1, 8}]}
MCSegments == {<<1, 1>>, <<1, 2>>, <<2, 1>>}

Symmetry == Permutations(Users) \cup Permutations(Chans)
=============================================================================
