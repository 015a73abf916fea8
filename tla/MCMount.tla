------------------------------ MODULE MCMount ------------------------------
(* Instance of Mount: clients that are all alike. *)
EXTENDS Mount, TLC

CONSTANTS c1, c2, c3, m

Symmetry == Permutations(Clients)
=============================================================================
