----------------------------- MODULE MCServers -------------------------------
(* Instances of the file servers. *)
EXTENDS Servers, TLC

(* Two partitions, the second behind the first.                            *)
CONSTANTS f1, f2, f3, f4
MCNodes == {f1, f2, f3, f4}
MCParts == {f2, f3}
MCLba == (f2 :> 1) @@ (f3 :> 3)
MCSectors == (f2 :> 2) @@ (f3 :> 4)

Symmetry == Permutations(Names) \cup Permutations(Values)
=============================================================================
