------------------------------- MODULE MCFid -------------------------------
(* Instances of Fid: a root with a file and a directory with a file. *)
EXTENDS Fid, TLC

CONSTANTS p1, p2, o1, o2, o3, dR, dD, fF, fG, fH, x, y

MCChild == [k \in {dR, dD} \X {x, y} |->
             CASE k = <<dR, x>> -> dD
               [] k = <<dR, y>> -> fG
               [] k = <<dD, x>> -> fF
               [] k = <<dD, y>> -> fH]

MCPaths == {<<x, x>>, <<x>>, <<y, x>>}

Symmetry == Permutations(Procs) \cup Permutations(Objs \ {root})
=============================================================================
