----------------------------- MODULE MCMessage -----------------------------
(* Instance of Message: the senders share an agroup with the process that     *)
(* gives the address up, the servers have one of their own.                 *)
EXTENDS Message, TLC

CONSTANTS s1, s2, s3, v1, v2, u1

MCGroupOf == [q \in Procs |-> IF q \in Servers THEN "serving" ELSE "sending"]

Symmetry == Permutations(Senders) \cup Permutations(Servers)
=============================================================================
