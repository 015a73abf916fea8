--------------------------------- MODULE Mbr ---------------------------------
(***************************************************************************)
(* The partition server of init/mbr.c: one device served as the file raw   *)
(* and as one file for every used entry of the partition table that was    *)
(* read when the server started.  A block is known by who wrote it last and*)
(* by the number it has in the file it was written through; offsets and    *)
(* lengths are counted in blocks, as bread() and bwrite() round them down. *)
(***************************************************************************)
EXTENDS Naturals, FiniteSets

CONSTANTS NBlocks,  \* of the device
          Parts,    \* the entries of the table that are used
          Lba, Sectors, \* of each
          MaxBlocks,    \* that fit into the buffer of a request
          MaxBlock,     \* bound on the block a request starts with
          Raw, Nobody
MbrAssumption == /\ NBlocks \in Nat /\ MaxBlocks \in Nat /\ MaxBlock \in Nat
                 /\ Lba \in [Parts -> Nat \ {0}] /\ Sectors \in [Parts -> Nat]
                 /\ Raw \notin Parts /\ Nobody \notin Parts \cup {Raw}
                 /\ \A p \in Parts : Lba[p] + Sectors[p] <= NBlocks
                 /\ \A p, q \in Parts : p # q => \/ Lba[p] + Sectors[p] <= Lba[q]
                                                 \/ Lba[q] + Sectors[q] <= Lba[p]

VARIABLES disk,   \* what each block of the device contains
          own,    \* what was last acknowledged for each block of each file
          given,  \* the files whose number was given to a client
          reply,  \* the last answer
          alive   \* the server runs
vars == <<disk, own, given, reply, alive>>

Files == Parts \cup {Raw}
lba(f) == IF f = Raw THEN 0 ELSE Lba[f]
sectors(f) == IF f = Raw THEN NBlocks ELSE Sectors[f]
Wrote(f, k) == [by |-> f, at |-> k]
Untouched == [by |-> Nobody, at |-> 0]
NoReply == [file |-> Raw, blk |-> 0, data |-> <<>>]
RootSize == 1 + Cardinality(Parts)

Init == /\ disk = [b \in 0..NBlocks - 1 |-> Untouched]
        /\ own = [f \in Parts |-> [k \in 0..NBlocks - 1 |-> Untouched]]
        /\ given = {} /\ reply = NoReply /\ alive = TRUE

(* Mutant: the end of the file is not looked at. *)
ReachedAll(f, blk, n) == IF lba(f) + blk + n <= NBlocks THEN n ELSE 0
(* The loops of readblocks() and writeblocks() compare the number a block  *)
(* has on the device with the length of the file.                          *)
Reached(f, blk, n) == LET b == lba(f) + blk IN
    IF b >= sectors(f) THEN 0 ELSE IF b + n <= sectors(f) THEN n ELSE sectors(f) - b

GetFid(f) == /\ given' = given \cup {f} /\ UNCHANGED <<disk, own, reply, alive>>

(* A read that starts behind the text of the root directory has a length   *)
(* below zero, and memmove() copies until the server faults.               *)
ReadRoot(offset) == /\ offset > RootSize /\ alive' = FALSE
                    /\ UNCHANGED <<disk, own, given, reply>>

Read(f, blk, n) ==
  /\ f \in given
  /\ LET m == Reached(f, blk, n) IN
     reply' = [file |-> f, blk |-> blk, data |-> [i \in 1..m |-> disk[lba(f) + blk + i - 1]]]
  /\ UNCHANGED <<disk, own, given, alive>>
ReadFails(f, blk, n) == /\ f \in given /\ Reached(f, blk, n) > 0 /\ reply' = NoReply
                        /\ UNCHANGED <<disk, own, given, alive>>

(* The first done of the blocks are written; done is less than all that    *)
(* were reached when the device fails.                                     *)
Write(f, blk, n) ==
  /\ f \in given
  /\ \E done \in 0..Reached(f, blk, n) :
       LET Hit(b) == b \in lba(f) + blk..lba(f) + blk + done - 1
           New(b) == Wrote(f, b - lba(f))
       IN /\ disk' = [b \in DOMAIN disk |-> IF Hit(b) THEN New(b) ELSE disk[b]]
          /\ own' = [p \in Parts |-> [k \in DOMAIN own[p] |->
                       IF f \in {p, Raw} /\ Hit(Lba[p] + k) THEN New(Lba[p] + k) ELSE own[p][k]]]
  /\ reply' = NoReply
  /\ UNCHANGED <<given, alive>>

Request == \E blk \in 0..MaxBlock, n \in 0..MaxBlocks : \E f \in Files :
             Read(f, blk, n) \/ ReadFails(f, blk, n) \/ Write(f, blk, n)
Next == alive /\ \/ \E f \in Files : GetFid(f)
                 \/ \E offset \in 0..RootSize + 1 : ReadRoot(offset)
                 \/ Request

Spec == Init /\ [][Next]_vars
-----------------------------------------------------------------------------
TypeOK == /\ DOMAIN disk = 0..NBlocks - 1 /\ given \subseteq Files /\ alive \in BOOLEAN
          /\ reply.file \in Files /\ \A b \in DOMAIN disk : disk[b].by \in Files \cup {Nobody}

(* A file of the server is a device of its own: what a read of a partition *)
(* returns is what was last written at that place through this partition,  *)
(* or through raw at the block that is the same one, whatever was written  *)
(* through the other partitions, beyond the ends and with a failing device.*)
PartsApart == reply.file # Raw => \A i \in DOMAIN reply.data :
                reply.data[i] = own[reply.file][reply.blk + i - 1]
=============================================================================
