------------------------------- MODULE Rootfs --------------------------------
(***************************************************************************)
(* The root file system of init, init/rootfs.c: a server that keeps only   *)
(* directories and gives every lookup a fid of a small table.  The kernel  *)
(* asks for a file it has no fid for, gives up a fid nobody uses, and asks *)
(* to remove one that only the remover has; two lookups of one name at the *)
(* same time are left out.  bremove() goes on after the tests of what is   *)
(* open or not empty.                                                      *)
(***************************************************************************)
EXTENDS Integers, FiniteSets, SequencesExt

CONSTANTS Files, None, Root,
          FidsMax,  \* FIDSMAX: the fids are 0..FidsMax - 1
          MaxOpen,  \* bound on the channels on a fid
          MaxName   \* bound on lname
RootfsAssumption == /\ Root \in Files /\ None \notin Files
                    /\ FidsMax \in Nat \ {0} /\ MaxOpen \in Nat /\ MaxName \in Nat \ {0}

VARIABLES fids,     \* the table of fids: a file or nil
          children, \* the list of a directory, the newest first
          parent, size, open, lname, \* of a file
          live,     \* files that are not freed
          chans,    \* the kernel: channels on each fid
          gone      \* fids that the kernel removed and has not given up yet
vars == <<fids, children, parent, size, open, lname, live, chans, gone>>

ROOTFID == 0
Fids == 0..FidsMax - 1

Init == /\ fids = [i \in Fids |-> IF i = ROOTFID THEN Root ELSE None]
        /\ children = [f \in Files |-> <<>>] /\ parent = [f \in Files |-> None]
        /\ size = [f \in Files |-> 0] /\ open = [f \in Files |-> 0]
        /\ lname = [f \in Files |-> 0]
        /\ live = {Root} /\ chans = [i \in Fids |-> 0] /\ gone = {}

Used(i) == fids[i] # None /\ i \notin gone
NilFids == {i \in Fids \ {ROOTFID} : fids[i] = None}
FreeFid == CHOOSE i \in NilFids : \A j \in NilFids : i <= j

(* bgetfid(): the first slot that is nil *)
Getfid(d, c) == /\ Used(d) /\ Contains(children[fids[d]], c) /\ NilFids # {}
                /\ \A i \in Fids : fids[i] # c
                /\ fids' = [fids EXCEPT ![FreeFid] = c]
                /\ UNCHANGED <<children, parent, size, open, lname, live, chans, gone>>

(* Mutant: a fid is given up while others are below it. *)
ClunkFirst(i) == /\ i # ROOTFID /\ Used(i)
                 /\ fids' = [fids EXCEPT ![i] = None] /\ gone' = gone \ {i}
                 /\ UNCHANGED <<children, parent, size, open, lname, live, chans>>

(* bclunk(): the kernel has no channel on it and no fid below it. *)
Clunk(i) == /\ i # ROOTFID /\ fids[i] # None /\ chans[i] = 0
            /\ \A j \in Fids : Used(j) /\ j # i => parent[fids[j]] # fids[i]
            /\ fids' = [fids EXCEPT ![i] = None] /\ gone' = gone \ {i}
            /\ UNCHANGED <<children, parent, size, open, lname, live, chans>>

Open(i) == /\ Used(i) /\ chans[i] < MaxOpen
           /\ open' = [open EXCEPT ![fids[i]] = @ + 1] /\ chans' = [chans EXCEPT ![i] = @ + 1]
           /\ UNCHANGED <<fids, children, parent, size, lname, live, gone>>
Close(i) == /\ chans[i] > 0
            /\ open' = [open EXCEPT ![fids[i]] = @ - 1] /\ chans' = [chans EXCEPT ![i] = @ - 1]
            /\ UNCHANGED <<fids, children, parent, size, lname, live, gone>>

(* bcreate(), with a slot left (without one it writes behind the table) *)
Create(d, new, l) ==
    LET p == fids[d]
    IN  /\ Used(d) /\ new \notin live /\ NilFids # {} /\ \A i \in Fids : fids[i] # new
        /\ fids' = [fids EXCEPT ![FreeFid] = new]
        /\ children' = [children EXCEPT ![p] = <<new>> \o @, ![new] = <<>>]
        /\ parent' = [parent EXCEPT ![new] = p]
        /\ size' = [size EXCEPT ![p] = @ + 1, ![new] = 0]
        /\ open' = [open EXCEPT ![new] = 0] /\ lname' = [lname EXCEPT ![new] = l]
        /\ live' = live \cup {new}
        /\ UNCHANGED <<chans, gone>>

(* bremove(): what the directory contains stays allocated, out of reach.   *)
RemoveFile(i) == LET f == fids[i]
                     p == parent[f]
                 IN  /\ i # ROOTFID /\ Used(i) /\ chans[i] = 0
                     /\ \A j \in Fids : Used(j) /\ j # i => parent[fids[j]] # f
                     /\ children' = [children EXCEPT ![p] = SelectSeq(@, LAMBDA c : c # f)]
                     /\ size' = [size EXCEPT ![p] = @ - 1]
                     /\ live' = live \ {f} /\ gone' = gone \cup {i}
                     /\ UNCHANGED <<fids, parent, open, lname, chans>>

(* breaddir(): w has the bytes read so far and what is left of the offset. *)
(* Byte 0 of an entry is the length of its name, byte k the k-th of it.    *)
Bytes(c, from, n) == [k \in 1..n |-> <<c, from + k>>]
Name(w, c, len) ==
    LET l == IF Len(w.out) + lname[c] - w.off > len THEN len - Len(w.out) ELSE lname[c]
    IN  IF Len(w.out) >= len THEN w ELSE [out |-> w.out \o Bytes(c, w.off, l - w.off), off |-> 0]
Entry(w, c, len) ==
    IF Len(w.out) >= len THEN w
    ELSE IF w.off >= lname[c] + 1 THEN [w EXCEPT !.off = @ - (lname[c] + 1)]
    ELSE IF w.off = 0 THEN Name([w EXCEPT !.out = Append(@, <<c, 0>>)], c, len)
    ELSE Name([w EXCEPT !.off = @ - 1], c, len)
breaddir(d, offset, len) == FoldLeft(LAMBDA w, c : Entry(w, c, len),
                                     [out |-> <<>>, off |-> offset], children[d]).out

Next == \E i \in Fids : \/ Clunk(i) \/ Open(i) \/ Close(i) \/ RemoveFile(i)
                        \/ \E f \in Files : Getfid(i, f) \/ \E l \in 1..MaxName : Create(i, f, l)

Spec == Init /\ [][Next]_vars
-----------------------------------------------------------------------------
TypeOK == /\ fids \in [Fids -> Files \cup {None}] /\ live \subseteq Files
          /\ parent \in [Files -> Files \cup {None}] /\ chans \in [Fids -> 0..MaxOpen]
          /\ \A f \in Files : ToSet(children[f]) \subseteq Files

(* Every fid of the kernel is a file that is not freed, on the way from the*)
(* root, and is open as often as the kernel has channels on it, whatever   *)
(* was removed meanwhile; no two fids are the same file.                   *)
FidsLead == \A i \in Fids : Used(i) =>
              /\ fids[i] \in live /\ open[fids[i]] = chans[i]
              /\ i # ROOTFID => Contains(children[parent[fids[i]]], fids[i])
              /\ \A j \in Fids : fids[j] = fids[i] => j = i

(* The size of a directory is the number of files in it. *)
SizeIsChildren == \A f \in live : size[f] = Len(children[f])

(* Reading a directory piece by piece gives all of its text, in order, with*)
(* any buffer that can hold one entry: each piece is what the text has at  *)
(* that offset, and it is empty only at the end.                           *)
TextOf(d) == FlattenSeq([k \in DOMAIN children[d] |->
                           LET c == children[d][k] IN Bytes(c, -1, lname[c] + 1)])
ReadDirExact ==
    \A d \in live : LET text == TextOf(d)
                    IN  \A offset \in 0..Len(text), len \in MaxName + 1..2 * MaxName + 2 :
                          breaddir(d, offset, len) =
                            SubSeq(text, offset + 1, IF offset + len > Len(text) THEN Len(text) ELSE offset + len)

(* Fids lead to the files they were given for, and directories read, in    *)
(* pieces of any length, as what is in them.                               *)
RootSound == FidsLead /\ SizeIsChildren /\ ReadDirExact
=============================================================================
