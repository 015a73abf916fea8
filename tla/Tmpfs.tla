-------------------------------- MODULE Tmpfs --------------------------------
(***************************************************************************)
(* The file server bin/tmpfs/mount.c under the loop of lib/libfssrv: one   *)
(* request at a time is read, carried out and answered.  The requests come *)
(* from the kernel, which asks for a name when it has no fid for it, asks  *)
(* to close what it opened, and to remove what nobody else uses            *)
(* (fileremove() of kern/file.c).                                          *)
(* A directory keeps its children twice: in the list cnext and, for reads, *)
(* as the text in buf.                                                     *)
(***************************************************************************)
EXTENDS Naturals, SequencesExt, Functions

CONSTANTS Names, Values,
          MaxFids, MaxSize, MaxOpen  \* bounds: fids ever given, size of a file, open count
TmpfsAssumption == MaxFids \in Nat \ {0} /\ MaxSize \in Nat /\ MaxOpen \in Nat

RootFid == 0
Fids == RootFid..MaxFids
NoFile == [there |-> FALSE]

VARIABLES file,     \* by fid: [there, name, parent, dir, size, buf, open]; buf has lbuf elements
          children, \* the list of a directory, the newest first
          nfid,
          held, chans,  \* the kernel: fids it has, and how many channels on each
          wrote     \* what was last written at each offset of a file, since it was created
vars == <<file, children, nfid, held, chans, wrote>>
kernel == <<held, chans>>

New(name, parent, dir) == [there |-> TRUE, name |-> name, parent |-> parent, dir |-> dir,
                           size |-> 0, buf |-> <<>>, open |-> 0]

Init == /\ file = [f \in Fids |-> IF f = RootFid THEN New("root", RootFid, TRUE) ELSE NoFile]
        /\ children = [f \in Fids |-> <<>>] /\ nfid = RootFid + 1
        /\ held = {RootFid} /\ chans = [f \in Fids |-> 0]
        /\ wrote = [f \in Fids |-> <<>>]

(* findfile() reaches every file in the tree below root. *)
findfile(f) == file[f].there
Named(d, name) == {i \in DOMAIN children[d] : file[children[d][i]].name = name}

(* bgetfid(): the first of that name *)
Getfid(d, name) == /\ d \in held /\ findfile(d) /\ file[d].dir
                   /\ \A i \in Named(d, name) : children[d][i] \notin held
                   /\ \E i \in Named(d, name) : /\ \A j \in Named(d, name) : i <= j
                                                /\ held' = held \cup {children[d][i]}
                   /\ UNCHANGED <<file, children, nfid, chans, wrote>>

(* bclunk() does nothing; the kernel has given the fid up. *)
Clunk(f) == /\ f \in held \ {RootFid} /\ chans[f] = 0
            /\ \A c \in held \ {RootFid} : file[c].there => file[c].parent # f
            /\ held' = held \ {f}
            /\ UNCHANGED <<file, children, nfid, chans, wrote>>

Open(f) == /\ f \in held /\ findfile(f) /\ file[f].open < MaxOpen
           /\ file' = [file EXCEPT ![f].open = @ + 1]
           /\ chans' = [chans EXCEPT ![f] = @ + 1]
           /\ UNCHANGED <<children, nfid, held, wrote>>
(* Mutant: a close is not counted. *)
CloseForgets(f) == /\ chans[f] > 0 /\ findfile(f)
                   /\ chans' = [chans EXCEPT ![f] = @ - 1]
                   /\ UNCHANGED <<file, children, nfid, held, wrote>>
Close(f) == /\ chans[f] > 0 /\ findfile(f)
            /\ file' = [file EXCEPT ![f].open = @ - 1]
            /\ chans' = [chans EXCEPT ![f] = @ - 1]
            /\ UNCHANGED <<children, nfid, held, wrote>>

(* addchild(): the name goes to the end of the text, the file to the front *)
(* of the list.  A name that two processes create at once is there twice.  *)
Create(d, name, dir) ==
    /\ d \in held /\ findfile(d) /\ file[d].dir /\ nfid \in Fids
    /\ file' = [file EXCEPT ![nfid] = New(name, d, dir),
                            ![d].buf = Append(@, name), ![d].size = @ + 1]
    /\ children' = [children EXCEPT ![d] = <<nfid>> \o @]
    /\ nfid' = nfid + 1 /\ held' = held \cup {nfid}
    /\ UNCHANGED <<chans, wrote>>

Text(list) == [i \in DOMAIN list |-> file[list[i]].name]

(* Mutant: the text of the directory stays as it was. *)
RemoveKeepsText(f) ==
    LET p == file[f].parent
    IN  /\ f \in held \ {RootFid} /\ findfile(f) /\ file[f].open = 0
        /\ children[f] = <<>> /\ file[f].buf = <<>> /\ Len(children[p]) > 1
        /\ children' = [children EXCEPT ![p] = RemoveFirst(@, f)]
        /\ file' = [file EXCEPT ![f] = NoFile, ![p].size = @ - 1]
        /\ UNCHANGED <<nfid, kernel, wrote>>

(* bremove(), removechild(): not what is open, has children, or has a      *)
(* buffer, which for a file means that it was ever written to; and not the *)
(* only child, for which malloc(0) returns nil and the answer is ENOMEM.   *)
RemoveFile(f) ==
    LET p == file[f].parent
        left == RemoveFirst(children[p], f)
    IN  /\ f \in held \ {RootFid} /\ findfile(f) /\ file[f].open = 0
        /\ children[f] = <<>> /\ file[f].buf = <<>> /\ left # <<>>
        /\ children' = [children EXCEPT ![p] = left]
        /\ file' = [file EXCEPT ![f] = NoFile, ![p].buf = Text(left), ![p].size = @ - 1]
        /\ UNCHANGED <<nfid, kernel, wrote>>

(* bwrite(): a buffer that is too small is replaced by one that ends where *)
(* the write ends, with the old contents; what lies between is whatever    *)
(* the new pages contain.                                                  *)
Put(old, offset, v, gap) == [i \in 1..(IF offset + 1 > Len(old) THEN offset + 1 ELSE Len(old)) |->
                               IF i = offset + 1 THEN v ELSE IF i <= Len(old) THEN old[i] ELSE gap]
Write(f, offset, v) ==
    /\ chans[f] > 0 /\ findfile(f) /\ ~file[f].dir /\ offset < MaxSize
    /\ \E gap \in Values :
         file' = [file EXCEPT ![f].buf = Put(@, offset, v, gap),
                              ![f].size = IF offset + 1 > @ THEN offset + 1 ELSE @]
    /\ wrote' = [wrote EXCEPT ![f] = Put(@, offset, v, "gap")]
    /\ UNCHANGED <<children, nfid, kernel>>

Next == \E f \in Fids :
          \/ Clunk(f) \/ Open(f) \/ Close(f) \/ RemoveFile(f)
          \/ \E name \in Names : Getfid(f, name) \/ \E dir \in BOOLEAN : Create(f, name, dir)
          \/ \E offset \in 0..MaxSize - 1, v \in Values : Write(f, offset, v)

Spec == Init /\ [][Next]_vars
-----------------------------------------------------------------------------
There == {f \in Fids : findfile(f)}
TypeOK == /\ nfid \in 1..MaxFids + 1 /\ held \subseteq Fids /\ chans \in [Fids -> 0..MaxOpen]
          /\ \A f \in There : file[f].open = chans[f] /\ file[f].size <= MaxFids + MaxSize

(* The text that a read of a directory returns names the files that are in *)
(* it, each as often as it is there, and its size is their number.         *)
Reordered(s, t) == \E p \in Bijection(DOMAIN s, DOMAIN t) : \A i \in DOMAIN s : s[i] = t[p[i]]
ListingExact == \A d \in There : file[d].dir =>
                  /\ Reordered(file[d].buf, Text(children[d]))
                  /\ file[d].size = Len(children[d])

(* A fid that is open, or that has another one below it that the kernel    *)
(* has, is a file of the tree: a removal takes no file away that is in use.*)
InUseThere == \A f \in held : chans[f] > 0 \/ (\E c \in held : c \in There /\ file[c].parent = f)
                                => findfile(f)

(* What a read returns is what was last written there, through all the     *)
(* buffers that a growing file is copied to.                               *)
ReadBack == \A f \in There : ~file[f].dir =>
              /\ Len(file[f].buf) = Len(wrote[f]) /\ file[f].size = Len(wrote[f])
              /\ \A i \in DOMAIN wrote[f] : wrote[f][i] \in {"gap", file[f].buf[i]}

(* Files and directories read as they were written, and are there while    *)
(* they are in use.                                                        *)
TreeSound == ListingExact /\ InUseThere /\ ReadBack
=============================================================================
