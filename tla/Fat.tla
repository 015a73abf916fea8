--------------------------------- MODULE Fat ---------------------------------
(***************************************************************************)
(* The FAT file server, bin/fatfs: the table of clusters, one directory of *)
(* one cluster, and the files of the server's fid table, with the requests *)
(* the kernel makes of it.  A write is carried out cluster by cluster, and *)
(* writing a sector may fail; a read of the device does not.  The table is *)
(* in one sector: table is what its buffer has, disk what the device has,  *)
(* which is older when writetableinfo() failed and left its change in the  *)
(* buffer.  Some legal requests lead to a file system that nothing can be  *)
(* said of: spoiled names them, and the model stops there.                 *)
(***************************************************************************)
EXTENDS Integers, FiniteSets, SequencesExt

CONSTANTS Names, None,
          NClusters,  \* the clusters that findfreecluster() looks at, which sees
                      \* every fourth sector of the table; on a volume that was
                      \* empty no other is used.  They are 3..NClusters + 2.
          ClusterSize, \* spc * bps
          NEntries,   \* directory entries of a cluster
          FIDSMAX,    \* the fids are 1..FIDSMAX - 1, and 0 for the root
          NameLen,    \* of every name, with its null byte
          MaxEnd      \* bound on offset + len of a write
FatAssumption == /\ None \notin Names /\ NClusters \in Nat \ {0} /\ ClusterSize \in Nat \ {0}
                 /\ NEntries \in Nat /\ FIDSMAX \in Nat \ {0} /\ MaxEnd \in Nat /\ NameLen \in Nat \ {0}

VARIABLES table,   \* the entry of a cluster: 0, FREE, or the next one, or End
          disk,    \* the same on the device
          dir,     \* the entries of the directory, [name, start, size]
          files,   \* fat->files: [name, refs, start, size, at], name None: unused
          held,    \* the kernel's fids: the name it looked up, or None
          writing, \* the fatfilewrite() that runs, or Idle
          spoiled
vars == <<table, disk, dir, files, held, writing, spoiled>>

FREE == 0
End == -1
Clusters == 3..NClusters + 2
Fids == 1..FIDSMAX - 1
Wiped == [name |-> None, refs |-> 0, start |-> 0, size |-> 0, at |-> 0]
NoEntry == [name |-> None, start |-> 0, size |-> 0]
Idle == [fid |-> 0]

Init == /\ table = [c \in Clusters |-> FREE] /\ disk = table /\ dir = [k \in 1..NEntries |-> NoEntry]
        /\ files = [i \in Fids |-> Wiped] /\ held = [i \in Fids |-> None]
        /\ writing = Idle /\ spoiled = {}

Ready == writing = Idle /\ spoiled = {}
Least(S) == CHOOSE x \in S : \A y \in S : x <= y

(* nextcluster(): 0 at the end of a chain *)
nextcluster(c) == IF table[c] = End THEN 0 ELSE table[c]

(* fatfindfileincluster() stops at the first empty entry. *)
Entries(name) == {k \in DOMAIN dir : dir[k].name = name /\ \A j \in 1..k : dir[j].name # None}

(* fatfindfreefid(): an unused slot, or else one that was clunked *)
Unused == {i \in Fids : files[i].name = None}
Clunked == {i \in Fids : files[i].name # None /\ files[i].refs = 0}
FreeFids == IF Unused # {} THEN Unused ELSE Clunked
Reused(i) == IF held[i] = None THEN spoiled ELSE spoiled \cup {"fid reused"}

(* bgetfid() and fatfilefind(): a clunked slot is used again, its refs     *)
(* still 0; otherwise the directory is read.                               *)
Cached(name) == {i \in Clunked : files[i].name = name}
GetCached(name) == /\ Ready /\ \A i \in Fids : held[i] # name
                   /\ Cached(name) # {}
                   /\ held' = [held EXCEPT ![Least(Cached(name))] = name]
                   /\ UNCHANGED <<table, disk, dir, files, writing, spoiled>>
GetEntry(name) ==
    LET i == Least(FreeFids)
        k == Least(Entries(name))
    IN  /\ Ready /\ \A j \in Fids : held[j] # name
        /\ Cached(name) = {} /\ Entries(name) # {} /\ FreeFids # {}
        /\ files' = [files EXCEPT ![i] = [name |-> name, refs |-> 1, start |-> dir[k].start,
                                          size |-> dir[k].size, at |-> k]]
        /\ held' = [held EXCEPT ![i] = name]
        /\ spoiled' = Reused(i)
        /\ UNCHANGED <<table, disk, dir, writing>>

(* fatfileclunk(): the first time the slot is kept. *)
Clunk(i) == /\ Ready /\ held[i] # None
            /\ files' = [files EXCEPT ![i] = IF @.refs = 0 THEN Wiped ELSE [@ EXCEPT !.refs = 0]]
            /\ held' = [held EXCEPT ![i] = None]
            /\ UNCHANGED <<table, disk, dir, writing, spoiled>>

(* The kernel looked for the name, and it was not there. *)
Asked(name) == /\ Ready /\ Entries(name) = {} /\ Cached(name) = {}
               /\ \A i \in Fids : held[i] # name
FreeClusters == {c \in Clusters : table[c] = FREE}

(* The buffer of the table is changed: the change is written, or           *)
(* writetableinfo() leaves it in the buffer.                               *)
Written(t) == table' = t /\ disk' = t
Kept(t) == table' = t /\ UNCHANGED disk

(* A kept change is lost when another sector takes the buffer, or when     *)
(* findfreecluster() fails to write the buffer and reads it again.         *)
Forget == /\ spoiled = {} /\ table # disk
          /\ table' = disk /\ spoiled' = {"table not written"}
          /\ UNCHANGED <<disk, dir, files, held, writing>>

(* findfreecluster() does not look where the volume ends: when no cluster  *)
(* of it is free it may give one behind it.                                *)
Outside == /\ spoiled' = {"cluster behind the volume"}
           /\ UNCHANGED <<table, disk, dir, files, held, writing>>

(* fatfilecreate(), when the first contents cannot be written, or there is *)
(* no fid left: the cluster that was taken is lost.  For want of an entry  *)
(* it is given back.                                                       *)
CreateFails(name) ==
    LET taken == [table EXCEPT ![Least(FreeClusters)] = End]
    IN  /\ Asked(name) /\ FreeClusters # {}
        /\ \/ Written(taken)
           \/ /\ \A k \in DOMAIN dir : dir[k].name # None
              /\ UNCHANGED table /\ disk' \in {table, taken}
        /\ UNCHANGED <<dir, files, held, writing, spoiled>>
CreateOutside(name) == Asked(name) /\ FreeClusters = {} /\ Outside

(* fatfilecreate(): a free cluster, the first empty entry, a free fid; the *)
(* slot stays taken when the entry cannot be written.                      *)
Create(name) ==
    LET c == Least(FreeClusters)
        k == Least({j \in DOMAIN dir : dir[j].name = None})
        i == Least(FreeFids)
    IN  /\ Asked(name) /\ FreeClusters # {} /\ FreeFids # {}
        /\ \E j \in DOMAIN dir : dir[j].name = None
        /\ Written([table EXCEPT ![c] = End])
        /\ files' = [files EXCEPT ![i] = [name |-> name, refs |-> 1, start |-> c, size |-> 0, at |-> k]]
        /\ \/ /\ dir' = [dir EXCEPT ![k] = [name |-> name, start |-> c, size |-> 0]]
              /\ held' = [held EXCEPT ![i] = name] /\ spoiled' = Reused(i)
           \/ UNCHANGED <<dir, held>> /\ spoiled' = Reused(i) \cup {"entry not written"}
        /\ UNCHANGED writing

(* The clusters from the start of a file on. *)
ChainOf(start) ==
    LET chain[n \in 0..NClusters + 1] ==
          [c \in Clusters \cup {0} |-> IF c = 0 \/ n = 0 THEN <<>>
                                       ELSE <<c>> \o chain[n - 1][nextcluster(c)]]
    IN  chain[NClusters + 1][start]

(* fatfileremove(): the chain is freed cluster by cluster, whether its     *)
(* entries can be written or not; what was written last is on the device.  *)
Freed(cs) == [c \in Clusters |-> IF c \in cs THEN FREE ELSE table[c]]
FreeChain(chain) ==
    /\ table' = Freed(ToSet(chain))
    /\ disk' \in {disk} \cup {Freed(ToSet(SubSeq(chain, 1, n))) : n \in DOMAIN chain}

(* Then the entries behind move up, with what lies behind the buffer as    *)
(* the last one; the slots of their files keep the old places.  When       *)
(* reading the table replaced the buffer of the directory, it is a part of *)
(* the table that is moved, and written.                                   *)
RemoveFile(i) ==
    LET k == Least(Entries(files[i].name))
    IN  /\ Ready /\ held[i] # None /\ Entries(files[i].name) # {}
        /\ FreeChain(ChainOf(files[i].start))
        /\ \/ \E behind \in {NoEntry} \cup ToSet(dir) :
                /\ dir' = Append(RemoveAt(dir, k), behind)
                /\ files' = [files EXCEPT ![i].refs = 0]
                /\ spoiled' = IF \E j \in Fids \ {i} : files[j].name # None /\ files[j].at > k
                              THEN {"entries moved"}
                              ELSE IF behind # NoEntry THEN {"entry from behind"} ELSE {}
           \/ /\ UNCHANGED <<dir, files>>
              /\ spoiled' \in {{"entry not removed"}, {"table moved"}}
        /\ UNCHANGED <<held, writing>>

(* fatfilewrite() *)
WriteBegin(i, offset, len) ==
    /\ Ready /\ held[i] # None /\ files[i].start # 0 /\ len > 0 /\ offset + len <= MaxEnd
    /\ Entries(files[i].name) # {}
    /\ writing' = [fid |-> i, cluster |-> files[i].start, pos |-> 0, offset |-> offset, left |-> len]
    /\ UNCHANGED <<table, disk, dir, files, held, spoiled>>

Running == writing # Idle /\ spoiled = {}
WriteSkip == LET w == writing
             IN  /\ Running /\ w.cluster # 0 /\ w.offset > w.pos + ClusterSize
                 /\ writing' = [w EXCEPT !.pos = @ + ClusterSize, !.cluster = nextcluster(w.cluster)]
                 /\ UNCHANGED <<table, disk, dir, files, held, spoiled>>

(* The part that falls into the cluster: what is left, but no more than    *)
(* fits; the next cluster, or a new one that is hung behind.  When     *)
(* none is found 0 is written behind it, which makes the last one free.    *)
At(w) == IF w.pos >= w.offset THEN 0 ELSE w.offset - w.pos
Rlen(w) == IF At(w) + w.left > ClusterSize THEN ClusterSize - At(w) ELSE w.left
Moved(w) == [w EXCEPT !.pos = (IF @ >= w.offset THEN @ ELSE w.offset) + Rlen(w), !.left = @ - Rlen(w)]
Fits(w) == Running /\ w.cluster # 0 /\ w.offset <= w.pos + ClusterSize

WriteLast == LET w == writing
             IN  /\ Fits(w) /\ Rlen(w) = w.left
                 /\ writing' = [Moved(w) EXCEPT !.cluster = 0]
                 /\ UNCHANGED <<table, disk, dir, files, held, spoiled>>
WriteOn == LET w == writing
               n == nextcluster(w.cluster)
           IN  /\ Fits(w) /\ Rlen(w) < w.left /\ n # 0
               /\ writing' = [Moved(w) EXCEPT !.cluster = n]
               /\ UNCHANGED <<table, disk, dir, files, held, spoiled>>
Grows(w) == Fits(w) /\ Rlen(w) < w.left /\ nextcluster(w.cluster) = 0
WriteGrow == LET w == writing
                 c == Least(FreeClusters)
             IN  /\ Grows(w) /\ FreeClusters # {}
                 /\ Written([table EXCEPT ![w.cluster] = c, ![c] = End])
                 /\ writing' = [Moved(w) EXCEPT !.cluster = c]
                 /\ UNCHANGED <<dir, files, held, spoiled>>

(* findfreecluster() found none, or could not write the one it found.      *)
WriteFull == LET w == writing
             IN  /\ Grows(w)
                 /\ \/ /\ \E t \in {[table EXCEPT ![w.cluster] = FREE]} : Written(t) \/ Kept(t)
                       /\ spoiled' = {"last cluster freed"}
                       /\ writing' = [Moved(w) EXCEPT !.cluster = 0]
                       /\ UNCHANGED <<dir, files, held>>
                    \/ FreeClusters = {} /\ Outside

(* The data are not written, or the entry of the last cluster, which is    *)
(* then kept: the new cluster is behind it for as long as the buffer lasts.*)
WriteFails == LET w == writing
              IN  /\ Fits(w)
                  /\ writing' = [w EXCEPT !.pos = @ + At(w), !.cluster = 0]
                  /\ UNCHANGED <<table, disk, dir, files, held, spoiled>>
GrowFails == LET w == writing
                 c == Least(FreeClusters)
             IN  /\ Grows(w) /\ FreeClusters # {}
                 /\ table' = [table EXCEPT ![w.cluster] = c, ![c] = End]
                 /\ disk' = [table EXCEPT ![c] = End]
                 /\ writing' = [Moved(w) EXCEPT !.cluster = 0]
                 /\ UNCHANGED <<dir, files, held, spoiled>>

(* Mutant: the entry of the file is not written. *)
EndForgets == LET w == writing
              IN  /\ Running /\ w.cluster = 0
                  /\ files' = [files EXCEPT ![w.fid].size = IF w.pos > @ THEN w.pos ELSE @]
                  /\ writing' = Idle
                  /\ UNCHANGED <<table, disk, dir, held, spoiled>>

(* The size grows to the place reached; fatupdatedirentry() puts it in the *)
(* entry the slot remembers, and writes that, or fails.                    *)
WriteEnd == LET w == writing
                f == files[w.fid]
            IN  /\ Running /\ w.cluster = 0
                /\ files' = [files EXCEPT ![w.fid].size = IF w.pos > @ THEN w.pos ELSE @]
                /\ \/ /\ w.pos > f.size
                      /\ dir' = [dir EXCEPT ![f.at] = [name |-> f.name, start |-> f.start, size |-> w.pos]]
                      /\ spoiled' \in {{}, {"size not written"}}
                   \/ w.pos <= f.size /\ UNCHANGED <<dir, spoiled>>
                /\ writing' = Idle
                /\ UNCHANGED <<table, disk, held>>

Next == \/ \E name \in Names : \/ GetCached(name) \/ GetEntry(name) \/ Create(name)
                                 \/ CreateFails(name) \/ CreateOutside(name)
        \/ \E i \in Fids : \/ Clunk(i) \/ RemoveFile(i)
                           \/ \E offset, len \in 0..MaxEnd : WriteBegin(i, offset, len)
        \/ WriteSkip \/ WriteLast \/ WriteOn \/ WriteGrow \/ WriteFull
        \/ WriteFails \/ GrowFails \/ WriteEnd \/ Forget

Spec == Init /\ [][Next]_vars
-----------------------------------------------------------------------------
TypeOK == /\ {table, disk} \subseteq [Clusters -> {FREE, End} \cup Clusters]
          /\ held \in [Fids -> Names \cup {None}]
          /\ \A i \in Fids : files[i].refs \in {0, 1} /\ files[i].at \in 0..NEntries

(* fatfileread(): the places it reads, over the chain of the file; w has   *)
(* what is left of the offset and of the length.                           *)
ReadCluster(w, c) ==
    LET rlen == IF w.off + w.left >= ClusterSize THEN ClusterSize - w.off ELSE w.left
    IN  IF w.left = 0 THEN w
        ELSE IF w.off > ClusterSize THEN [w EXCEPT !.off = @ - ClusterSize]
        ELSE [off |-> 0, left |-> w.left - rlen,
              out |-> w.out \o [k \in 1..rlen |-> <<c, w.off + k - 1>>]]
fatfileread(f, offset, len) ==
    LET n == IF offset >= f.size THEN 0 ELSE IF offset + len >= f.size THEN f.size - offset ELSE len
    IN  FoldLeft(ReadCluster, [off |-> offset, left |-> n, out |-> <<>>], ChainOf(f.start)).out

(* fatdirread(): the entries up to the first empty one; of each the length *)
(* of the name, which is byte 0, and the name, in so far as they are behind*)
(* the offset and fit.  What fits is worked out before the offset is taken *)
(* off.                                                                    *)
DirBytes(k, from, n) == [i \in 1..n |-> <<dir[k].name, from + i>>]
readdirname(w, k, len) ==
    LET l == IF Len(w.out) + NameLen > len THEN len - Len(w.out) ELSE NameLen
    IN  IF Len(w.out) >= len THEN w ELSE [out |-> w.out \o DirBytes(k, w.off, l - w.off), off |-> 0]
readdirentry(w, k, len) ==
    IF Len(w.out) >= len THEN w
    ELSE IF w.off >= NameLen + 1 THEN [w EXCEPT !.off = @ - (NameLen + 1)]
    ELSE IF w.off = 0 THEN readdirname([w EXCEPT !.out = Append(@, <<dir[k].name, 0>>)], k, len)
    ELSE readdirname([w EXCEPT !.off = @ - 1], k, len)
Filled == CHOOSE n \in 0..NEntries : /\ \A j \in 1..n : dir[j].name # None
                                      /\ n < NEntries => dir[n + 1].name = None
fatdirread(offset, len) == FoldLeft(LAMBDA w, k : readdirentry(w, k, len),
                                    [out |-> <<>>, off |-> offset], [k \in 1..Filled |-> k]).out

(* Until the file system is spoiled, the files in the directory have       *)
(* chains that end, of clusters that are not free and no other file has,   *)
(* long enough for the size.                                               *)
Present == {k \in DOMAIN dir : dir[k].name # None}
ChainsApart == Ready =>
    \A k \in Present :
      LET chain == ChainOf(dir[k].start)
      IN  /\ \A j \in DOMAIN chain : table[chain[j]] # FREE
          /\ Len(chain) <= NClusters /\ IsInjective(chain)
          /\ dir[k].size <= ClusterSize * Len(chain)
          /\ \A j \in Present \ {k} : ToSet(ChainOf(dir[j].start)) \cap ToSet(chain) = {}

(* What the server knows of a file that is still there is what its entry   *)
(* says, also for one it keeps although the kernel has given it up; the    *)
(* fids of the kernel are the files that it asked for.                     *)
EntriesKept == Ready =>
    /\ \A i \in Fids : files[i].name # None /\ Entries(files[i].name) # {} =>
         dir[files[i].at] = [name |-> files[i].name, start |-> files[i].start, size |-> files[i].size]
    /\ \A i \in Fids : held[i] # None => files[i].name = held[i]

(* A read gives the bytes of the file from the offset on, up to its end:   *)
(* the same bytes of the same clusters that writing it filled.             *)
Place(f, p) == <<ChainOf(f.start)[p \div ClusterSize + 1], p % ClusterSize>>
ReadPlaces == Ready =>
    \A i \in Fids : files[i].name # None /\ Entries(files[i].name) # {} =>
      \A offset \in 0..MaxEnd, len \in 0..MaxEnd :
        fatfileread(files[i], offset, len) =
          [k \in 1..(IF offset >= files[i].size THEN 0
                     ELSE IF offset + len > files[i].size THEN files[i].size - offset ELSE len)
             |-> Place(files[i], offset + k - 1)]

(* Reading the directory piece by piece gives its text, with any buffer    *)
(* that can hold one entry.                                                *)
DirReadExact == Ready =>
    LET text == FlattenSeq([k \in 1..Filled |-> DirBytes(k, -1, NameLen + 1)])
    IN  \A offset \in 0..Len(text), len \in NameLen + 1..2 * NameLen + 2 :
          fatdirread(offset, len) =
            SubSeq(text, offset + 1, IF offset + len > Len(text) THEN Len(text) ELSE offset + len)

(* What is on the disk, what the server remembers of it and what a client  *)
(* reads agree.                                                            *)
VolumeSound == ChainsApart /\ EntriesKept /\ ReadPlaces /\ DirReadExact
=============================================================================
