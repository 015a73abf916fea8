------------------------------ MODULE Servers --------------------------------
(* The file servers and what they are built on, side by side: each          *)
(* behaviour is one of one server, and v1 to v11 are its variables.         *)
EXTENDS Naturals, Sequences

CONSTANTS None,
          Names, Values,                  \* of files, and their contents
          MaxFids, MaxSize, MaxOpen,      \* bounds of Tmpfs and Rootfs
          Nodes, Root,                    \* the files of Rootfs
          BUFSMAX, BufSectors, MaxUses, MaxVersion, \* of Fatbuf
          Raw, Parts, PartLba, PartSectors, \* the files of Mbr
          NBlocks, MaxBlocks, MaxBlock,
          MaxRequests, MaxLen, MaxTyped, MaxQueue \* bounds of Console

VARIABLES which,  \* the part of the system that runs
          v1, v2, v3, v4, v5, v6, v7, v8, v9, v10, v11 \* its variables
vars == <<which, v1, v2, v3, v4, v5, v6, v7, v8, v9, v10, v11>>

T == INSTANCE Tmpfs WITH file <- v1, children <- v2, nfid <- v3, held <- v4, chans <- v5, wrote <- v6
R == INSTANCE Rootfs WITH Files <- Nodes, FidsMax <- 3, MaxName
     <- 2, fids <- v1, children <- v2, parent <- v3, size <- v4, open <- v5,
     lname <- v6, live <- v7, chans <- v8, gone <- v9
V == INSTANCE Fat WITH NClusters <- 3, ClusterSize <- 2, NEntries <- 2,
     FIDSMAX <- 3, MaxEnd <- 4, NameLen <- 2, table <- v1, dir <- v2, files <-
     v3, held <- v4, writing <- v5, spoiled <- v6, disk <- v7
B == INSTANCE Fatbuf WITH Sectors <- BufSectors, bufs <- v1, device <- v2,
     failed <- v3, kept <- v4
M == INSTANCE Mbr WITH Nobody <- None, Lba <- PartLba, Sectors <- PartSectors,
     disk <- v1, own <- v2, given <- v3, reply <- v4, alive <- v5
C == INSTANCE Console WITH readrequests <- v1, lock <- v2, pc <- v3, req <- v4, taken
     <- v5, data <- v6, typed <- v7, asked <- v8, unheard <- v9, out <- v10,
     link <- v11

Blank == <<>> \* of the variables that a part does not have

Init == \/ which = "tmpfs" /\ T!Init /\ v7 = Blank /\ v8 = Blank /\ v9 = Blank
           /\ v10 = Blank /\ v11 = Blank
        \/ which = "rootfs" /\ R!Init /\ v10 = Blank /\ v11 = Blank
        \/ which = "fat" /\ V!Init /\ v8 = Blank /\ v9 = Blank
           /\ v10 = Blank /\ v11 = Blank
        \/ which = "buffers" /\ B!Init /\ v5 = Blank /\ v6 =
           Blank /\ v7 = Blank /\ v8 = Blank /\ v9 = Blank /\ v10 = Blank /\
           v11 = Blank
        \/ which = "partitions" /\ M!Init /\ v6 = Blank /\ v7 = Blank /\ v8 =
           Blank /\ v9 = Blank /\ v10 = Blank /\ v11 = Blank
        \/ which = "console" /\ C!Init

Next == \/ which = "tmpfs" /\ T!Next /\ UNCHANGED <<which, v7, v8, v9, v10,
           v11>>
        \/ which = "rootfs" /\ R!Next /\ UNCHANGED <<which, v10, v11>>
        \/ which = "fat" /\ V!Next /\ UNCHANGED <<which, v8, v9, v10,
           v11>>
        \/ which = "buffers" /\ B!Next /\ UNCHANGED <<which, v5, v6, v7,
           v8, v9, v10, v11>>
        \/ which = "partitions" /\ M!Next /\ UNCHANGED <<which, v6, v7, v8,
           v9, v10, v11>>
        \/ which = "console" /\ C!Next /\ UNCHANGED which

Spec == Init /\ [][Next]_vars

(* Every part's assumptions on its constants.                              *)
ASSUME ServersAssumption ==
  /\ T!TmpfsAssumption
  /\ R!RootfsAssumption
  /\ V!FatAssumption
  /\ B!FatbufAssumption
  /\ M!MbrAssumption
  /\ C!ConsoleAssumption
-----------------------------------------------------------------------------
TypeOK == /\ which = "tmpfs" => T!TypeOK
          /\ which = "rootfs" => R!TypeOK
          /\ which = "fat" => V!TypeOK
          /\ which = "buffers" => B!TypeOK
          /\ which = "partitions" => M!TypeOK
          /\ which = "console" => C!TypeOK

(* Tmpfs: files and directories read as they were written.                 *)
TreeSound == which = "tmpfs" => T!TreeSound

(* Rootfs: fids lead to their files, and directories read as what they are. *)
RootSound == which = "rootfs" => R!RootSound

(* Fat: the disk, the table of files and what is read agree.               *)
VolumeSound == which = "fat" => V!VolumeSound

(* Fatbuf: a buffer has what the device has, but for changes whose write   *)
(* failed and that were kept.                                              *)
BuffersTrue == which = "buffers" => B!BuffersTrue

(* Mbr: what is read through a partition was written through it.           *)
PartsApart == which = "partitions" => M!PartsApart

(* Console: the two threads answer every read whole and in order, as long  *)
(* as malloc() and free() do not meet.                                     *)
ConsoleSound == which = "console" => C!ConsoleSound
=============================================================================
