------------------------------- MODULE Kernel --------------------------------
(* The modules of the kernel that do not interact in a way the properties   *)
(* can see, side by side: each behaviour is one of one part, and v1 to v9   *)
(* are the variables of that part.  P, F, T, K, L and I (Process, Fgroup,   *)
(* Files, Heap, Mmu, Intr) are in PartsProofs, with what is proved of them. *)
EXTENDS Naturals, Sequences, PartsProofs

CONSTANTS NameGroups, CopyGroups, Bindings,  \* of the two instances of Names
          PageGroups, Ram, Io, Segments      \* of Memory

VARIABLE which \* the part of the system that runs
vars == <<which, v1, v2, v3, v4, v5, v6, v7, v8, v9>>

N == INSTANCE Names WITH Procs <- Users, Groups <- NameGroups, MaxEntries <-
     2, MaxPath <- 1, MaxLost <- 2, grp <- v1, entries <- v2, fidrefs <- v3, refs <- v4, srv
     <- v5, open <- v6, call <- v7, todo <- v8, stale <- v9
C == INSTANCE Names WITH Procs <- Users, Groups <- CopyGroups, MaxEntries <-
     2, MaxPath <- 0, MaxLost <- 2, grp <- v1, entries <- v2, fidrefs <- v3, refs <- v4, srv
     <- v5, open <- v6, call <- v7, todo <- v8, stale <- v9
D == INSTANCE Path WITH Procs <- Users, Names <- {"a", "b"}, TooLong <-
     "long", MaxComponents <- 3, MaxDot <- 1, MaxNodes <- 3, dot <- v1, path
     <- v2, pool <- v3, lost <- v4
M == INSTANCE Memory WITH Procs <- Users, Groups <- PageGroups, PageBytes <-
     2, StackTop <- 9, MaxVa <- 3, MaxLen <- 2, MaxStack <- 2, refs <- v1, ram
     <- v2, io <- v3, pages <- v4, grefs <- v5, mgroup <- v6, ustack <- v7,
     exec <- v8, astray <- v9

Blank == <<>> \* of the variables that a part does not have

Init == \/ which = "process" /\ P!Init
        \/ which = "descriptors" /\ F!Init /\ v8 = Blank /\ v9 = Blank
        \/ which = "names" /\ N!Init
        \/ which = "copies" /\ C!Init
        \/ which = "paths" /\ D!Init /\ v5 = Blank /\ v6 = Blank /\ v7 = Blank
           /\ v8 = Blank /\ v9 = Blank
        \/ which = "files" /\ T!Init
        \/ which = "heap" /\ K!Init /\ v5 = Blank /\ v6 = Blank /\ v7 = Blank
           /\ v8 = Blank /\ v9 = Blank
        \/ which = "memory" /\ M!Init
        \/ which = "mmu" /\ L!Init /\ v7 = Blank /\ v8 = Blank /\ v9 = Blank
        \/ which = "interrupts" /\ I!Init /\ v5 = Blank /\ v6 = Blank /\ v7 =
           Blank /\ v8 = Blank /\ v9 = Blank

Next == \/ which = "process" /\ P!Next /\ UNCHANGED which
        \/ which = "descriptors" /\ F!Next /\ UNCHANGED <<which, v8, v9>>
        \/ which = "names" /\ N!Next /\ UNCHANGED which
        \/ which = "copies" /\ C!Next /\ UNCHANGED which
        \/ which = "paths" /\ D!Next /\ UNCHANGED <<which, v5, v6, v7, v8,
           v9>>
        \/ which = "files" /\ T!Next /\ UNCHANGED which
        \/ which = "heap" /\ K!Next /\ UNCHANGED <<which, v5, v6, v7, v8, v9>>
        \/ which = "memory" /\ M!Next /\ UNCHANGED which
        \/ which = "mmu" /\ L!Next /\ UNCHANGED <<which, v7, v8, v9>>
        \/ which = "interrupts" /\ I!Next /\ UNCHANGED <<which, v5, v6, v7,
           v8, v9>>

Spec == Init /\ [][Next]_vars

(* Every part's assumptions on its constants.                              *)
ASSUME KernelAssumption ==
  /\ P!ProcessAssumption
  /\ F!FgroupAssumption
  /\ N!NamesAssumption
  /\ C!NamesAssumption
  /\ D!PathAssumption
  /\ T!FilesAssumption
  /\ K!HeapAssumption
  /\ M!MemoryAssumption
  /\ L!MmuAssumption
  /\ I!IntrAssumption
-----------------------------------------------------------------------------
TypeOK == /\ which = "process" => P!TypeOK
          /\ which = "descriptors" => F!TypeOK
          /\ which = "names" => N!TypeOK
          /\ which = "copies" => C!TypeOK
          /\ which = "paths" => D!TypeOK
          /\ which = "files" => T!TypeOK
          /\ which = "heap" => K!TypeOK
          /\ which = "memory" => M!TypeOK
          /\ which = "mmu" => L!TypeOK
          /\ which = "interrupts" => I!TypeOK

(* Process: groups are counted as often as processes have them, and parents *)
(* and children find each other, through forks, exits and waits.           *)
ProcessesSound == which = "process" => P!ProcessesSound

(* Fgroup: a channel is counted for every slot that holds it.              *)
ChannelsKept == which = "descriptors" => F!ChannelsKept

(* Names: a mount is counted by every name that leads to it, and its pipes *)
(* are open as long as one does, until a lookup uses a removed entry.      *)
MountsKept == (which = "names" => N!MountsKept) /\ (which = "copies" =>
    C!MountsKept)

(* Path: strings become the paths they mean, on nodes of their own.        *)
PathsKept == which = "paths" => D!PathsKept

(* Files: the transfers on a channel follow each other, and a file that is *)
(* open is there.                                                          *)
TransfersSound == which = "files" => T!TransfersSound

(* Heap: no word is in two blocks.                                         *)
BlocksDisjoint == which = "heap" => K!BlocksDisjoint

(* Memory: pages that are reached are counted, in order, and not writable  *)
(* from two groups, until pages are freed that a process goes on using.    *)
MemoryKept == which = "memory" => M!MemoryKept

(* What the machine is set to agrees with what waits for it. Mmu: the tables *)
(* of the space that runs are in the translation table. Intr: an           *)
(* interrupt is unmasked exactly while the process it wakes is asleep.     *)
MachineInStep == (which = "mmu" => L!OwnPresent) /\ (which = "interrupts"
    => I!WaitersHear)

(* Heap: words leave the heap only where an empty list forgets a block.    *)
NothingForgotten == [][which = "heap" => K!Remembers]_vars
-----------------------------------------------------------------------------
(* The parts side by side.                                                 *)
KernelInv == /\ which = "process" => ProcInv
             /\ which = "files" => FilesInv
             /\ which = "mmu" => MmuIInv
             /\ which = "heap" => HeapInv
             /\ which = "descriptors" => FgInv
             /\ which = "interrupts" => IntrIInv

LEMMA Assumptions == /\ P!ProcessAssumption /\ T!FilesAssumption
                     /\ F!FgroupAssumption /\ K!HeapAssumption /\ L!MmuAssumption /\ I!IntrAssumption
BY KernelAssumption

LEMMA KernelInit == Init => KernelInv
<1>1. (P!Init => ProcInv) /\ (T!Init => FilesInv)
  BY Assumptions, ProcInvInductive, FilesInvInductive
<1>2. (L!Init => MmuIInv) /\ (I!Init => IntrIInv)
  BY Assumptions, MmuInitIInv, IntrInitIInv
<1>3. (K!Init => HeapInv) /\ (F!Init => FgInv)
  BY Assumptions, HeapInitInv, FgInitInv
<1> QED BY <1>1, <1>2, <1>3 DEF Init, KernelInv

LEMMA KernelStep == ASSUME KernelInv, [Next]_vars PROVE KernelInv'
<1>1. CASE which = "process"
  <2>1. which' = "process" /\ [P!Next]_(P!vars)
    BY <1>1 DEF Next, vars, P!vars
  <2> QED BY <1>1, <2>1, Assumptions, ProcInvInductive DEF KernelInv
<1>2. CASE which = "files"
  <2>1. which' = "files" /\ [T!Next]_(T!vars)
    BY <1>2 DEF Next, vars, T!vars
  <2> QED BY <1>2, <2>1, Assumptions, FilesInvInductive DEF KernelInv
<1>3. CASE which = "mmu"
  <2>1. which' = "mmu" /\ [L!Next]_(L!vars)
    BY <1>3 DEF Next, vars, L!vars
  <2> QED BY <1>3, <2>1, Assumptions, MmuNextIInv DEF KernelInv
<1>4. CASE which = "interrupts"
  <2>1. which' = "interrupts" /\ [I!Next]_(I!vars)
    BY <1>4 DEF Next, vars, I!vars
  <2> QED BY <1>4, <2>1, Assumptions, IntrNextIInv DEF KernelInv
<1>5. CASE which = "heap"
  <2>1. which' = "heap" /\ [K!Next]_(K!vars)
    BY <1>5 DEF Next, vars, K!vars
  <2> QED BY <1>5, <2>1, Assumptions, HeapNextInv DEF KernelInv
<1>6. CASE which = "descriptors"
  <2>1. which' = "descriptors" /\ (F!Next \/ UNCHANGED F!vars)
    BY <1>6 DEF Next, vars, F!vars
  <2> QED BY <1>6, <2>1, Assumptions, FgNextInv DEF KernelInv
<1>7. CASE which \notin {"process", "files", "mmu", "interrupts", "heap", "descriptors"}
  <2>1. which' = which
    BY DEF Next, vars
  <2> QED BY <1>7, <2>1 DEF KernelInv
<1> QED BY <1>1, <1>2, <1>3, <1>4, <1>5, <1>6, <1>7

LEMMA KernelInvHolds == Spec => []KernelInv
BY KernelInit, KernelStep, PTL DEF Spec

(* Through every fork, exit and wait, in whatever order and however they   *)
(* interleave, groups are counted as often as processes have them, and a   *)
(* process that has a parent is on exactly one list of that parent, once:  *)
(* sysfork(), procexit() and waitchild(), for any number of processes.     *)
THEOREM ProcessesKept == Spec => []ProcessesSound
<1>1. KernelInv => ProcessesSound
  BY Assumptions, ProcInvInductive DEF KernelInv, ProcessesSound
<1> QED BY <1>1, KernelInvHolds, PTL

(* Transfers on a channel follow each other, and a file that is open or in *)
(* use is not removed, for any number of callers, files and channels:      *)
(* file.c.                                                                 *)
THEOREM TransfersKept == Spec => []TransfersSound
<1>1. KernelInv => TransfersSound
  BY Assumptions, FilesInvInductive DEF KernelInv, TransfersSound
<1> QED BY <1>1, KernelInvHolds, PTL

(* The space that runs finds each of its tables in the section it is for,  *)
(* whatever mmuswitch() cleared and left of the spaces before it, and while*)
(* kexec() goes on without the space it has freed; and an                  *)
(* interrupt is unmasked exactly while the one process that procwaitintr() *)
(* let wait for it is asleep: am335x/mmu.c and trap.c, for any number of   *)
(* spaces, tables, sections, processes and interrupts.                     *)
THEOREM MachineKept == Spec => []MachineInStep
<1>1. KernelInv => MachineInStep
  BY DEF KernelInv, MachineInStep, MmuIInv, IntrIInv
<1> QED BY <1>1, KernelInvHolds, PTL

(* No word is in two blocks of a heap, free or handed out, and every block *)
(* is in what the heap was given, whatever sizes were asked for and in     *)
(* whatever order blocks are split, joined and given back: malloc() and    *)
(* free() of the kernel and of programs, for pages and requests of any     *)
(* size.                                                                   *)
THEOREM BlocksKept == Spec => []BlocksDisjoint
<1>1. KernelInv => BlocksDisjoint
  BY HeapInvGives DEF KernelInv, BlocksDisjoint
<1> QED BY <1>1, KernelInvHolds, PTL

(* A channel is counted once for every slot that holds it, up to the steps *)
(* that calls have still to make, and none that is in a slot or used is    *)
(* freed, unless a failing call or dup2() of a slot onto itself has touched *)
(* it: whatever opens, closes, copies, forks and exits do, for any number  *)
(* of groups, slots and channels, sysfile.c, chan.c and fgroup.c.          *)
THEOREM DescriptorsKept == Spec => []ChannelsKept
<1>1. KernelInv => ChannelsKept
  BY Assumptions, FgInvGives DEF KernelInv, ChannelsKept
<1> QED BY <1>1, KernelInvHolds, PTL

(* free() forgets words in one case only, when the free list is empty, and *)
(* malloc() in none: whatever the walk of free() finds, the block, its     *)
(* neighbours and the headers between them stay in some block.             *)
THEOREM WordsKept == Spec => NothingForgotten
<1>1. KernelInv /\ [Next]_vars => [which = "heap" => K!Remembers]_vars
  <2> SUFFICES ASSUME KernelInv, [Next]_vars, which = "heap" PROVE K!Remembers
    OBVIOUS
  <2>1. [K!Next]_(K!vars)
    BY DEF Next, vars, K!vars
  <2> QED BY <2>1, Assumptions, HeapNextInv DEF KernelInv
<1> QED BY <1>1, KernelInvHolds, PTL DEF Spec, NothingForgotten
=============================================================================
