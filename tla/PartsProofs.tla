----------------------------- MODULE PartsProofs -----------------------------
(***************************************************************************)
(* Those parts of the kernel that have no proof module of their own, and   *)
(* what is proved about them: Mmu, Intr, Heap, Fgroup, Files and Process,   *)
(* each with its inductive invariant.  v1 to v9 are the variables of the    *)
(* part that runs (see Kernel).                                            *)
(***************************************************************************)
EXTENDS FiniteSetTheorems, SequenceTheorems, WellFoundedInduction, TLAPS

CONSTANTS None,
          Threads, First,           \* the processes, and the first one
          Users,                    \* those of some parts
          Kinds, Objects, MaxForks, \* of Process
          FdGroups, Chans, NChans,  \* of Fgroup
          Heaps,                    \* of Heap
          FileFids, MaxLen, MaxOffset, MaxLog, MaxLost, \* of Files
          Spaces, Tables, Sections, Fault,   \* of Mmu
          Irqs, Handled             \* of Intr

VARIABLES v1, v2, v3, v4, v5, v6, v7, v8, v9

F == INSTANCE Fgroup WITH Groups <- FdGroups, chans <- v1, live
     <- v2, refs <- v3, mode <- v4, todo <- v5, using <- v6, broken <- v7
T == INSTANCE Files WITH Procs <- Users, Fids <- FileFids, call <- v1,
     fid <- v2, offset <- v3, lock <- v4, log <- v5, exists <- v6, opens <-
     v7, refs <- v8, lost <- v9
K == INSTANCE Heap WITH size <- v1, heap <- v2, arenas <- v3, kind <- v4
L == INSTANCE Mmu WITH ttb <- v1, loaded <- v2, low <- v3, high <- v4, pages
     <- v5, own <- v6
P == INSTANCE Process WITH Procs <- Threads, state <- v1, pc <- v2, new
     <- v3, parent <- v4, children <- v5, deadchildren <- v6, group <- v7,
     refs <- v8, nforks <- v9
I == INSTANCE Intr WITH Procs <- Threads, waiting <- v1, masked <- v2, raised
     <- v3, at <- v4
-----------------------------------------------------------------------------
(* Mmu.  The table that mmuswitch() puts in a section is the only one that *)
(* the space has for it: mmuputpage() makes a new one only for a section   *)
(* that has none in ttb, and what the space that runs has is always there. *)
ttb == v1
loaded == v2
pages == v5
own == v6
USE DEF ttb, loaded, pages, own

Entry == [va : Sections, p : Tables]
MmuTypeInv == /\ ttb \in [Sections -> Tables \cup {Fault}] /\ loaded \in Spaces
              /\ own \in Spaces \cup {None} /\ pages \in [Spaces -> Seq(Entry)]
OneEach == \A m \in Spaces : \A i, j \in DOMAIN pages[m] :
             pages[m][i].va = pages[m][j].va => i = j
MmuIInv == MmuTypeInv /\ OneEach /\ L!OwnPresent

LEMMA TableFound ==
  ASSUME NEW l \in Seq(Entry), NEW else, NEW i \in DOMAIN l,
         \A j, k \in DOMAIN l : l[j].va = l[k].va => j = k
  PROVE  L!TableAt(l, l[i].va, else) = l[i].p
<1> DEFINE j == CHOOSE j \in DOMAIN l : l[j].va = l[i].va
<1>1. j \in DOMAIN l /\ l[j].va = l[i].va
  OBVIOUS
<1>2. j = i
  BY <1>1
<1> QED BY <1>2 DEF L!TableAt

LEMMA TableType ==
  ASSUME NEW l \in Seq(Entry), NEW else \in Tables \cup {Fault}, NEW x
  PROVE  L!TableAt(l, x, else) \in Tables \cup {Fault}
<1>1. CASE \E i \in DOMAIN l : l[i].va = x
  <2> DEFINE j == CHOOSE j \in DOMAIN l : l[j].va = x
  <2>1. j \in DOMAIN l
    BY <1>1
  <2>2. l[j] \in Entry
    BY <2>1, ElementOfSeq, LenProperties
  <2> QED BY <1>1, <2>2 DEF L!TableAt, Entry
<1> QED BY <1>1 DEF L!TableAt

LEMMA SwitchStep ==
  ASSUME L!MmuAssumption, MmuIInv, NEW m \in Spaces, L!Switch(m)
  PROVE  MmuIInv'
<1> DEFINE l == pages[m]
<1>1. /\ ttb' = [x \in Sections |-> L!TableAt(l, x, L!Emptied[x])]
      /\ loaded' = m /\ own' = m /\ pages' = pages
  BY DEF L!Switch
<1>2. l \in Seq(Entry) /\ \A i, j \in DOMAIN l : l[i].va = l[j].va => i = j
  BY DEF MmuIInv, MmuTypeInv, OneEach
<1>3. \A x \in Sections : L!Emptied[x] \in Tables \cup {Fault}
  BY DEF L!Emptied, MmuIInv, MmuTypeInv
<1> HIDE DEF l
<1>4. MmuTypeInv'
  BY <1>1, <1>2, <1>3, TableType DEF MmuIInv, MmuTypeInv
<1>5. ASSUME NEW i \in DOMAIN l
      PROVE  ttb'[l[i].va] = l[i].p
  <2>1. l[i] \in Entry
    BY <1>2, ElementOfSeq, LenProperties
  <2>3. l[i].va \in Sections
    BY <2>1 DEF Entry
  <2>2. L!TableAt(l, l[i].va, L!Emptied[l[i].va]) = l[i].p
    BY <1>2, TableFound
  <2> QED BY <1>1, <2>2, <2>3
<1>6. L!OwnPresent'
  BY <1>1, <1>5 DEF L!OwnPresent, l
<1> QED BY <1>1, <1>4, <1>6 DEF MmuIInv, OneEach

LEMMA PutTableStep ==
  ASSUME L!MmuAssumption, MmuIInv, NEW x \in Sections, L!PutTable(x)
  PROVE  MmuIInv'
<1> DEFINE l == pages[own]
<1>1. PICK t \in Tables \ L!InUse :
        /\ ttb' = [ttb EXCEPT ![x] = t]
        /\ pages' = [pages EXCEPT ![own] = <<[va |-> x, p |-> t]>> \o @]
  BY DEF L!PutTable
<1>2. loaded' = loaded /\ own' = own /\ own # None /\ ttb[x] = Fault
  BY DEF L!PutTable
<1> DEFINE new == <<[va |-> x, p |-> t]>> \o l
<1>3. l \in Seq(Entry) /\ own \in Spaces /\ [va |-> x, p |-> t] \in Entry
  BY <1>2 DEF MmuIInv, MmuTypeInv, Entry
<1>4. /\ new \in Seq(Entry) /\ Len(new) = Len(l) + 1 /\ new[1] = [va |-> x, p |-> t]
      /\ \A i \in 2..Len(new) : new[i] = l[i - 1] /\ i - 1 \in DOMAIN l
  BY <1>3
<1>5. ASSUME NEW i \in DOMAIN l PROVE l[i].va # x /\ ttb[l[i].va] = l[i].p
  <2>1. l[i] \in Entry
    BY <1>3, ElementOfSeq, LenProperties
  <2>2. ttb[l[i].va] = l[i].p /\ l[i].p \in Tables
    BY <1>2, <2>1 DEF MmuIInv, L!OwnPresent, Entry
  <2> QED BY <1>2, <2>2 DEF L!MmuAssumption
<1>6. \A m \in Spaces : pages'[m] = IF m = own THEN new ELSE pages[m]
  BY <1>1, <1>3 DEF MmuIInv, MmuTypeInv
<1>7. MmuTypeInv'
  BY <1>1, <1>2, <1>4 DEF MmuIInv, MmuTypeInv
<1> HIDE DEF l, new
<1>8. DOMAIN new = 1..Len(new) /\ Len(new) \in Nat
  BY <1>4, LenProperties
<1>9. ASSUME NEW i \in DOMAIN new, NEW j \in DOMAIN new, new[i].va = new[j].va
      PROVE  i = j
  <2>1. CASE i = 1 /\ j = 1
    BY <2>1
  <2>2. CASE i = 1 /\ j # 1
    BY <1>4, <1>5, <1>8, <1>9, <2>2
  <2>3. CASE i # 1 /\ j = 1
    BY <1>4, <1>5, <1>8, <1>9, <2>3
  <2>4. CASE i # 1 /\ j # 1
    <3>1. i \in 2..Len(new) /\ j \in 2..Len(new)
      BY <1>8, <2>4
    <3>2. l[i - 1].va = l[j - 1].va /\ i - 1 \in DOMAIN l /\ j - 1 \in DOMAIN l
      BY <1>4, <1>9, <3>1
    <3>3. i - 1 = j - 1
      BY <1>3, <3>2 DEF MmuIInv, OneEach, l
    <3> QED BY <3>1, <3>3
  <2> QED BY <2>1, <2>2, <2>3, <2>4
<1>10. OneEach'
  BY <1>6, <1>9 DEF MmuIInv, OneEach
<1>11. ASSUME NEW i \in DOMAIN new
       PROVE  ttb'[new[i].va] = new[i].p
  <2>1. CASE i = 1
    BY <1>1, <1>4, <2>1 DEF MmuIInv, MmuTypeInv
  <2>2. CASE i # 1
    <3>1. i - 1 \in DOMAIN l /\ new[i] = l[i - 1]
      BY <1>4, <1>8, <2>2
    <3>2. l[i - 1] \in Entry
      BY <1>3, <3>1, ElementOfSeq, LenProperties
    <3> QED BY <1>1, <1>5, <3>1, <3>2 DEF MmuIInv, MmuTypeInv, Entry
  <2> QED BY <2>1, <2>2
<1>12. L!OwnPresent'
  BY <1>2, <1>3, <1>6, <1>11 DEF L!OwnPresent
<1> QED BY <1>7, <1>10, <1>12 DEF MmuIInv

LEMMA FreedStep ==
  ASSUME MmuIInv, NEW m \in Spaces, own' # m, pages' = [pages EXCEPT ![m] = <<>>],
         own' \in Spaces \cup {None}, own' = own \/ own' = None \/ pages[own'] = <<>>,
         UNCHANGED <<ttb, loaded>>
  PROVE  MmuIInv'
<1>2. <<>> \in Seq(Entry) /\ DOMAIN <<>> = {}
  OBVIOUS
<1>3. MmuTypeInv'
  BY <1>2 DEF MmuIInv, MmuTypeInv
<1>4. \A n \in Spaces : pages'[n] = IF n = m THEN <<>> ELSE pages[n]
  BY DEF MmuIInv, MmuTypeInv
<1>5. OneEach'
  BY <1>2, <1>4 DEF MmuIInv, OneEach
<1>6. L!OwnPresent'
  BY <1>2, <1>4 DEF MmuIInv, MmuTypeInv, L!OwnPresent
<1> QED BY <1>3, <1>5, <1>6 DEF MmuIInv

LEMMA RenewStep ==
  ASSUME MmuIInv, NEW m \in Spaces, L!Renew(m)
  PROVE  MmuIInv'
BY FreedStep DEF L!Renew, MmuIInv, MmuTypeInv

LEMMA DropStep ==
  ASSUME L!MmuAssumption, MmuIInv, NEW m \in Spaces \cup {None}, L!Drop(m)
  PROVE  MmuIInv'
<1>1. loaded \in Spaces /\ own' # loaded /\ own' \in Spaces \cup {None}
  BY DEF L!Drop, L!MmuAssumption, MmuIInv, MmuTypeInv
<1>2. own' = None \/ pages[own'] = <<>>
  BY DEF L!Drop
<1> QED BY <1>1, <1>2, FreedStep DEF L!Drop

LEMMA MmuInitIInv == L!Init => MmuIInv
<1> SUFFICES ASSUME L!Init PROVE MmuIInv
  OBVIOUS
<1>1. /\ MmuTypeInv
      /\ \A m \in Spaces : DOMAIN pages[m] = {}
  BY DEF L!Init, MmuTypeInv
<1> QED BY <1>1 DEF MmuIInv, OneEach, L!OwnPresent, MmuTypeInv

LEMMA MmuNextIInv ==
  ASSUME L!MmuAssumption, MmuIInv, [L!Next]_(L!vars)
  PROVE  MmuIInv'
<1>1. CASE UNCHANGED L!vars
  BY <1>1 DEF L!vars, MmuIInv, MmuTypeInv, OneEach, L!OwnPresent
<1>2. ASSUME NEW x \in Sections, L!PutPage(x) PROVE MmuIInv'
  BY <1>2 DEF L!PutPage, L!vars, MmuIInv, MmuTypeInv, OneEach, L!OwnPresent
<1> QED BY <1>1, <1>2, SwitchStep, PutTableStep, RenewStep, DropStep DEF L!Next
-----------------------------------------------------------------------------
(* Intr.  The invariant says in addition who waits while the interrupt is  *)
(* masked: the process that waiting names is the only one between its cas  *)
(* and its wake-up, so what the handler clears and masks is the last       *)
(* waiter's.                                                               *)
waiting == v1
masked == v2
at == v4
USE DEF waiting, masked, at

Labels == {"user", "cas", "unmask", "asleep", "woken"}
IntrTypeInv == /\ waiting \in [Irqs -> Threads \cup {None}] /\ masked \subseteq Irqs
               /\ at \in [Threads -> [pc : Labels, irq : Irqs \cup {None}]]
Waits(q, i) == I!At(q, "unmask", i) \/ I!At(q, "asleep", i)
NamedInv == \A i \in Irqs, q \in Threads : Waits(q, i) <=> waiting[i] = q
IntrFreeInv == \A i \in Handled, q \in Threads : at[q].pc # "user" => at[q].irq # i
IntrIInv == IntrTypeInv /\ NamedInv /\ IntrFreeInv /\ I!WaitersHear

LEMMA IntrInitIInv == I!IntrAssumption /\ I!Init => IntrIInv
BY DEF I!IntrAssumption, I!Init, I!User, IntrIInv, IntrTypeInv, Labels, NamedInv, IntrFreeInv, Waits, I!At,
       I!WaitersHear, I!Asleep

(* A step that takes q into a place, or out of one, where it does not wait.*)
LEMMA OutsideStep ==
  ASSUME I!IntrAssumption, IntrIInv, NEW q \in Threads, NEW new \in [pc : Labels, irq : Irqs \cup {None}],
         at[q].pc \notin {"unmask", "asleep"}, new.pc \notin {"unmask", "asleep"},
         new.pc # "user" => new.irq \notin Handled,
         at' = [at EXCEPT ![q] = new], UNCHANGED <<waiting, masked>>
  PROVE  IntrIInv'
<1>1. IntrTypeInv'
  BY DEF IntrIInv, IntrTypeInv
<1>2. \A p \in Threads : at'[p] = IF p = q THEN new ELSE at[p]
  BY DEF IntrIInv, IntrTypeInv
<1>3. \A p \in Threads, i \in Irqs : /\ I!At(p, "asleep", i)' <=> I!At(p, "asleep", i)
                                     /\ I!At(p, "unmask", i)' <=> I!At(p, "unmask", i)
  BY <1>2 DEF I!At
<1>4. NamedInv' /\ IntrFreeInv'
  BY <1>2, <1>3 DEF IntrIInv, NamedInv, IntrFreeInv, Waits, I!At
<1>5. I!WaitersHear'
  <2>1. \A i \in Irqs : I!Asleep(i)' = I!Asleep(i)
    BY <1>2 DEF I!Asleep, I!At
  <2> QED BY <2>1 DEF IntrIInv, I!WaitersHear
<1> QED BY <1>1, <1>4, <1>5 DEF IntrIInv

LEMMA PublishStep ==
  ASSUME I!IntrAssumption, IntrIInv, NEW q \in Threads, NEW i \in Irqs, I!Publish(q, i)
  PROVE  IntrIInv'
<1>1. /\ at[q] = [pc |-> "cas", irq |-> i] /\ waiting[i] = None /\ None \notin Threads
      /\ waiting' = [waiting EXCEPT ![i] = q] /\ masked' = masked
      /\ at' = [at EXCEPT ![q] = [pc |-> "unmask", irq |-> i]]
  BY DEF I!Publish, I!At, I!Goto, I!IntrAssumption
<1>2. IntrTypeInv'
  BY <1>1 DEF IntrIInv, IntrTypeInv, Labels
<1>3. \A p \in Threads : at'[p] = IF p = q THEN [pc |-> "unmask", irq |-> i] ELSE at[p]
  BY <1>1 DEF IntrIInv, IntrTypeInv
<1>4. NamedInv' /\ IntrFreeInv'
  BY <1>1, <1>3 DEF IntrIInv, IntrTypeInv, NamedInv, IntrFreeInv, Waits, I!At
<1>5. I!WaitersHear'
  <2>1. \A j \in Irqs : I!Asleep(j)' = I!Asleep(j)
    BY <1>1, <1>3 DEF I!Asleep, I!At
  <2>2. I!Asleep(i) = {}
    BY <1>1 DEF IntrIInv, NamedInv, Waits, I!Asleep
  <2>3. \A j \in Irqs : j # i => waiting'[j] = waiting[j]
    BY <1>1 DEF IntrIInv, IntrTypeInv
  <2> QED BY <1>1, <2>1, <2>2, <2>3 DEF IntrIInv, I!WaitersHear
<1> QED BY <1>2, <1>4, <1>5 DEF IntrIInv

LEMMA SleepStep ==
  ASSUME I!IntrAssumption, IntrIInv, NEW q \in Threads, NEW i \in Irqs, I!Sleep(q, i)
  PROVE  IntrIInv'
<1>1. /\ at[q] = [pc |-> "unmask", irq |-> i] /\ waiting' = waiting
      /\ masked' = masked \ {i}
      /\ at' = [at EXCEPT ![q] = [pc |-> "asleep", irq |-> i]]
  BY DEF I!Sleep, I!At, I!Goto
<1>2. IntrTypeInv'
  BY <1>1 DEF IntrIInv, IntrTypeInv, Labels
<1>3. \A p \in Threads : at'[p] = IF p = q THEN [pc |-> "asleep", irq |-> i] ELSE at[p]
  BY <1>1 DEF IntrIInv, IntrTypeInv
<1>4. NamedInv' /\ IntrFreeInv'
  BY <1>1, <1>3 DEF IntrIInv, NamedInv, IntrFreeInv, Waits, I!At
<1>5. I!WaitersHear'
  <2>1. \A j \in Irqs : I!Asleep(j)' = IF j = i THEN I!Asleep(j) \cup {q} ELSE I!Asleep(j)
    BY <1>1, <1>3 DEF I!Asleep, I!At
  <2>2. waiting[i] = q
    BY <1>1 DEF IntrIInv, NamedInv, Waits, I!At
  <2> QED BY <1>1, <2>1, <2>2 DEF IntrIInv, I!WaitersHear
<1> QED BY <1>2, <1>4, <1>5 DEF IntrIInv

LEMMA WakeStep ==
  ASSUME I!IntrAssumption, IntrIInv, NEW i \in Irqs, I!Wake(i)
  PROVE  IntrIInv'
<1> DEFINE p == waiting[i]
<1>1. /\ i \notin masked /\ i \notin Handled /\ waiting[i] # None /\ None \notin Threads
      /\ waiting' = [waiting EXCEPT ![i] = None] /\ masked' = masked \cup {i}
      /\ at' = I!Woken(waiting[i], i)
  BY DEF I!Wake, I!IntrAssumption
<1>2. p \in Threads /\ I!At(p, "asleep", i)
  <2>1. PICK r \in Threads : I!At(r, "asleep", i)
    BY <1>1 DEF IntrIInv, I!WaitersHear, I!Asleep
  <2> QED BY <2>1 DEF IntrIInv, NamedInv, Waits
<1>3. at' = [at EXCEPT ![p].pc = "woken"]
  BY <1>1, <1>2 DEF I!Woken
<1>4. \A r \in Threads : at'[r] = IF r = p THEN [pc |-> "woken", irq |-> i] ELSE at[r]
  BY <1>2, <1>3 DEF I!At, IntrIInv, IntrTypeInv
<1> HIDE DEF p
<1>5. IntrTypeInv'
  BY <1>1, <1>2, <1>3 DEF IntrIInv, IntrTypeInv, Labels
<1>6. \A j \in Irqs : waiting'[j] = IF j = i THEN None ELSE waiting[j]
  BY <1>1 DEF IntrIInv, IntrTypeInv
<1>7. \A r \in Threads : Waits(r, i) <=> r = p
  BY DEF IntrIInv, NamedInv, p
<1>8. NamedInv' /\ IntrFreeInv'
  <2>1. \A r \in Threads, j \in Irqs : Waits(r, j)' <=> Waits(r, j) /\ j # i
    BY <1>2, <1>4, <1>7 DEF Waits, I!At
  <2>2. NamedInv'
    BY <1>1, <1>6, <2>1 DEF IntrIInv, NamedInv
  <2>3. IntrFreeInv'
    BY <1>1, <1>4 DEF IntrIInv, IntrFreeInv
  <2> QED BY <2>2, <2>3
<1>9. I!WaitersHear'
  <2>1. \A j \in Irqs : I!Asleep(j)' = IF j = i THEN {} ELSE I!Asleep(j)
    BY <1>2, <1>4, <1>7 DEF I!Asleep, Waits, I!At
  <2> QED BY <1>1, <1>6, <2>1 DEF IntrIInv, I!WaitersHear
<1> QED BY <1>5, <1>8, <1>9 DEF IntrIInv

LEMMA IntrNextIInv ==
  ASSUME I!IntrAssumption, IntrIInv, [I!Next]_(I!vars)
  PROVE  IntrIInv'
<1>1. ASSUME NEW i \in Irqs, I!Device(i) \/ I!Handle(i)
      PROVE  IntrIInv'
  BY <1>1 DEF I!Device, I!Handle, IntrIInv, IntrTypeInv, NamedInv, IntrFreeInv, Waits, I!At, I!WaitersHear, I!Asleep
<1>2. ASSUME NEW i \in Irqs, NEW q \in Threads, I!Call(q, i)
      PROVE  IntrIInv'
  <2>1. /\ at[q].pc = "user" /\ i \notin Handled /\ UNCHANGED <<waiting, masked>>
        /\ at' = [at EXCEPT ![q] = [pc |-> "cas", irq |-> i]]
    BY <1>2 DEF I!Call, I!User, I!Goto
  <2> QED BY <2>1, OutsideStep DEF Labels
<1>3. ASSUME NEW i \in Irqs, NEW q \in Threads, I!Refused(q, i) \/ I!Serve(q, i)
      PROVE  IntrIInv'
  <2>1. /\ at[q].pc \in {"cas", "woken"} /\ UNCHANGED <<waiting, masked>>
        /\ at' = [at EXCEPT ![q] = I!User]
    BY <1>3 DEF I!Refused, I!Serve, I!At
  <2>2. I!User \in [pc : Labels, irq : Irqs \cup {None}] /\ I!User.pc = "user"
    BY DEF I!User, Labels
  <2> QED BY <2>1, <2>2, OutsideStep
<1>4. CASE UNCHANGED I!vars
  BY <1>4 DEF I!vars, IntrIInv, IntrTypeInv, NamedInv, IntrFreeInv, Waits, I!At, I!WaitersHear, I!Asleep
<1> QED BY <1>1, <1>2, <1>3, <1>4, PublishStep, SleepStep, WakeStep DEF I!Next
-----------------------------------------------------------------------------
(* Heap.  The blocks lie one after the other, with gaps, inside what the   *)
(* heap was given, and the free list holds some of them, each once; the    *)
(* order of the list matters to nothing that is proved here.               *)
size == v1
heap == v2
arenas == v3
kind == v4
USE DEF size, heap, arenas, kind

Blocks(sz) == /\ DOMAIN sz \subseteq Nat /\ sz \in [DOMAIN sz -> Nat]
              /\ \A b, c \in DOMAIN sz : b < c => b + sz[b] < c
Linked(l, B) == /\ l \in Seq(Nat) /\ \A i \in 1..Len(l) : l[i] \in B
                /\ \A i, j \in 1..Len(l) : l[i] = l[j] => i = j
Inside(sz, A) == \A b \in DOMAIN sz : \A x \in b..b + sz[b] :
                   \E a \in A : x \in K!Span(a)
(* The words of the blocks of one heap are in those of the other.          *)
Keeps(old, new) == \A b \in DOMAIN old : \A x \in b..b + old[b] :
                     \E c \in DOMAIN new : x \in c..c + new[c]
(* A block that is split, two that are joined, and one that is new.        *)
Split(sz, b, s) == [x \in DOMAIN sz \cup {b + 1 + s} |->
                      IF x = b THEN s ELSE IF x = b + 1 + s THEN sz[b] - s - 1 ELSE sz[x]]
Merge(sz, b, c) == [x \in DOMAIN sz \ {c} |-> IF x = b THEN sz[b] + 1 + sz[c] ELSE sz[x]]
HeapInv == /\ kind \in Heaps /\ arenas \subseteq Nat \X Nat
           /\ Blocks(size) /\ Linked(heap, DOMAIN size) /\ Inside(size, arenas)

LEMMA LeastOf ==
  ASSUME NEW S \in SUBSET Nat, S # {}
  PROVE  K!Min(S) \in S
<1>1. PICK x \in S : \A y \in S : <<y, x>> \notin OpToRel(<, Nat)
  BY NatLessThanWellFounded, WFMin
<1>2. \A y \in S : ~(y < x)
  BY <1>1, Zenon DEF OpToRel
<1>3. \A y \in S : x <= y
  BY <1>2
<1> QED BY <1>3 DEF K!Min

LEMMA Parts ==
  ASSUME NEW l \in Seq(Nat), NEW i \in Nat, NEW k \in Nat, 1 <= i, i <= k, k <= Len(l) + 1
  PROVE  /\ SubSeq(l, 1, i - 1) \in Seq(Nat) /\ Len(SubSeq(l, 1, i - 1)) = i - 1
         /\ \A j \in Nat : 1 <= j /\ j < i => SubSeq(l, 1, i - 1)[j] = l[j]
         /\ SubSeq(l, k, Len(l)) \in Seq(Nat) /\ Len(SubSeq(l, k, Len(l))) = Len(l) + 1 - k
         /\ \A j \in Nat : 1 <= j /\ j < Len(l) + 2 - k => SubSeq(l, k, Len(l))[j] = l[k + j - 1]
<1>1. Len(l) \in Nat /\ \A j \in 1..Len(l) : l[j] \in Nat
  BY ElementOfSeq
<1>2. /\ SubSeq(l, 1, i - 1) \in Seq(Nat)
      /\ Len(SubSeq(l, 1, i - 1)) = IF 1 <= i - 1 THEN i - 1 - 1 + 1 ELSE 0
      /\ \A j \in 1..(i - 1 - 1 + 1) : SubSeq(l, 1, i - 1)[j] = l[1 + j - 1]
  BY <1>1, SubSeqProperties
<1>3. \A j \in Nat : 1 <= j /\ j < i => j \in 1..(i - 1 - 1 + 1) /\ 1 + j - 1 = j
  OBVIOUS
<1>4. \A j \in Nat : 1 <= j /\ j < i => SubSeq(l, 1, i - 1)[j] = l[j]
  BY <1>2, <1>3
<1>5. /\ SubSeq(l, k, Len(l)) \in Seq(Nat)
      /\ Len(SubSeq(l, k, Len(l))) = IF k <= Len(l) THEN Len(l) - k + 1 ELSE 0
      /\ \A j \in 1..(Len(l) - k + 1) : SubSeq(l, k, Len(l))[j] = l[k + j - 1]
  BY <1>1, SubSeqProperties
<1>6. \A j \in Nat : 1 <= j /\ j < Len(l) + 2 - k => j \in 1..(Len(l) - k + 1)
  BY <1>1
<1>7. \A j \in Nat : 1 <= j /\ j < Len(l) + 2 - k => SubSeq(l, k, Len(l))[j] = l[k + j - 1]
  BY <1>5, <1>6
<1>8. Len(SubSeq(l, 1, i - 1)) = i - 1 /\ Len(SubSeq(l, k, Len(l))) = Len(l) + 1 - k
  BY <1>1, <1>2, <1>5
<1> QED BY <1>2, <1>4, <1>5, <1>7, <1>8

LEMMA Concat ==
  ASSUME NEW u \in Seq(Nat), NEW v \in Seq(Nat)
  PROVE  /\ u \o v \in Seq(Nat) /\ Len(u \o v) = Len(u) + Len(v)
         /\ \A j \in Nat : 1 <= j /\ j <= Len(u) => (u \o v)[j] = u[j]
         /\ \A j \in Nat : Len(u) < j /\ j <= Len(u) + Len(v) => (u \o v)[j] = v[j - Len(u)]
<1>1. Len(u) \in Nat /\ Len(v) \in Nat
  OBVIOUS
<1>2. /\ u \o v \in Seq(Nat) /\ Len(u \o v) = Len(u) + Len(v)
      /\ \A j \in 1..(Len(u) + Len(v)) : (u \o v)[j] = IF j <= Len(u) THEN u[j] ELSE v[j - Len(u)]
  BY ConcatProperties
<1>3. \A j \in Nat : 1 <= j /\ j <= Len(u) + Len(v) => j \in 1..(Len(u) + Len(v))
  BY <1>1
<1> QED BY <1>1, <1>2, <1>3

LEMMA Removed ==
  ASSUME NEW l \in Seq(Nat), NEW i \in 1..Len(l)
  PROVE  /\ K!RemoveAt(l, i) \in Seq(Nat) /\ Len(K!RemoveAt(l, i)) = Len(l) - 1
         /\ \A j \in Nat : 1 <= j /\ j < i => K!RemoveAt(l, i)[j] = l[j]
         /\ \A j \in Nat : i <= j /\ j < Len(l) => K!RemoveAt(l, i)[j] = l[j + 1]
<1> DEFINE u == SubSeq(l, 1, i - 1)
           v == SubSeq(l, i + 1, Len(l))
<1>1. Len(l) \in Nat /\ i \in Nat /\ i + 1 \in Nat /\ 1 <= i /\ i <= i + 1 /\ i + 1 <= Len(l) + 1
  OBVIOUS
<1>2. /\ u \in Seq(Nat) /\ Len(u) = i - 1
      /\ \A j \in Nat : 1 <= j /\ j < i => u[j] = l[j]
      /\ v \in Seq(Nat) /\ Len(v) = Len(l) + 1 - (i + 1)
      /\ \A j \in Nat : 1 <= j /\ j < Len(l) + 2 - (i + 1) => v[j] = l[i + 1 + j - 1]
  BY ONLY <1>1, Parts, l \in Seq(Nat)
<1>3. K!RemoveAt(l, i) = u \o v
  BY DEF K!RemoveAt
<1> HIDE DEF u, v
<1>4. /\ u \o v \in Seq(Nat) /\ Len(u \o v) = Len(u) + Len(v)
      /\ \A j \in Nat : 1 <= j /\ j <= Len(u) => (u \o v)[j] = u[j]
      /\ \A j \in Nat : Len(u) < j /\ j <= Len(u) + Len(v) => (u \o v)[j] = v[j - Len(u)]
  BY <1>2, Concat
<1>5. \A j \in Nat : 1 <= j /\ j < i => (u \o v)[j] = l[j]
  BY <1>1, <1>2, <1>4
<1>6. ASSUME NEW j \in Nat, i <= j, j < Len(l) PROVE (u \o v)[j] = l[j + 1]
  <2>0. Len(u) = i - 1 /\ Len(v) = Len(l) + 1 - (i + 1)
    BY <1>2
  <2>1. Len(u) < j /\ j <= Len(u) + Len(v) /\ j - Len(u) = j - i + 1
    BY <1>1, <1>6, <2>0
  <2>2. (u \o v)[j] = v[j - i + 1]
    BY <1>4, <2>1
  <2>3. j - i + 1 \in Nat /\ 1 <= j - i + 1 /\ j - i + 1 < Len(l) + 2 - (i + 1)
        /\ i + 1 + (j - i + 1) - 1 = j + 1
    BY <1>1, <1>6
  <2> QED BY <1>2, <2>2, <2>3
<1>7. Len(u \o v) = Len(l) - 1
  BY <1>1, <1>2, <1>4
<1> QED BY <1>3, <1>4, <1>5, <1>6, <1>7

LEMMA Inserted ==
  ASSUME NEW l \in Seq(Nat), NEW i \in Nat, 1 <= i, i <= Len(l) + 1, NEW b \in Nat
  PROVE  /\ K!InsertAt(l, i, b) \in Seq(Nat) /\ Len(K!InsertAt(l, i, b)) = Len(l) + 1
         /\ \A j \in Nat : 1 <= j /\ j < i => K!InsertAt(l, i, b)[j] = l[j]
         /\ K!InsertAt(l, i, b)[i] = b
         /\ \A j \in Nat : i < j /\ j <= Len(l) + 1 => K!InsertAt(l, i, b)[j] = l[j - 1]
<1> DEFINE u == SubSeq(l, 1, i - 1)
           v == SubSeq(l, i, Len(l))
           w == u \o <<b>>
<1>1. Len(l) \in Nat /\ i \in Nat /\ 1 <= i /\ i <= Len(l) + 1 /\ i <= i
  OBVIOUS
<1>2. /\ u \in Seq(Nat) /\ Len(u) = i - 1
      /\ \A j \in Nat : 1 <= j /\ j < i => u[j] = l[j]
      /\ v \in Seq(Nat) /\ Len(v) = Len(l) + 1 - i
      /\ \A j \in Nat : 1 <= j /\ j < Len(l) + 2 - i => v[j] = l[i + j - 1]
  BY <1>1, Parts
<1>3. K!InsertAt(l, i, b) = w \o v
  BY DEF K!InsertAt
<1> HIDE DEF u, v
<1>4. /\ <<b>> \in Seq(Nat) /\ Len(<<b>>) = 1 /\ <<b>>[1] = b
  OBVIOUS
<1>5. /\ w \in Seq(Nat) /\ Len(w) = Len(u) + Len(<<b>>)
      /\ \A j \in Nat : 1 <= j /\ j <= Len(u) => w[j] = u[j]
      /\ \A j \in Nat : Len(u) < j /\ j <= Len(u) + Len(<<b>>) => w[j] = <<b>>[j - Len(u)]
  BY <1>2, <1>4, Concat
<1> HIDE DEF w
<1>6. /\ w \o v \in Seq(Nat) /\ Len(w \o v) = Len(w) + Len(v)
      /\ \A j \in Nat : 1 <= j /\ j <= Len(w) => (w \o v)[j] = w[j]
      /\ \A j \in Nat : Len(w) < j /\ j <= Len(w) + Len(v) => (w \o v)[j] = v[j - Len(w)]
  BY <1>2, <1>5, Concat
<1>7. Len(w) = i /\ Len(w \o v) = Len(l) + 1
  BY <1>1, <1>2, <1>4, <1>5, <1>6
<1>8. \A j \in Nat : 1 <= j /\ j < i => (w \o v)[j] = l[j]
  BY <1>1, <1>2, <1>5, <1>6, <1>7
<1>9. (w \o v)[i] = b
  <2>1. (w \o v)[i] = w[i]
    BY <1>1, <1>6, <1>7
  <2>2. Len(u) < i /\ i <= Len(u) + Len(<<b>>) /\ i - Len(u) = 1
    BY <1>1, <1>2, <1>4
  <2>3. w[i] = <<b>>[i - Len(u)]
    BY <1>1, <1>5, <2>2
  <2> QED BY <1>4, <2>1, <2>2, <2>3
<1>10. ASSUME NEW j \in Nat, i < j, j <= Len(l) + 1 PROVE (w \o v)[j] = l[j - 1]
  <2>1. Len(w) < j /\ j <= Len(w) + Len(v)
    BY <1>1, <1>2, <1>7, <1>10
  <2>2. (w \o v)[j] = v[j - i]
    BY <1>6, <1>7, <2>1
  <2>3. j - i \in Nat /\ 1 <= j - i /\ j - i < Len(l) + 2 - i /\ i + (j - i) - 1 = j - 1
    BY <1>1, <1>10
  <2> QED BY <1>2, <2>2, <2>3
<1> QED BY <1>3, <1>6, <1>7, <1>8, <1>9, <1>10

LEMMA LinkedRemoved ==
  ASSUME NEW l, NEW B, Linked(l, B), NEW i \in 1..Len(l)
  PROVE  Linked(K!RemoveAt(l, i), B \ {l[i]})
<1>1. l \in Seq(Nat) /\ Len(l) \in Nat
  BY DEF Linked
<1>0. i \in Nat /\ 1 <= i /\ i <= Len(l)
  BY <1>1
<1> DEFINE m == K!RemoveAt(l, i)
<1>4. /\ m \in Seq(Nat) /\ Len(m) = Len(l) - 1
      /\ \A j \in Nat : 1 <= j /\ j < i => m[j] = l[j]
      /\ \A j \in Nat : i <= j /\ j < Len(l) => m[j] = l[j + 1]
  BY <1>1, Removed
<1> HIDE DEF m
<1>6. ASSUME NEW j \in 1..(Len(l) - 1)
      PROVE  \E k \in 1..Len(l) : m[j] = l[k] /\ k # i /\ (k = IF j < i THEN j ELSE j + 1)
  <2>1. j \in 1..Len(l) /\ j + 1 \in 1..Len(l) /\ j \in Nat /\ 1 <= j /\ j < Len(l)
    BY <1>0, <1>1, <1>6
  <2>2. CASE j < i
    BY <1>0, <1>4, <1>6, <2>1, <2>2
  <2>3. CASE ~(j < i)
    BY <1>0, <1>4, <1>6, <2>1, <2>3
  <2> QED BY <2>2, <2>3
<1>2. \A j \in 1..(Len(l) - 1) : m[j] \in B \ {l[i]}
  BY <1>6 DEF Linked
<1>3. ASSUME NEW j \in 1..(Len(l) - 1), NEW k \in 1..(Len(l) - 1), m[j] = m[k] PROVE j = k
  <2>1. PICK x \in 1..Len(l) : m[j] = l[x] /\ x # i /\ (x = IF j < i THEN j ELSE j + 1)
    BY <1>6
  <2>2. PICK y \in 1..Len(l) : m[k] = l[y] /\ y # i /\ (y = IF k < i THEN k ELSE k + 1)
    BY <1>6
  <2>3. x = y
    BY <1>3, <2>1, <2>2 DEF Linked
  <2>4. j \in Nat /\ k \in Nat
    BY <1>1
  <2> QED BY <1>0, <2>1, <2>2, <2>3, <2>4
<1>5. Linked(m, B \ {l[i]})
  BY <1>2, <1>3, <1>4 DEF Linked
<1> QED BY <1>5 DEF m

LEMMA LinkedInserted ==
  ASSUME NEW l, NEW B, Linked(l, B), NEW i \in 1..(Len(l) + 1), NEW b \in Nat,
         \A j \in 1..Len(l) : l[j] # b
  PROVE  Linked(K!InsertAt(l, i, b), B \cup {b})
<1>1. l \in Seq(Nat) /\ Len(l) \in Nat
  BY DEF Linked
<1>0. i \in Nat /\ 1 <= i /\ i <= Len(l) + 1
  BY <1>1
<1> DEFINE m == K!InsertAt(l, i, b)
<1>4. /\ m \in Seq(Nat) /\ Len(m) = Len(l) + 1
      /\ \A j \in Nat : 1 <= j /\ j < i => m[j] = l[j]
      /\ m[i] = b
      /\ \A j \in Nat : i < j /\ j <= Len(l) + 1 => m[j] = l[j - 1]
  <2>1. m \in Seq(Nat) 
    BY <1>0, <1>1, Inserted
  <2>2. Len(m) = Len(l) + 1
    BY <1>0, <1>1, Inserted
  <2>3. \A j \in Nat : 1 <= j /\ j < i => m[j] = l[j]
    BY <1>0, <1>1, Inserted
  <2>4. m[i] = b
    BY <1>0, <1>1, Inserted
  <2>5. \A j \in Nat : i < j /\ j <= Len(l) + 1 => m[j] = l[j - 1]
    BY <1>0, <1>1, Inserted
  <2> HIDE DEF m
  <2> QED BY <2>1, <2>2, <2>3, <2>4, <2>5
<1> HIDE DEF m
<1>6. ASSUME NEW j \in 1..(Len(l) + 1), j # i
      PROVE  \E k \in 1..Len(l) : m[j] = l[k] /\ (k = IF j < i THEN j ELSE j - 1)
  <2>1. j \in Nat /\ 1 <= j /\ j <= Len(l) + 1
    BY <1>1, <1>6
  <2>2. CASE j < i
    <3>1. j \in 1..Len(l)
      BY <1>0, <1>1, <2>1, <2>2
    <3> QED BY <1>4, <2>1, <2>2, <3>1
  <2>3. CASE ~(j < i)
    <3>1. j - 1 \in 1..Len(l) /\ i < j
      BY <1>0, <1>1, <1>6, <2>1, <2>3
    <3> QED BY <1>4, <2>1, <2>3, <3>1
  <2> QED BY <2>2, <2>3
<1>2. \A j \in 1..(Len(l) + 1) : m[j] \in B \cup {b}
  BY <1>4, <1>6 DEF Linked
<1>3. ASSUME NEW j \in 1..(Len(l) + 1), NEW k \in 1..(Len(l) + 1), m[j] = m[k] PROVE j = k
  <2>1. CASE j = i \/ k = i
    BY <1>3, <1>4, <1>6, <2>1
  <2>2. CASE j # i /\ k # i
    <3>1. PICK x \in 1..Len(l) : m[j] = l[x] /\ (x = IF j < i THEN j ELSE j - 1)
      BY <1>6, <2>2
    <3>2. PICK y \in 1..Len(l) : m[k] = l[y] /\ (y = IF k < i THEN k ELSE k - 1)
      BY <1>6, <2>2
    <3>3. x = y
      BY <1>3, <3>1, <3>2 DEF Linked
    <3>4. j \in Nat /\ k \in Nat
      BY <1>1
    <3> QED BY <1>0, <2>2, <3>1, <3>2, <3>3, <3>4
  <2> QED BY <2>1, <2>2
<1>5. Linked(m, B \cup {b})
  BY <1>2, <1>3, <1>4 DEF Linked
<1> QED BY <1>5 DEF m

LEMMA LinkedReplaced ==
  ASSUME NEW l, NEW B, Linked(l, B), NEW i \in 1..Len(l), NEW b \in Nat,
         \A j \in 1..Len(l) : l[j] # b
  PROVE  Linked([l EXCEPT ![i] = b], (B \ {l[i]}) \cup {b})
BY DEF Linked

LEMMA LinkedMore ==
  ASSUME NEW l, NEW B, NEW E, Linked(l, B), B \subseteq E
  PROVE  Linked(l, E)
BY DEF Linked

(* Two neighbours become one block of the same words.                      *)
LEMMA JoinKeeps ==
  ASSUME NEW sz, NEW A, Blocks(sz), Inside(sz, A), NEW b \in DOMAIN sz, NEW c \in DOMAIN sz,
         c = b + 1 + sz[b]
  PROVE  /\ Blocks(Merge(sz, b, c)) /\ Inside(Merge(sz, b, c), A) /\ Keeps(sz, Merge(sz, b, c))
         /\ DOMAIN Merge(sz, b, c) = DOMAIN sz \ {c}
<1> DEFINE new == Merge(sz, b, c)
<1>1. \A x \in DOMAIN sz : x \in Nat /\ sz[x] \in Nat
  BY DEF Blocks
<1>6. /\ DOMAIN new = DOMAIN sz \ {c} /\ new \in [DOMAIN sz \ {c} -> Nat]
      /\ \A x \in DOMAIN sz \ {c} : new[x] = IF x = b THEN sz[b] + 1 + sz[c] ELSE sz[x]
  BY <1>1 DEF Merge
<1> HIDE DEF new
<1>2. Blocks(new)
  BY <1>1, <1>6 DEF Blocks
<1>3. ASSUME NEW x \in DOMAIN new, NEW y \in x..x + new[x]
      PROVE  \E z \in DOMAIN sz : y \in z..z + sz[z]
  <2>1. CASE x # b
    BY <1>1, <1>3, <2>1, <1>6
  <2>2. CASE x = b
    <3>1. y \in b..b + sz[b] \/ y \in c..c + sz[c]
      BY <1>1, <1>3, <2>2, <1>6
    <3> QED BY <3>1
  <2> QED BY <2>1, <2>2
<1>4. Inside(new, A)
  BY <1>3, <1>6 DEF Inside
<1>5. ASSUME NEW x \in DOMAIN sz, NEW y \in x..x + sz[x]
      PROVE  \E z \in DOMAIN new : y \in z..z + new[z]
  <2>1. CASE x # b /\ x # c
    BY <2>1, <1>5, <1>6
  <2>2. CASE x = b \/ x = c
    <3>1. b # c
      BY <1>1, <1>6
    <3>2. y \in b..b + new[b]
      BY <1>1, <1>5, <2>2, <3>1, <1>6
    <3> QED BY <1>6, <3>1, <3>2
  <2> QED BY <2>1, <2>2
<1>7. Keeps(sz, new)
  BY <1>5 DEF Keeps
<1> QED BY <1>2, <1>4, <1>6, <1>7 DEF new

LEMMA SplitKeeps ==
  ASSUME NEW sz, NEW A, Blocks(sz), Inside(sz, A), NEW b \in DOMAIN sz, NEW s \in Nat,
         sz[b] > s
  PROVE  /\ Blocks(Split(sz, b, s)) /\ Inside(Split(sz, b, s), A) /\ Keeps(sz, Split(sz, b, s))
         /\ b + 1 + s \notin DOMAIN sz /\ DOMAIN Split(sz, b, s) = DOMAIN sz \cup {b + 1 + s}
<1> DEFINE n == b + 1 + s
           new == Split(sz, b, s)
<1>1. \A x \in DOMAIN sz : x \in Nat /\ sz[x] \in Nat
  BY DEF Blocks
<1>7. /\ DOMAIN new = DOMAIN sz \cup {n} /\ new \in [DOMAIN sz \cup {n} -> Nat]
      /\ \A x \in DOMAIN sz \cup {n} : new[x] = IF x = b THEN s ELSE IF x = n THEN sz[b] - s - 1 ELSE sz[x]
  BY <1>1 DEF Split
<1> HIDE DEF new
<1>0. n \in Nat /\ n # b /\ n <= b + sz[b]
  BY <1>1, <1>7
<1>6. n \notin DOMAIN sz
  BY <1>0, <1>1, <1>7 DEF Blocks
<1>2. Blocks(new)
  <2>1. ASSUME NEW x \in DOMAIN new, NEW y \in DOMAIN new, x < y PROVE x + new[x] < y
    <3>1. CASE x = b
      BY <1>0, <1>1, <1>6, <2>1, <3>1, <1>7 DEF Blocks
    <3>2. CASE x = n
      <4>1. y # b /\ y # n /\ y \in DOMAIN sz /\ b < y
        BY <1>0, <1>1, <2>1, <3>2, <1>7
      <4>2. b + sz[b] < y
        BY <4>1, <1>7 DEF Blocks
      <4>3. new[x] = sz[b] - s - 1
        BY <1>0, <3>2, <1>7
      <4> QED BY <1>0, <1>1, <3>2, <4>1, <4>2, <4>3, <1>7
    <3>3. CASE x # b /\ x # n /\ y = n
      <4>1. x \in DOMAIN sz /\ new[x] = sz[x] /\ (x < b \/ x > b)
        BY <1>1, <3>3, <1>7
      <4>2. x < b
        <5> SUFFICES ASSUME x > b PROVE FALSE
          BY <4>1, <1>7
        <5>1. b + sz[b] < x
          BY <4>1, <1>7 DEF Blocks
        <5> QED BY <1>0, <1>1, <2>1, <3>3, <4>1, <5>1, <1>7
      <4>3. x + sz[x] < b
        BY <4>1, <4>2, <1>7 DEF Blocks
      <4> QED BY <1>0, <1>1, <3>3, <4>1, <4>3, <1>7
    <3>4. CASE x # b /\ x # n /\ y # n
      BY <2>1, <3>4, <1>7 DEF Blocks
    <3> QED BY <3>1, <3>2, <3>3, <3>4, <1>7
  <2> QED BY <1>0, <1>1, <2>1, <1>7 DEF Blocks
<1>3. ASSUME NEW x \in DOMAIN new, NEW y \in x..x + new[x]
      PROVE  \E z \in DOMAIN sz : y \in z..z + sz[z]
  <2>1. CASE x # b /\ x # n
    BY <1>1, <1>3, <2>1, <1>7
  <2>2. CASE x = b \/ x = n
    <3>1. y \in b..b + sz[b]
      BY <1>0, <1>1, <1>3, <2>2, <1>7
    <3> QED BY <3>1, <1>7
  <2> QED BY <2>1, <2>2, <1>7
<1>4. Inside(new, A)
  BY <1>3, <1>7 DEF Inside
<1>5. ASSUME NEW x \in DOMAIN sz, NEW y \in x..x + sz[x]
      PROVE  \E z \in DOMAIN new : y \in z..z + new[z]
  <2>1. CASE x # b
    <3>1. x \in DOMAIN new /\ new[x] = sz[x]
      BY <1>6, <2>1, <1>7
    <3> QED BY <1>5, <3>1, <1>7
  <2>2. CASE x = b
    <3>1. y \in b..b + new[b] \/ y \in n..n + new[n]
      BY <1>0, <1>1, <1>5, <2>2, <1>7
    <3> QED BY <3>1, <1>7
  <2> QED BY <2>1, <2>2, <1>7
<1>8. Keeps(sz, new)
  BY <1>5 DEF Keeps
<1> QED BY <1>2, <1>4, <1>6, <1>7, <1>8 DEF new

LEMMA LinkedPrepended ==
  ASSUME NEW l, NEW B, Linked(l, B), NEW b \in Nat, \A j \in 1..Len(l) : l[j] # b
  PROVE  Linked(<<b>> \o l, B \cup {b})
<1>1. l \in Seq(Nat) /\ Len(l) \in Nat
  BY DEF Linked
<1> DEFINE m == <<b>> \o l
<1>2. <<b>> \in Seq(Nat) /\ Len(<<b>>) = 1 /\ <<b>>[1] = b
  OBVIOUS
<1>3. /\ m \in Seq(Nat) /\ Len(m) = Len(<<b>>) + Len(l)
      /\ \A j \in Nat : 1 <= j /\ j <= Len(<<b>>) => m[j] = <<b>>[j]
      /\ \A j \in Nat : Len(<<b>>) < j /\ j <= Len(<<b>>) + Len(l) => m[j] = l[j - Len(<<b>>)]
  BY <1>1, <1>2, Concat
<1> HIDE DEF m
<1>4. /\ m \in Seq(Nat) /\ Len(m) = Len(l) + 1 /\ m[1] = b
      /\ \A j \in Nat : 1 < j /\ j <= Len(l) + 1 => m[j] = l[j - 1]
  BY <1>1, <1>2, <1>3
<1>5. \A j \in 1..(Len(l) + 1) : j # 1 => j - 1 \in 1..Len(l) /\ m[j] = l[j - 1]
  BY <1>1, <1>4
<1>6. \A j \in 1..(Len(l) + 1) : m[j] \in B \cup {b}
  BY <1>4, <1>5 DEF Linked
<1>7. ASSUME NEW j \in 1..(Len(l) + 1), NEW k \in 1..(Len(l) + 1), m[j] = m[k] PROVE j = k
  <2>1. CASE j = 1 \/ k = 1
    BY <1>4, <1>5, <1>7, <2>1
  <2>2. CASE j # 1 /\ k # 1
    <3>1. j - 1 = k - 1
      BY <1>5, <1>7, <2>2 DEF Linked
    <3> QED BY <1>1, <3>1
  <2> QED BY <2>1, <2>2
<1>8. Linked(m, B \cup {b})
  BY <1>4, <1>6, <1>7 DEF Linked
<1> QED BY <1>8 DEF m

LEMMA LinkedAppended ==
  ASSUME NEW l, NEW B, Linked(l, B), NEW b \in Nat, \A j \in 1..Len(l) : l[j] # b
  PROVE  Linked(Append(l, b), B \cup {b})
BY DEF Linked

LEMMA KindTyped ==
  ASSUME K!HeapAssumption, kind \in Heaps
  PROVE  /\ K!Library \in BOOLEAN /\ K!PageWords \in Nat /\ K!PagelWords \in Nat /\ K!PagelWords + 1 < K!PageWords
         /\ K!BlockMax \in Nat /\ K!BlockMax > 0 /\ K!Start.at \in Nat /\ K!Start.words \in Nat /\ K!Start.words > 1
         /\ K!Sites \subseteq Nat /\ K!Requests \subseteq Nat
BY DEF K!HeapAssumption, K!Library, K!PageWords, K!PagelWords, K!BlockMax, K!Start, K!Sites, K!Requests, K!Region

(* The pieces in which malloc() leaves the block it found hold its words.  *)
LEMMA CarveKeeps ==
  ASSUME NEW sz, NEW A, NEW l, Blocks(sz), Inside(sz, A), Linked(l, DOMAIN sz),
         NEW i \in 1..Len(l), NEW s \in Nat, K!Carve(sz, l, i, s)
  PROVE  Blocks(size') /\ Inside(size', A) /\ Keeps(sz, size') /\ Linked(heap', DOMAIN size')
<1> DEFINE b == l[i]
           n == b + 1 + s
<1>1. b \in DOMAIN sz /\ b \in Nat /\ sz[b] \in Nat
  BY DEF Linked, Blocks
<1>2. CASE sz[b] > s + 1 + 2
  <2>1. size' = Split(sz, b, s) /\ heap' = [l EXCEPT ![i] = n]
    BY <1>2 DEF K!Carve, Split
  <2>2. sz[b] > s /\ n \in Nat
    BY <1>1, <1>2
  <2> HIDE DEF b
  <2>3. /\ Blocks(size') /\ Inside(size', A) /\ Keeps(sz, size') /\ n \notin DOMAIN sz
        /\ DOMAIN size' = DOMAIN sz \cup {n}
    <3>1. Blocks(Split(sz, b, s)) 
      BY <1>1, <2>2, SplitKeeps
    <3>2. Inside(Split(sz, b, s), A)
      BY <1>1, <2>2, SplitKeeps
    <3>3. Keeps(sz, Split(sz, b, s))
      BY <1>1, <2>2, SplitKeeps
    <3>4. n \notin DOMAIN sz 
      BY <1>1, <2>2, SplitKeeps
    <3>5. DOMAIN Split(sz, b, s) = DOMAIN sz \cup {n}
      BY DEF Split
    <3> QED BY <2>1, <3>1, <3>2, <3>3, <3>4, <3>5
  <2>4. \A j \in 1..Len(l) : l[j] # n
    BY <2>3 DEF Linked
  <2> HIDE DEF n
  <2>5. Linked(heap', (DOMAIN sz \ {b}) \cup {n})
    BY <2>1, <2>2, <2>4, LinkedReplaced DEF b
  <2>6. (DOMAIN sz \ {b}) \cup {n} \subseteq DOMAIN size'
    BY <2>3
  <2> QED BY <2>3, <2>5, <2>6, LinkedMore
<1>3. CASE ~(sz[b] > s + 1 + 2)
  <2>1. size' = sz /\ heap' = K!RemoveAt(l, i)
    BY <1>3 DEF K!Carve
  <2>2. Linked(heap', DOMAIN sz \ {b})
    BY <2>1, LinkedRemoved
  <2> HIDE DEF b
  <2>3. Linked(heap', DOMAIN size')
    BY <2>1, <2>2, LinkedMore
  <2>4. Keeps(sz, size')
    BY <2>1 DEF Keeps
  <2> QED BY <2>1, <2>3, <2>4
<1> QED BY <1>2, <1>3

(* A region that lies in pages of its own holds no word of a block.        *)
LEMMA GrowKeeps ==
  ASSUME HeapInv, NEW a \in Nat \X Nat, a[2] > 1, K!Vacant(a), NEW new,
         new = [b \in DOMAIN size \cup {a[1]} |-> IF b = a[1] THEN a[2] - 1 ELSE size[b]]
  PROVE  /\ Blocks(new) /\ Inside(new, arenas \cup {a}) /\ Keeps(size, new)
         /\ a[1] \notin DOMAIN size /\ DOMAIN new = DOMAIN size \cup {a[1]}
<1>1. /\ a[1] \in Nat /\ a[2] \in Nat /\ \A x \in DOMAIN size : x \in Nat /\ size[x] \in Nat
      /\ K!Span(a) = a[1]..(a[1] + a[2] - 1)
  BY DEF HeapInv, Blocks, K!Span
<1>2. ASSUME NEW x \in DOMAIN size, NEW y \in x..x + size[x] PROVE y \notin K!Span(a)
  <2>1. PICK r \in arenas : y \in K!Span(r)
    BY <1>2 DEF HeapInv, Inside
  <2>2. y \div K!PageWords \notin {z \div K!PageWords : z \in K!Span(a)}
    BY <2>1 DEF K!Vacant
  <2> QED BY <2>2
<1>3. \A x \in DOMAIN size : x \in x..x + size[x]
  BY <1>1
<1>4. a[1] \in K!Span(a)
  BY <1>1
<1>5. a[1] \notin DOMAIN size
  BY <1>2, <1>3, <1>4
<1>6. DOMAIN new = DOMAIN size \cup {a[1]} /\ new[a[1]] = a[2] - 1
      /\ \A x \in DOMAIN size : new[x] = size[x]
  BY <1>5
<1>7. Blocks(new)
  <2>1. ASSUME NEW x \in DOMAIN new, NEW y \in DOMAIN new, x < y PROVE x + new[x] < y
    <3>1. CASE x \in DOMAIN size /\ y \in DOMAIN size
      BY <1>6, <2>1, <3>1 DEF HeapInv, Blocks
    <3>2. CASE x \in DOMAIN size /\ y = a[1]
      <4>1. y \notin x..x + size[x]
        BY <1>2, <1>4, <3>2
      <4> QED BY <1>1, <1>6, <2>1, <3>2, <4>1
    <3>3. CASE x = a[1] /\ y \in DOMAIN size
      <4>1. y \notin a[1]..(a[1] + a[2] - 1)
        BY <1>1, <1>2, <1>3, <3>3
      <4> QED BY <1>1, <1>6, <2>1, <3>3, <4>1
    <3>4. CASE x = a[1] /\ y = a[1]
      BY <1>1, <2>1, <3>4
    <3> QED BY <1>6, <3>1, <3>2, <3>3, <3>4
  <2>2. DOMAIN new \subseteq Nat /\ new \in [DOMAIN new -> Nat]
    BY <1>1, <1>6
  <2> QED BY <2>1, <2>2 DEF Blocks
<1>8. Inside(new, arenas \cup {a})
  <2> SUFFICES ASSUME NEW x \in DOMAIN new, NEW y \in x..x + new[x]
               PROVE  \E r \in arenas \cup {a} : y \in K!Span(r)
    BY DEF Inside
  <2>1. CASE x \in DOMAIN size
    BY <1>6, <2>1 DEF HeapInv, Inside
  <2>2. CASE x = a[1]
    <3>1. a[1] + (a[2] - 1) = a[1] + a[2] - 1
      BY <1>1
    <3>2. y \in K!Span(a)
      BY <1>1, <1>6, <2>2, <3>1
    <3> QED BY <3>2
  <2> QED BY <1>6, <2>1, <2>2
<1>9. Keeps(size, new)
  BY <1>6 DEF Keeps
<1> QED BY <1>5, <1>6, <1>7, <1>8, <1>9

(* What every step leaves behind: the invariant, and all the words unless  *)
(* the list was empty.                                                     *)
Kept == HeapInv' /\ (heap # <<>> => Keeps(size, size'))

LEMMA KeptWhen ==
  ASSUME HeapInv, kind' = kind, arenas' \subseteq Nat \X Nat, Blocks(size'), Inside(size', arenas'),
         Linked(heap', DOMAIN size'), heap # <<>> => Keeps(size, size')
  PROVE  Kept
BY DEF HeapInv, Kept

LEMMA MallocStep ==
  ASSUME K!HeapAssumption, HeapInv, NEW s \in K!Requests, K!Malloc(s)
  PROVE  Kept
<1>1. s \in Nat /\ arenas' = arenas /\ kind' = kind
  BY KindTyped DEF HeapInv, K!Malloc
<1>2. Len(heap) \in Nat /\ heap \in Seq(Nat)
  BY DEF HeapInv, Linked
<1>3. K!Fits(s) \in SUBSET Nat /\ K!Fits(s) # {} /\ K!Fits(s) \subseteq 1..Len(heap)
  BY <1>2 DEF K!Malloc, K!Fits
<1>4. K!Min(K!Fits(s)) \in 1..Len(heap)
  BY <1>3, LeastOf
<1>5. K!Carve(size, heap, K!Min(K!Fits(s)), s)
  BY DEF K!Malloc
<1> DEFINE i == K!Min(K!Fits(s))
<1> HIDE DEF i
<1>6. i \in 1..Len(heap) /\ K!Carve(size, heap, i, s)
  BY <1>4, <1>5 DEF i
<1>7. Blocks(size) /\ Inside(size, arenas) /\ Linked(heap, DOMAIN size) /\ arenas \subseteq Nat \X Nat
  BY DEF HeapInv
<1>8. Blocks(size') /\ Inside(size', arenas) /\ Keeps(size, size') /\ Linked(heap', DOMAIN size')
  BY <1>1, <1>6, <1>7, CarveKeeps
<1> QED BY <1>1, <1>7, <1>8, KeptWhen

LEMMA MallocGrowsStep ==
  ASSUME K!HeapAssumption, HeapInv, NEW s \in K!Requests, K!MallocGrows(s)
  PROVE  Kept
<1>1. s \in Nat /\ kind' = kind
  BY KindTyped DEF HeapInv, K!MallocGrows
<1>2. Len(heap) \in Nat /\ heap \in Seq(Nat)
  BY DEF HeapInv, Linked
<1>3. PICK a \in K!Grown(s) : /\ K!Vacant(a) /\ arenas' = arenas \cup {a}
                              /\ K!Carve([b \in DOMAIN size \cup {a[1]} |-> IF b = a[1] THEN a[2] - 1 ELSE size[b]],
                                          Append(heap, a[1]), Len(heap) + 1, s)
  BY DEF K!MallocGrows
<1>4. a \in Nat \X Nat /\ a[2] > 1
  <2>1. CASE ~K!Library
    <3>1. PICK x \in K!Sites : a = <<x + K!PagelWords, K!PageWords - K!PagelWords>>
      BY <1>3, <2>1 DEF K!Grown
    <3> QED BY <3>1, KindTyped DEF HeapInv
  <2>2. CASE K!Library
    <3>1. PICK x \in K!Sites : a = <<x, IF s > K!BlockMax THEN s + 1 ELSE K!BlockMax * 8>>
      BY <1>3, <2>2 DEF K!Grown
    <3>2. K!BlockMax * 8 \in Nat /\ K!BlockMax * 8 > 1
      BY KindTyped DEF HeapInv
    <3> QED BY <1>1, <3>1, <3>2, KindTyped DEF HeapInv
  <2> QED BY <2>1, <2>2
<1> DEFINE sz == [b \in DOMAIN size \cup {a[1]} |-> IF b = a[1] THEN a[2] - 1 ELSE size[b]]
           l == Append(heap, a[1])
           A == arenas \cup {a}
           i == Len(heap) + 1
<1>5. Blocks(sz) /\ Inside(sz, A) /\ Keeps(size, sz) /\ a[1] \notin DOMAIN size
      /\ DOMAIN sz = DOMAIN size \cup {a[1]}
  BY <1>3, <1>4, GrowKeeps
<1>6. Linked(l, DOMAIN sz)
  <2>1. Linked(heap, DOMAIN size) /\ a[1] \in Nat
    BY <1>4 DEF HeapInv
  <2>2. \A j \in 1..Len(heap) : heap[j] # a[1]
    BY <1>5, <2>1 DEF Linked
  <2>3. Linked(Append(heap, a[1]), DOMAIN size \cup {a[1]})
    BY <2>1, <2>2, LinkedAppended
  <2> QED BY <1>5, <2>3
<1>7. i \in 1..Len(l)
  BY <1>2, <1>4
<1>8. K!Carve(sz, l, i, s) /\ arenas' = A
  BY <1>3
<1> HIDE DEF sz, l, A, i
<1>9. Blocks(size') /\ Inside(size', A) /\ Keeps(sz, size') /\ Linked(heap', DOMAIN size')
  BY <1>1, <1>5, <1>6, <1>7, <1>8, CarveKeeps
<1>10. Keeps(size, size')
  BY <1>5, <1>9 DEF Keeps
<1>11. arenas' \subseteq Nat \X Nat
  BY <1>4, <1>8 DEF HeapInv, A
<1> QED BY <1>1, <1>8, <1>9, <1>10, <1>11, KeptWhen

(* A block that is handed out is not on the list, whose blocks are others. *)
LEMMA NotListed ==
  ASSUME HeapInv, NEW b \in K!Live
  PROVE  /\ b \in DOMAIN size /\ b \in Nat /\ Len(heap) \in Nat /\ heap \in Seq(Nat)
         /\ \A x \in DOMAIN size : x \in Nat /\ size[x] \in Nat
         /\ \A j \in 1..Len(heap) : heap[j] # b /\ heap[j] \in DOMAIN size
         /\ \A i, j \in 1..Len(heap) : heap[i] = heap[j] => i = j
         /\ Linked(heap, DOMAIN size \ {b}) /\ Blocks(size) /\ Inside(size, arenas)
         /\ arenas \subseteq Nat \X Nat
<1>1. /\ b \in DOMAIN size /\ heap \in Seq(Nat) /\ Len(heap) \in Nat
      /\ b \notin {heap[j] : j \in DOMAIN heap} /\ DOMAIN heap = 1..Len(heap)
  BY DEF K!Live, K!ToSet, HeapInv, Linked
<1>2. \A x \in DOMAIN size : x \in Nat /\ size[x] \in Nat
  BY DEF HeapInv, Blocks
<1>3. \A j \in 1..Len(heap) : heap[j] # b /\ heap[j] \in DOMAIN size
  BY <1>1 DEF HeapInv, Linked
<1>4. \A i, j \in 1..Len(heap) : heap[i] = heap[j] => i = j
  BY DEF HeapInv, Linked
<1>5. Linked(heap, DOMAIN size \ {b})
  BY <1>1, <1>3, <1>4 DEF Linked
<1> QED BY <1>1, <1>2, <1>3, <1>4, <1>5 DEF HeapInv

LEMMA FreeFirstStep ==
  ASSUME HeapInv, NEW b \in K!Live, K!FreeFirst(b)
  PROVE  Kept
<1>1. arenas' = arenas /\ kind' = kind /\ heap # <<>>
  BY DEF K!FreeFirst
<1>2. /\ b \in DOMAIN size /\ b \in Nat /\ Len(heap) \in Nat /\ heap \in Seq(Nat)
      /\ \A x \in DOMAIN size : x \in Nat /\ size[x] \in Nat
      /\ \A j \in 1..Len(heap) : heap[j] # b /\ heap[j] \in DOMAIN size
      /\ Linked(heap, DOMAIN size \ {b}) /\ Blocks(size) /\ Inside(size, arenas)
      /\ arenas \subseteq Nat \X Nat
  BY NotListed
<1>3. 1 \in 1..Len(heap)
  BY <1>1, <1>2
<1> DEFINE c == heap[1]
<1>4. CASE K!End(b) = c
  <2>1. c \in DOMAIN size /\ c = b + 1 + size[b] /\ c # b
    BY <1>2, <1>3, <1>4 DEF K!End
  <2>2. size' = Merge(size, b, c) /\ heap' = [heap EXCEPT ![1] = b]
    BY <1>2, <1>4, <2>1 DEF K!FreeFirst, K!Without, K!Joined, Merge
  <2>3. Linked([heap EXCEPT ![1] = b], (DOMAIN size \ {c}) \cup {b})
    <3>1. Linked(heap, DOMAIN size) /\ \A j \in 1..Len(heap) : heap[j] # b
      BY <1>2 DEF HeapInv
    <3> QED BY <1>2, <1>3, <3>1, LinkedReplaced
  <2> HIDE DEF c
  <2>4. Blocks(size') /\ Inside(size', arenas) /\ Keeps(size, size')
    <3>1. Blocks(Merge(size, b, c))
      BY <1>2, <2>1, JoinKeeps
    <3>2. Inside(Merge(size, b, c), arenas)
      BY <1>2, <2>1, JoinKeeps
    <3>3. Keeps(size, Merge(size, b, c))
      BY <1>2, <2>1, JoinKeeps
    <3> QED BY <2>2, <3>1, <3>2, <3>3
  <2>5. DOMAIN size' = (DOMAIN size \ {c}) \cup {b}
    BY <1>2, <2>1, <2>2 DEF Merge
  <2> QED BY <1>1, <1>2, <2>2, <2>3, <2>4, <2>5, KeptWhen
<1>5. CASE K!End(b) # c
  <2>1. size' = size /\ heap' = <<b>> \o heap
    BY <1>5 DEF K!FreeFirst
  <2>2. Linked(<<b>> \o heap, (DOMAIN size \ {b}) \cup {b})
    BY <1>2, LinkedPrepended
  <2>3. Linked(heap', DOMAIN size')
    BY <1>2, <2>1, <2>2, LinkedMore
  <2>4. Keeps(size, size')
    BY <2>1 DEF Keeps
  <2> QED BY <1>1, <1>2, <2>1, <2>3, <2>4, KeptWhen
<1> QED BY <1>4, <1>5

LEMMA PlaceListed ==
  ASSUME NEW b, Len(heap) \in Nat, Len(heap) > 0
  PROVE  K!Place(b) \in 1..Len(heap)
<1> DEFINE found == {i \in 1..(Len(heap) - 2) : heap[i + 1] > b + 1 /\ b + 1 < heap[i + 2]}
<1>1. K!Place(b) = IF found = {} THEN Len(heap) ELSE K!Min(found)
  BY DEF K!Place
<1>2. found \in SUBSET Nat /\ found \subseteq 1..Len(heap)
  OBVIOUS
<1> HIDE DEF found
<1>3. ASSUME found # {} PROVE K!Min(found) \in found
  BY <1>2, <1>3, LeastOf
<1>4. CASE found = {}
  BY <1>1, <1>4
<1>5. CASE found # {}
  <2>1. K!Place(b) = K!Min(found)
    BY <1>1, <1>5
  <2> QED BY <1>2, <1>3, <1>5, <2>1
<1> QED BY <1>4, <1>5

LEMMA FreeAfterStep ==
  ASSUME HeapInv, NEW b \in K!Live, K!FreeAfter(b)
  PROVE  Kept
<1>1. arenas' = arenas /\ kind' = kind /\ heap # <<>>
  BY DEF K!FreeAfter
<1>2. /\ b \in DOMAIN size /\ b \in Nat /\ Len(heap) \in Nat /\ heap \in Seq(Nat)
      /\ \A x \in DOMAIN size : x \in Nat /\ size[x] \in Nat
      /\ \A j \in 1..Len(heap) : heap[j] # b /\ heap[j] \in DOMAIN size
      /\ \A i, j \in 1..Len(heap) : heap[i] = heap[j] => i = j
      /\ Linked(heap, DOMAIN size \ {b}) /\ Blocks(size) /\ Inside(size, arenas)
      /\ arenas \subseteq Nat \X Nat
  BY NotListed
<1> DEFINE i == K!Place(b)
           p == heap[i]
           n == IF i < Len(heap) THEN heap[i + 1] ELSE p
           palign == K!End(p) = b
           nalign == i < Len(heap) /\ K!End(b) = n
<1>3. i \in 1..Len(heap)
  <2>1. Len(heap) > 0
    BY <1>1, <1>2
  <2> QED BY <1>2, <2>1, PlaceListed
<1>4. /\ size' = IF palign /\ nalign THEN [K!Without({b, n}) EXCEPT ![p] = K!Joined(p, b) + 1 + size[n]]
                 ELSE IF nalign THEN [K!Without({n}) EXCEPT ![b] = K!Joined(b, n)]
                 ELSE IF palign THEN [K!Without({b}) EXCEPT ![p] = K!Joined(p, b)]
                 ELSE size
      /\ heap' = IF palign /\ nalign THEN K!RemoveAt(heap, i + 1)
                 ELSE IF nalign THEN [heap EXCEPT ![i + 1] = b]
                 ELSE IF palign THEN heap
                 ELSE K!InsertAt(heap, i + 1, b)
  BY DEF K!FreeAfter
<1>5. p \in DOMAIN size /\ p # b /\ (palign => b = p + 1 + size[p])
  BY <1>2, <1>3 DEF K!End
<1>6. nalign => /\ i + 1 \in 1..Len(heap) /\ n = heap[i + 1] /\ n \in DOMAIN size /\ n # b /\ n # p
                /\ n = b + 1 + size[b]
  <2> SUFFICES ASSUME nalign PROVE /\ i + 1 \in 1..Len(heap) /\ n = heap[i + 1] /\ n \in DOMAIN size
                                   /\ n # b /\ n # p /\ n = b + 1 + size[b]
    OBVIOUS
  <2>1. i + 1 \in 1..Len(heap) /\ i + 1 # i /\ n = heap[i + 1] /\ n = b + 1 + size[b]
    BY <1>2, <1>3 DEF K!End
  <2> HIDE DEF n, nalign, palign
  <2>2. n \in DOMAIN size /\ n # b
    BY <1>2, <2>1
  <2>3. n # p
    BY <1>2, <1>3, <2>1
  <2> QED BY <2>1, <2>2, <2>3
<1> HIDE DEF i, p, n, palign, nalign
<1>7. CASE palign /\ nalign
  <2> DEFINE mid == Merge(size, b, n)
  <2>1. /\ Blocks(mid) /\ Inside(mid, arenas) /\ Keeps(size, mid)
        /\ DOMAIN mid = DOMAIN size \ {n} /\ mid[p] = size[p] /\ mid[b] = size[b] + 1 + size[n]
    <3>1. Blocks(Merge(size, b, n))
      BY <1>2, <1>6, <1>7, JoinKeeps
    <3>2. Inside(Merge(size, b, n), arenas)
      BY <1>2, <1>6, <1>7, JoinKeeps
    <3>3. Keeps(size, Merge(size, b, n))
      BY <1>2, <1>6, <1>7, JoinKeeps
    <3>4. DOMAIN mid = DOMAIN size \ {n} /\ mid[p] = size[p] /\ mid[b] = size[b] + 1 + size[n]
      BY <1>2, <1>5, <1>6, <1>7 DEF Merge
    <3> QED BY <3>1, <3>2, <3>3, <3>4
  <2> HIDE DEF mid
  <2>2. p \in DOMAIN mid /\ b \in DOMAIN mid /\ b = p + 1 + mid[p]
    BY <1>2, <1>5, <1>6, <1>7, <2>1
  <2>3. size' = Merge(mid, p, b)
    <3>1. size' = [K!Without({b, n}) EXCEPT ![p] = K!Joined(p, b) + 1 + size[n]]
      BY <1>4, <1>7
    <3>2. DOMAIN size' = DOMAIN mid \ {b}
      BY <2>1, <3>1 DEF K!Without
    <3>3. ASSUME NEW x \in DOMAIN mid \ {b} PROVE size'[x] = IF x = p THEN mid[p] + 1 + mid[b] ELSE mid[x]
      <4>1. size'[x] = IF x = p THEN size[p] + 1 + size[b] + 1 + size[n] ELSE size[x]
        BY <2>1, <3>1, <3>3 DEF K!Without, K!Joined
      <4>2. x # p => mid[x] = size[x]
        BY <2>1, <3>3 DEF mid, Merge
      <4>3. size[p] \in Nat /\ size[b] \in Nat /\ size[n] \in Nat
        BY <1>2, <1>5, <1>6, <1>7 DEF Blocks
      <4>4. size[p] + 1 + size[b] + 1 + size[n] = mid[p] + 1 + mid[b]
        BY <2>1, <4>3
      <4> QED BY <4>1, <4>2, <4>4
    <3>4. size' = [x \in DOMAIN size' |-> size'[x]]
      BY <3>1 DEF K!Without
    <3> QED BY <3>2, <3>3, <3>4 DEF Merge
  <2>4. Blocks(size') /\ Inside(size', arenas) /\ DOMAIN size' = DOMAIN size \ {b, n}
    <3>1. Blocks(Merge(mid, p, b))
      BY <2>1, <2>2, JoinKeeps
    <3>2. Inside(Merge(mid, p, b), arenas)
      BY <2>1, <2>2, JoinKeeps
    <3>3. DOMAIN Merge(mid, p, b) = DOMAIN mid \ {b}
      BY DEF Merge
    <3> QED BY <2>1, <2>3, <3>1, <3>2, <3>3
  <2>5. Keeps(size, size')
    <3>1. Keeps(mid, Merge(mid, p, b))
      BY <2>1, <2>2, JoinKeeps
    <3> QED BY <2>1, <2>3, <3>1 DEF Keeps
  <2>6. Linked(heap', DOMAIN size')
    <3>1. Linked(K!RemoveAt(heap, i + 1), (DOMAIN size \ {b}) \ {heap[i + 1]})
      BY <1>2, <1>6, <1>7, LinkedRemoved
    <3>2. heap' = K!RemoveAt(heap, i + 1)
      BY <1>4, <1>7
    <3> QED BY <1>6, <1>7, <2>4, <3>1, <3>2, LinkedMore
  <2> QED BY <1>1, <1>2, <2>4, <2>5, <2>6, KeptWhen
<1>8. CASE ~palign /\ nalign
  <2>1. size' = Merge(size, b, n)
    BY <1>2, <1>4, <1>6, <1>8 DEF K!Without, K!Joined, Merge
  <2>2. Blocks(size') /\ Inside(size', arenas) /\ Keeps(size, size') /\ DOMAIN size' = DOMAIN size \ {n}
    <3>1. Blocks(Merge(size, b, n))
      BY <1>2, <1>6, <1>8, JoinKeeps
    <3>2. Inside(Merge(size, b, n), arenas)
      BY <1>2, <1>6, <1>8, JoinKeeps
    <3>3. Keeps(size, Merge(size, b, n))
      BY <1>2, <1>6, <1>8, JoinKeeps
    <3> QED BY <2>1, <3>1, <3>2, <3>3 DEF Merge
  <2>3. Linked(heap', DOMAIN size')
    <3>1. Linked([heap EXCEPT ![i + 1] = b], ((DOMAIN size \ {b}) \ {heap[i + 1]}) \cup {b})
      BY <1>2, <1>6, <1>8, LinkedReplaced
    <3>2. heap' = [heap EXCEPT ![i + 1] = b]
      BY <1>4, <1>8
    <3>3. ((DOMAIN size \ {b}) \ {n}) \cup {b} = DOMAIN size'
      BY <1>2, <1>6, <1>8, <2>2
    <3> QED BY <1>6, <1>8, <3>1, <3>2, <3>3
  <2> QED BY <1>1, <1>2, <2>2, <2>3, KeptWhen
<1>9. CASE palign /\ ~nalign
  <2>1. size' = Merge(size, p, b) /\ heap' = heap
    BY <1>2, <1>4, <1>5, <1>9 DEF K!Without, K!Joined, Merge
  <2>2. Blocks(size') /\ Inside(size', arenas) /\ Keeps(size, size') /\ DOMAIN size' = DOMAIN size \ {b}
    <3>1. Blocks(Merge(size, p, b))
      BY <1>2, <1>5, <1>9, JoinKeeps
    <3>2. Inside(Merge(size, p, b), arenas)
      BY <1>2, <1>5, <1>9, JoinKeeps
    <3>3. Keeps(size, Merge(size, p, b))
      BY <1>2, <1>5, <1>9, JoinKeeps
    <3> QED BY <2>1, <3>1, <3>2, <3>3 DEF Merge
  <2> QED BY <1>1, <1>2, <2>1, <2>2, KeptWhen
<1>10. CASE ~palign /\ ~nalign
  <2>1. size' = size /\ heap' = K!InsertAt(heap, i + 1, b)
    BY <1>4, <1>10
  <2>2. i + 1 \in 1..(Len(heap) + 1)
    BY <1>2, <1>3
  <2>3. Linked(K!InsertAt(heap, i + 1, b), (DOMAIN size \ {b}) \cup {b})
    BY <1>2, <2>2, LinkedInserted
  <2>4. Linked(heap', DOMAIN size')
    BY <1>2, <2>1, <2>3, LinkedMore
  <2>5. Keeps(size, size')
    BY <2>1 DEF Keeps
  <2> QED BY <1>1, <1>2, <2>1, <2>4, <2>5, KeptWhen
<1> QED BY <1>7, <1>8, <1>9, <1>10

LEMMA FreeForgottenStep ==
  ASSUME HeapInv, NEW b \in K!Live, K!FreeForgotten(b)
  PROVE  Kept
<1>1. arenas' = arenas /\ kind' = kind /\ heap = <<>> /\ heap' = heap
  BY DEF K!FreeForgotten
<1>2. DOMAIN size' = DOMAIN size \ {b} /\ \A x \in DOMAIN size' : size'[x] = size[x]
  BY DEF K!FreeForgotten, K!Without
<1>3. /\ \A x \in DOMAIN size : x \in Nat /\ size[x] \in Nat
      /\ \A x, y \in DOMAIN size : x < y => x + size[x] < y
  BY DEF HeapInv, Blocks
<1>4. size' \in [DOMAIN size' -> Nat]
  <2>1. size' = [x \in DOMAIN size \ {b} |-> size[x]]
    BY DEF K!FreeForgotten, K!Without
  <2> QED BY <1>2, <1>3, <2>1
<1>5. Blocks(size')
  BY <1>2, <1>3, <1>4 DEF Blocks
<1>6. Inside(size', arenas)
  BY <1>2 DEF HeapInv, Inside
<1>7. Linked(heap', DOMAIN size')
  BY <1>1 DEF Linked
<1> QED BY <1>1, <1>5, <1>6, <1>7, KeptWhen DEF HeapInv

LEMMA HeapInitInv == K!HeapAssumption /\ K!Init => HeapInv
<1> SUFFICES ASSUME K!HeapAssumption, K!Init PROVE HeapInv
  OBVIOUS
<1>1. kind \in Heaps
  BY DEF K!Init
<1>2. CASE K!Library
  <2>1. size = <<>> /\ heap = <<>> /\ arenas = {}
    BY <1>2 DEF K!Init
  <2>2. DOMAIN size = {} /\ size \in [{} -> Nat] /\ Len(heap) = 0 /\ heap \in Seq(Nat)
    BY <2>1
  <2> QED BY <1>1, <2>1, <2>2 DEF HeapInv, Blocks, Linked, Inside
<1>3. CASE ~K!Library
  <2>1. /\ size = [b \in {K!Start.at} |-> K!Start.words - 1] /\ heap = <<K!Start.at>>
        /\ arenas = {<<K!Start.at, K!Start.words>>}
    BY <1>3 DEF K!Init
  <2>2. K!Start.at \in Nat /\ K!Start.words \in Nat /\ K!Start.words > 1
    BY <1>1, KindTyped
  <2>3. Blocks(size) /\ DOMAIN size = {K!Start.at} /\ size[K!Start.at] = K!Start.words - 1
    BY <2>1, <2>2 DEF Blocks
  <2>4. Linked(heap, DOMAIN size)
    BY <2>1, <2>2, <2>3 DEF Linked
  <2>5. Inside(size, arenas)
    <3>1. K!Start.at + (K!Start.words - 1) = K!Start.at + K!Start.words - 1
      BY <2>2
    <3>2. K!Span(<<K!Start.at, K!Start.words>>) = K!Start.at..(K!Start.at + K!Start.words - 1)
      BY DEF K!Span
    <3> QED BY <2>1, <2>3, <3>1, <3>2 DEF Inside
  <2> QED BY <1>1, <2>1, <2>2, <2>3, <2>4, <2>5 DEF HeapInv
<1> QED BY <1>2, <1>3

LEMMA HeapNextInv ==
  K!HeapAssumption /\ HeapInv /\ [K!Next]_(K!vars) => HeapInv' /\ K!Remembers
<1> SUFFICES ASSUME K!HeapAssumption, HeapInv, [K!Next]_(K!vars) PROVE Kept
  <2>1. ASSUME HeapInv', Keeps(size, size') PROVE K!Tracked \subseteq K!Tracked'
    BY <2>1 DEF Keeps, K!Tracked, K!Words
  <2> QED BY <2>1 DEF Kept, K!Remembers
<1>1. ASSUME NEW s \in K!Requests, K!Malloc(s) PROVE Kept
  BY <1>1, MallocStep
<1>2. ASSUME NEW s \in K!Requests, K!MallocGrows(s) PROVE Kept
  BY <1>2, MallocGrowsStep
<1>3. ASSUME NEW b \in K!Live, K!FreeFirst(b) PROVE Kept
  BY <1>3, FreeFirstStep
<1>4. ASSUME NEW b \in K!Live, K!FreeAfter(b) PROVE Kept
  BY <1>4, FreeAfterStep
<1>5. ASSUME NEW b \in K!Live, K!FreeForgotten(b) PROVE Kept
  BY <1>5, FreeForgottenStep
<1>6. CASE UNCHANGED K!vars
  <2>1. kind' = kind /\ size' = size /\ heap' = heap /\ arenas' = arenas
    BY <1>6 DEF K!vars
  <2> QED BY <2>1 DEF HeapInv, Kept, Keeps
<1> QED BY <1>1, <1>2, <1>3, <1>4, <1>5, <1>6 DEF K!Next

LEMMA HeapInvGives == HeapInv => K!TypeOK /\ K!BlocksDisjoint
<1> SUFFICES ASSUME HeapInv PROVE K!TypeOK /\ K!BlocksDisjoint
  OBVIOUS
<1>1. /\ \A x \in DOMAIN size : x \in Nat /\ size[x] \in Nat
      /\ \A x, y \in DOMAIN size : x < y => x + size[x] < y
      /\ heap \in Seq(Nat) /\ DOMAIN heap = 1..Len(heap)
  BY DEF HeapInv, Blocks, Linked
<1>2. K!TypeOK
  BY <1>1 DEF HeapInv, Linked, K!TypeOK, K!ToSet, K!IsInjective
<1>3. ASSUME NEW b \in DOMAIN size, NEW c \in DOMAIN size, b # c PROVE K!Words(b) \cap K!Words(c) = {}
  <2>1. b < c \/ c < b
    BY <1>1, <1>3
  <2> QED BY <1>1, <2>1 DEF K!Words
<1>4. \A b \in DOMAIN size : K!Words(b) \subseteq UNION {K!Span(a) : a \in arenas}
  BY DEF HeapInv, Inside, K!Words
<1> QED BY <1>2, <1>3, <1>4 DEF K!BlocksDisjoint

-----------------------------------------------------------------------------
(* Fgroup.  A group that counts one more has the channel in two of its      *)
(* slots, counts it last and makes no other call meanwhile, so the counts   *)
(* still to be made are fewer than the slots: refs is not 0.                *)
chans == v1
live == v2
refs == v3
mode == v4
todo == v5
using == v6
broken == v7
USE DEF chans, live, refs, mode, todo, using, broken

Items == ({"inc", "dec"} \X Chans) \cup ({"dec"} \X Chans \X F!Fds)
FgTypeInv == /\ chans \in [FdGroups -> [F!Fds -> Chans \cup {None}]] /\ live \subseteq FdGroups
             /\ refs \in [Chans -> Nat] /\ mode \in [Chans -> SUBSET {"r", "w"}]
             /\ using \in [FdGroups -> Chans \cup {None}] /\ broken \subseteq Chans
             /\ todo \in [FdGroups -> Seq(Items)]
             /\ \A g \in FdGroups : Len(todo[g]) <= NChans + 1
Twice(slots, c) == \E fd, other \in F!Fds : fd # other /\ slots[fd] = c /\ slots[other] = c
(* What a group counts it has in two slots, and counts last; what it uses  *)
(* it has in a slot; and only a group with processes has any.              *)
GroupInv == \A g \in FdGroups :
  /\ \A i \in 1..Len(todo[g]) : todo[g][i][1] = "inc" =>
       i = Len(todo[g]) /\ (todo[g][i][2] \in broken \/ Twice(chans[g], todo[g][i][2]))
  /\ using[g] # None => todo[g] = <<>> /\ \E fd \in F!Fds : chans[g][fd] = using[g]
  /\ g \notin live => chans[g] = F!Empty /\ using[g] = None
Even(c) == refs[c] + Cardinality(F!Waiting("inc", c)) = Cardinality(F!Slots(c)) + Cardinality(F!Waiting("dec", c))
EvenInv == \A c \in Chans \ broken : Even(c)
FgInv == FgTypeInv /\ GroupInv /\ EvenInv

LEMMA SameCount == \A S : F!Cardinality(S) = Cardinality(S) /\ (F!IsFiniteSet(S) <=> IsFiniteSet(S))
BY DEF F!Cardinality, Cardinality, F!IsFiniteSet, IsFiniteSet

LEMMA Counted ==
  ASSUME F!FgroupAssumption, NEW c
  PROVE  /\ IsFiniteSet(F!Slots(c)) /\ Cardinality(F!Slots(c)) \in Nat
         /\ \A what : IsFiniteSet(F!Waiting(what, c)) /\ Cardinality(F!Waiting(what, c)) \in Nat
<1>1. IsFiniteSet(F!Fds) /\ IsFiniteSet(1..(NChans + 1)) /\ IsFiniteSet(FdGroups)
  BY FS_Interval, SameCount DEF F!FgroupAssumption, F!Fds
<1>2. IsFiniteSet(FdGroups \X F!Fds) /\ IsFiniteSet(FdGroups \X (1..(NChans + 1)))
  BY <1>1, FS_Product
<1>3. F!Slots(c) \subseteq FdGroups \X F!Fds
  BY DEF F!Slots
<1>4. \A what : F!Waiting(what, c) \subseteq FdGroups \X (1..(NChans + 1))
  BY DEF F!Waiting
<1> QED BY <1>2, <1>3, <1>4, FS_Subset, FS_CardinalityType

(* A channel that a group has still to count is in more slots than there   *)
(* are counts to be made.                                                  *)
LEMMA MoreSlots ==
  ASSUME F!FgroupAssumption, FgTypeInv, GroupInv, NEW c \in Chans \ broken, F!Slots(c) # {} \/ F!Waiting("inc", c) # {}
  PROVE  Cardinality(F!Waiting("inc", c)) < Cardinality(F!Slots(c))
<1> DEFINE W == F!Waiting("inc", c)
           Slot(g) == CHOOSE fd \in F!Fds : chans[g][fd] = c
           f == [w \in W |-> <<w[1], Slot(w[1])>>]
<1>1. ASSUME NEW w \in W PROVE w[1] \in FdGroups /\ w[2] = 1 /\ w = <<w[1], 1>> /\ Twice(chans[w[1]], c)
  <2> DEFINE g == w[1]
             l == todo[g]
             i == Len(l) + 1 - w[2]
  <2>1. g \in FdGroups /\ w[2] \in 1..(NChans + 1) /\ w[2] <= Len(l) /\ l[i][1] = "inc" /\ l[i][2] = c /\ w = <<g, w[2]>>
    BY <1>1 DEF F!Waiting, F!Left
  <2>2. NChans \in Nat /\ Len(l) \in Nat
    BY <2>1 DEF F!FgroupAssumption, FgTypeInv
  <2>3. w[2] \in Nat /\ w[2] >= 1
    BY <2>1, <2>2
  <2>4. i \in 1..Len(l)
    BY <2>1, <2>2, <2>3
  <2> HIDE DEF g, l, i
  <2>5. i = Len(l) /\ Twice(chans[g], c)
    BY <2>1, <2>4 DEF GroupInv, l
  <2>6. w[2] = 1
    BY <2>2, <2>3, <2>5 DEF i
  <2> QED BY <2>1, <2>5, <2>6 DEF g
<1>2. ASSUME NEW w \in W PROVE f[w] \in F!Slots(c) /\ f[w] = <<w[1], Slot(w[1])>>
  <2>1. \E fd \in F!Fds : chans[w[1]][fd] = c
    BY <1>1, <1>2 DEF Twice
  <2>2. Slot(w[1]) \in F!Fds /\ chans[w[1]][Slot(w[1])] = c
    BY <2>1
  <2> QED BY <1>1, <1>2, <2>2 DEF F!Slots
<1>3. f \in [W -> F!Slots(c)]
  BY <1>2
<1>4. \A v, w \in W : f[v] = f[w] => v = w
  <2> SUFFICES ASSUME NEW v \in W, NEW w \in W, f[v] = f[w] PROVE v = w
    OBVIOUS
  <2> HIDE DEF f
  <2>1. v[1] = w[1]
    BY <1>2
  <2> QED BY <1>1, <2>1
<1>5. IsFiniteSet(F!Slots(c)) /\ IsFiniteSet(W) /\ Cardinality(F!Slots(c)) \in Nat /\ Cardinality(W) \in Nat
  BY Counted
<1>6. PICK s \in F!Slots(c) : \A w \in W : f[w] # s
  <2>1. CASE W = {}
    BY <2>1
  <2>2. CASE W # {}
    <3>1. PICK w \in W : TRUE
      BY <2>2
    <3>2. PICK fd \in F!Fds, other \in F!Fds : fd # other /\ chans[w[1]][fd] = c /\ chans[w[1]][other] = c
      BY <1>1 DEF Twice
    <3>3. PICK x \in F!Fds : x # Slot(w[1]) /\ chans[w[1]][x] = c
      BY <3>2
    <3>4. <<w[1], x>> \in F!Slots(c)
      BY <1>1, <3>3 DEF F!Slots
    <3>5. \A v \in W : f[v] # <<w[1], x>>
      <4> SUFFICES ASSUME NEW v \in W, f[v] = <<w[1], x>> PROVE FALSE
        OBVIOUS
      <4>1. v[1] = w[1] /\ Slot(v[1]) = x
        <5> HIDE DEF f, Slot
        <5> QED BY <1>2
      <4> QED BY <3>3, <4>1
    <3> QED BY <3>4, <3>5
  <2> QED BY <2>1, <2>2
<1> HIDE DEF f, W, Slot
<1>7. f \in [W -> F!Slots(c) \ {s}]
  BY <1>3, <1>6
<1>8. f \in Injection(W, F!Slots(c) \ {s})
  BY <1>4, <1>7 DEF Injection, IsInjective
<1>9. IsFiniteSet(F!Slots(c) \ {s}) /\ Cardinality(F!Slots(c) \ {s}) = Cardinality(F!Slots(c)) - 1
  BY <1>5, <1>6, FS_RemoveElement
<1>10. Cardinality(W) <= Cardinality(F!Slots(c) \ {s})
  BY <1>8, <1>9, FS_Injection
<1> QED BY <1>5, <1>9, <1>10 DEF W

LEMMA FgInvGives == ASSUME F!FgroupAssumption, FgInv PROVE F!TypeOK /\ F!ChannelsKept
<1>1. F!TypeOK
  BY DEF FgInv, FgTypeInv, F!TypeOK
<1>2. ASSUME NEW c \in Chans \ broken, F!Slots(c) # {} \/ \E g \in FdGroups : using[g] = c PROVE refs[c] > 0
  <2>1. F!Slots(c) # {}
    <3>1. CASE \E g \in FdGroups : using[g] = c
      <4>1. PICK g \in FdGroups : using[g] = c
        BY <3>1
      <4>2. c # None
        BY DEF F!FgroupAssumption
      <4>3. PICK fd \in F!Fds : chans[g][fd] = c
        BY <4>1, <4>2 DEF FgInv, GroupInv
      <4>4. <<g, fd>> \in F!Slots(c)
        BY <4>3 DEF F!Slots
      <4> QED BY <4>4
    <3> QED BY <1>2, <3>1
  <2>2. Cardinality(F!Waiting("inc", c)) < Cardinality(F!Slots(c))
    BY <2>1, MoreSlots DEF FgInv
  <2>3. Even(c) /\ refs[c] \in Nat
    BY DEF FgInv, EvenInv, FgTypeInv
  <2>4. Cardinality(F!Waiting("inc", c)) \in Nat /\ Cardinality(F!Slots(c)) \in Nat /\ Cardinality(F!Waiting("dec", c)) \in Nat
    BY Counted
  <2> QED BY <2>2, <2>3, <2>4 DEF Even
<1> QED BY <1>1, <1>2, SameCount DEF FgInv, EvenInv, Even, F!ChannelsKept

LEMMA FgInitInv == F!FgroupAssumption /\ F!Init => FgInv
<1> SUFFICES ASSUME F!FgroupAssumption, F!Init PROVE FgInv
  OBVIOUS
<1>1. None \notin Chans /\ NChans \in Nat /\ First \in FdGroups
  BY DEF F!FgroupAssumption
<1>2. FgTypeInv
  <2>1. <<>> \in Seq(Items) /\ Len(<<>>) = 0
    OBVIOUS
  <2> QED BY <1>1, <2>1 DEF F!Init, FgTypeInv, F!Empty
<1>3. GroupInv
  BY DEF F!Init, GroupInv, F!Empty
<1>4. ASSUME NEW c \in Chans PROVE Even(c)
  <2>1. F!Slots(c) = {}
    BY <1>1, <1>4 DEF F!Init, F!Slots, F!Empty
  <2>2. \A what : F!Waiting(what, c) = {}
    BY <1>1 DEF F!Init, F!Waiting
  <2>3. refs[c] = 0
    BY DEF F!Init
  <2> QED BY <2>1, <2>2, <2>3, FS_EmptySet DEF Even
<1> QED BY <1>2, <1>3, <1>4 DEF FgInv, EvenInv

(* What a call adds to the steps that are left on its group.               *)
New(g, l, what, c) == {w \in {g} \X (1..(NChans + 1)) :
                         w[2] <= Len(l) /\ F!Left(l, w[2])[1] = what /\ F!Left(l, w[2])[2] = c}
LEMMA NewSteps ==
  ASSUME F!FgroupAssumption, FgTypeInv, NEW g \in FdGroups, todo[g] = <<>>, NEW l, todo' = [todo EXCEPT ![g] = l],
         NEW c, NEW what
  PROVE  /\ F!Waiting(what, c)' = F!Waiting(what, c) \cup New(g, l, what, c)
         /\ F!Waiting(what, c) \cap New(g, l, what, c) = {}
<1>1. NChans \in Nat /\ todo'[g] = l /\ \A h \in FdGroups : h # g => todo'[h] = todo[h]
  BY DEF F!FgroupAssumption, FgTypeInv
<1>2. \A w \in F!Waiting(what, c) : w[1] # g /\ w[2] \in 1..(NChans + 1)
  BY <1>1 DEF F!Waiting
<1>3. ASSUME NEW w \in FdGroups \X (1..(NChans + 1))
      PROVE  w \in F!Waiting(what, c)' <=> w \in F!Waiting(what, c) \/ w \in New(g, l, what, c)
  <2>1. CASE w[1] = g
    <3>1. w \in {g} \X (1..(NChans + 1))
      BY <1>3, <2>1
    <3> QED BY <1>1, <1>2, <2>1, <3>1 DEF F!Waiting, New
  <2>2. CASE w[1] # g
    <3>1. w \notin New(g, l, what, c)
      BY <2>2 DEF New
    <3> QED BY <1>1, <1>3, <2>2, <3>1 DEF F!Waiting
  <2> QED BY <2>1, <2>2
<1>4. /\ F!Waiting(what, c)' \subseteq FdGroups \X (1..(NChans + 1))
      /\ F!Waiting(what, c) \subseteq FdGroups \X (1..(NChans + 1))
      /\ New(g, l, what, c) \subseteq FdGroups \X (1..(NChans + 1))
  BY DEF F!Waiting, New
<1>5. \A w \in New(g, l, what, c) : w[1] = g
  BY DEF New
<1>6. F!Waiting(what, c)' = F!Waiting(what, c) \cup New(g, l, what, c)
  BY <1>3, <1>4
<1> QED BY <1>2, <1>5, <1>6

(* Nothing waits for a channel that is free and in no slot.                *)
LEMMA UnusedIdle ==
  ASSUME F!FgroupAssumption, FgInv, NEW c \in F!Unused
  PROVE  /\ c \in Chans \ broken /\ refs[c] = 0 /\ F!Slots(c) = {} /\ c # None
         /\ F!Waiting("inc", c) = {} /\ F!Waiting("dec", c) = {}
<1>1. c \in Chans \ broken /\ refs[c] = 0 /\ F!Slots(c) = {} /\ c # None
  BY DEF F!Unused, F!Slots, F!FgroupAssumption
<1>2. Cardinality(F!Slots(c)) = 0 /\ \A what : Cardinality(F!Waiting(what, c)) \in Nat
  BY <1>1, Counted, FS_EmptySet
<1>3. F!Waiting("inc", c) = {}
  BY <1>1, <1>2, MoreSlots DEF FgInv
<1>4. Cardinality(F!Waiting("inc", c)) = 0
  BY <1>3, FS_EmptySet
<1>5. Cardinality(F!Waiting("dec", c)) = 0
  BY <1>1, <1>2, <1>4 DEF FgInv, EvenInv, Even
<1>6. F!Waiting("dec", c) = {}
  BY <1>5, Counted, FS_EmptySet
<1> QED BY <1>1, <1>3, <1>6

LEMMA FirstFree ==
  ASSUME F!FgroupAssumption, FgTypeInv, NEW slots \in [F!Fds -> Chans \cup {None}], NEW c \in Chans,
         {fd \in F!Fds : slots[fd] = None} # {}
  PROVE  \E fd \in F!Fds : slots[fd] = None /\ F!Added(slots, c) = [slots EXCEPT ![fd] = c]
<1> DEFINE S == {fd \in F!Fds : slots[fd] = None}
<1>1. NChans \in Nat
  BY DEF F!FgroupAssumption
<1>2. S \in SUBSET Nat /\ S # {}
  BY <1>1 DEF F!Fds
<1> HIDE DEF S
<1>3. PICK x \in S : \A y \in S : <<y, x>> \notin OpToRel(<, Nat)
  BY <1>2, NatLessThanWellFounded, WFMin
<1>4. \A y \in S : ~(y < x)
  BY <1>2, <1>3, Zenon DEF OpToRel
<1>5. \A y \in S : x <= y
  BY <1>2, <1>4
<1>6. F!First1(S) \in S
  BY <1>5 DEF F!First1
<1> QED BY <1>6 DEF S, F!Added

(* A step that leaves slots, steps to be made and the groups that run as   *)
(* they are, and counts only of what is broken.                            *)
LEMMA SameSlots ==
  ASSUME FgTypeInv, UNCHANGED <<chans, todo>>
  PROVE  \A c : /\ F!Slots(c)' = F!Slots(c)
                /\ \A what : F!Waiting(what, c)' = F!Waiting(what, c)
BY DEF F!Slots, F!Waiting

LEMMA UseStep ==
  ASSUME F!FgroupAssumption, FgInv, NEW g \in FdGroups, NEW fd \in F!Fds, NEW m, F!Use(g, fd, m)
  PROVE  FgInv'
<1>1. /\ F!Idle(g) /\ fd \in F!Open(g) /\ using' = [using EXCEPT ![g] = chans[g][fd]]
      /\ UNCHANGED <<chans, live, refs, mode, todo, broken>>
  BY DEF F!Use
<1>2. FgTypeInv'
  BY <1>1 DEF FgInv, FgTypeInv
<1>3. GroupInv'
  <2>1. \A h \in FdGroups : using'[h] = IF h = g THEN chans[g][fd] ELSE using[h]
    BY <1>1 DEF FgInv, FgTypeInv
  <2> QED BY <1>1, <2>1 DEF FgInv, GroupInv, F!Idle
<1>4. EvenInv'
  BY <1>1, SameSlots DEF FgInv, EvenInv, Even
<1> QED BY <1>2, <1>3, <1>4 DEF FgInv

LEMMA UsedStep ==
  ASSUME F!FgroupAssumption, FgInv, NEW g \in FdGroups, F!Used(g)
  PROVE  FgInv'
<1>1. using' = [using EXCEPT ![g] = None] /\ UNCHANGED <<chans, live, refs, mode, todo, broken>>
  BY DEF F!Used
<1>2. FgTypeInv'
  BY <1>1 DEF FgInv, FgTypeInv
<1>3. GroupInv'
  <2>1. \A h \in FdGroups : using'[h] = IF h = g THEN None ELSE using[h]
    BY <1>1 DEF FgInv, FgTypeInv
  <2> QED BY <1>1, <2>1 DEF FgInv, GroupInv
<1>4. EvenInv'
  BY <1>1, SameSlots DEF FgInv, EvenInv, Even
<1> QED BY <1>2, <1>3, <1>4 DEF FgInv

LEMMA GroupKept ==
  ASSUME FgTypeInv, GroupInv, NEW g \in FdGroups, todo[g] = <<>>, using[g] = None, NEW new, NEW l,
         chans' = [chans EXCEPT ![g] = new], todo' = [todo EXCEPT ![g] = l], using' = using,
         broken \subseteq broken', \A h \in FdGroups : h # g => (h \in live' <=> h \in live),
         g \notin live' => new = F!Empty, Len(l) \in Nat,
         \A i \in 1..Len(l) : l[i][1] = "inc" => (i = Len(l) /\ (l[i][2] \in broken' \/ Twice(new, l[i][2])))
  PROVE  GroupInv'
<1>1. /\ chans'[g] = new /\ todo'[g] = l
      /\ \A h \in FdGroups : h # g => chans'[h] = chans[h] /\ todo'[h] = todo[h]
  BY DEF FgTypeInv
<1>3. ASSUME NEW h \in FdGroups, NEW i \in 1..Len(todo'[h]), todo'[h][i][1] = "inc"
      PROVE  i = Len(todo'[h]) /\ (todo'[h][i][2] \in broken' \/ Twice(chans'[h], todo'[h][i][2]))
  <2>1. CASE h = g
    <3>1. todo'[h] = l /\ chans'[h] = new /\ i \in 1..Len(l) /\ l[i][1] = "inc"
      BY <1>1, <1>3, <2>1
    <3> QED BY <3>1
  <2>2. CASE h # g
    <3>1. todo'[h] = todo[h] /\ chans'[h] = chans[h] /\ i \in 1..Len(todo[h]) /\ todo[h][i][1] = "inc"
      BY <1>1, <1>3, <2>2
    <3>2. i = Len(todo[h]) /\ (todo[h][i][2] \in broken \/ Twice(chans[h], todo[h][i][2]))
      BY <3>1 DEF GroupInv
    <3> QED BY <3>1, <3>2
  <2> QED BY <2>1, <2>2
<1>4. ASSUME NEW h \in FdGroups, using'[h] # None
      PROVE  todo'[h] = <<>> /\ \E fd \in F!Fds : chans'[h][fd] = using'[h]
  BY <1>1, <1>4 DEF GroupInv
<1>5. ASSUME NEW h \in FdGroups, h \notin live' PROVE chans'[h] = F!Empty /\ using'[h] = None
  BY <1>1, <1>5 DEF GroupInv
<1> QED BY <1>3, <1>4, <1>5 DEF GroupInv

LEMMA SlotTyped ==
  ASSUME FgTypeInv, NEW g \in FdGroups, NEW fd \in F!Fds, NEW x \in Chans \cup {None},
         chans' = [chans EXCEPT ![g] = [chans[g] EXCEPT ![fd] = x]]
  PROVE  chans' \in [FdGroups -> [F!Fds -> Chans \cup {None}]]
<1>1. [chans[g] EXCEPT ![fd] = x] \in [F!Fds -> Chans \cup {None}]
  BY DEF FgTypeInv
<1> QED BY <1>1 DEF FgTypeInv

LEMMA OneSlot ==
  ASSUME FgTypeInv, NEW g \in FdGroups, NEW fd \in F!Fds, NEW x,
         chans' = [chans EXCEPT ![g] = [chans[g] EXCEPT ![fd] = x]], NEW c
  PROVE  F!Slots(c)' = IF c = x THEN F!Slots(c) \cup {<<g, fd>>} ELSE F!Slots(c) \ {<<g, fd>>}
<1>1. \A h \in FdGroups, other \in F!Fds : chans'[h][other] = IF h = g /\ other = fd THEN x ELSE chans[h][other]
  BY DEF FgTypeInv
<1>2. \A s \in FdGroups \X F!Fds : s[1] \in FdGroups /\ s[2] \in F!Fds /\ (s = <<g, fd>> <=> s[1] = g /\ s[2] = fd)
  OBVIOUS
<1>3. <<g, fd>> \in FdGroups \X F!Fds
  OBVIOUS
<1>4. \A s \in FdGroups \X F!Fds : s \in F!Slots(c)' <=> IF s = <<g, fd>> THEN c = x ELSE s \in F!Slots(c)
  BY <1>1, <1>2 DEF F!Slots
<1>5. F!Slots(c)' \subseteq FdGroups \X F!Fds /\ F!Slots(c) \subseteq FdGroups \X F!Fds
  BY DEF F!Slots
<1> QED BY <1>3, <1>4, <1>5

LEMMA NewOne ==
  ASSUME F!FgroupAssumption, NEW g, NEW to, NEW c, NEW what, NEW x
  PROVE  New(g, <<<<to, c>>>>, what, x) = IF to = what /\ c = x THEN {<<g, 1>>} ELSE {}
<1> DEFINE l == <<<<to, c>>>>
<1>1. NChans \in Nat /\ 1 \in 1..(NChans + 1)
  BY DEF F!FgroupAssumption
<1>2. Len(l) = 1 /\ F!Left(l, 1) = <<to, c>>
  BY DEF F!Left
<1>3. \A w \in {g} \X (1..(NChans + 1)) : w[2] <= 1 <=> w = <<g, 1>>
  BY <1>1
<1> HIDE DEF l
<1>4. New(g, l, what, x) = IF to = what /\ c = x THEN {<<g, 1>>} ELSE {}
  <2>1. \A w : w \in New(g, l, what, x) <=> w = <<g, 1>> /\ to = what /\ c = x
    BY <1>1, <1>2, <1>3 DEF New
  <2> QED BY <2>1
<1> QED BY <1>4 DEF l

LEMMA NewNone == ASSUME F!FgroupAssumption, NEW g, NEW what, NEW x PROVE New(g, <<>>, what, x) = {}
<1>1. NChans \in Nat
  BY DEF F!FgroupAssumption
<1> QED BY <1>1 DEF New

(* One more on each side, or one less.                                     *)
LEMMA Grows ==
  ASSUME NEW S, IsFiniteSet(S), NEW x, x \notin S
  PROVE  Cardinality(S \cup {x}) = Cardinality(S) + 1
BY FS_AddElement
LEMMA Shrinks ==
  ASSUME NEW S, IsFiniteSet(S), NEW x \in S
  PROVE  Cardinality(S \ {x}) = Cardinality(S) - 1
BY FS_RemoveElement

LEMMA SysOpenStep ==
  ASSUME F!FgroupAssumption, FgInv, NEW g \in FdGroups, NEW c \in Chans, NEW m \in F!Modes, F!SysOpen(g, c, m)
  PROVE  FgInv'
<1>1. /\ todo[g] = <<>> /\ using[g] = None /\ g \in live /\ c \in F!Unused
      /\ refs' = [refs EXCEPT ![c] = 1] /\ mode' = [mode EXCEPT ![c] = m] /\ UNCHANGED <<live, todo, using>>
  BY DEF F!SysOpen, F!Idle
<1>2. /\ c \in Chans \ broken /\ refs[c] = 0 /\ F!Slots(c) = {} /\ c # None
      /\ F!Waiting("inc", c) = {} /\ F!Waiting("dec", c) = {}
  BY <1>1, UnusedIdle
<1>3. \A x, what : F!Waiting(what, x)' = F!Waiting(what, x)
  BY <1>1 DEF F!Waiting
<1>4. todo' = [todo EXCEPT ![g] = <<>>] /\ Len(<<>>) = 0
  BY <1>1 DEF FgInv, FgTypeInv
<1>5. None \notin Chans /\ m \in SUBSET {"r", "w"}
  BY DEF F!FgroupAssumption, F!Modes
<1>6. CASE F!FreeFds(g) # {}
  <2>1. chans' = [chans EXCEPT ![g] = F!Added(chans[g], c)] /\ broken' = broken
    BY <1>6 DEF F!SysOpen
  <2>2. chans[g] \in [F!Fds -> Chans \cup {None}] /\ {fd \in F!Fds : chans[g][fd] = None} # {}
    BY <1>6 DEF F!FreeFds, F!Open, FgInv, FgTypeInv
  <2>3. PICK fd \in F!Fds : chans[g][fd] = None /\ F!Added(chans[g], c) = [chans[g] EXCEPT ![fd] = c]
    BY <2>2, FirstFree DEF FgInv
  <2>4. chans' = [chans EXCEPT ![g] = [chans[g] EXCEPT ![fd] = c]]
    BY <2>1, <2>3
  <2>5. FgTypeInv'
    <3>1. chans' \in [FdGroups -> [F!Fds -> Chans \cup {None}]]
      BY <2>4, SlotTyped DEF FgInv
    <3> QED BY <1>1, <1>5, <2>1, <3>1 DEF FgInv, FgTypeInv
  <2>6. GroupInv'
    <3> DEFINE new == [chans[g] EXCEPT ![fd] = c]
               l == <<>>
    <3>1. /\ FgTypeInv /\ GroupInv /\ chans' = [chans EXCEPT ![g] = new]
          /\ todo' = [todo EXCEPT ![g] = l] /\ Len(l) = 0
      BY <1>4, <2>4 DEF FgInv
    <3> HIDE DEF new, l
    <3>2. /\ using' = using /\ broken \subseteq broken' /\ g \in live' /\ Len(l) \in Nat
          /\ \A h \in FdGroups : h # g => (h \in live' <=> h \in live)
      BY <1>1, <2>1, <3>1
    <3>3. \A i \in 1..Len(l) : l[i][1] = "inc" => (i = Len(l) /\ (l[i][2] \in broken' \/ Twice(new, l[i][2])))
      BY <3>1
    <3> QED BY <1>1, <3>1, <3>2, <3>3, GroupKept
  <2>7. ASSUME NEW x \in Chans \ broken PROVE Even(x)'
    <3>1. F!Slots(x)' = IF x = c THEN F!Slots(x) \cup {<<g, fd>>} ELSE F!Slots(x) \ {<<g, fd>>}
      BY <2>4, OneSlot DEF FgInv
    <3>2. CASE x = c
      <4>1. F!Slots(x)' = {<<g, fd>>} /\ refs'[x] = 1 /\ F!Waiting("inc", x)' = {} /\ F!Waiting("dec", x)' = {}
        BY <1>1, <1>2, <1>3, <3>1, <3>2 DEF FgInv, FgTypeInv
      <4> QED BY <4>1, FS_Singleton, FS_EmptySet DEF Even
    <3>3. CASE x # c
      <4>1. <<g, fd>> \notin F!Slots(x)
        BY <1>5, <2>3, <2>7 DEF F!Slots
      <4>2. F!Slots(x)' = F!Slots(x) /\ refs'[x] = refs[x]
        BY <1>1, <2>7, <3>1, <3>3, <4>1 DEF FgInv, FgTypeInv
      <4> QED BY <1>3, <2>7, <4>2 DEF FgInv, EvenInv, Even
    <3> QED BY <3>2, <3>3
  <2> QED BY <2>1, <2>5, <2>6, <2>7 DEF FgInv, EvenInv
<1>7. CASE F!FreeFds(g) = {}
  <2>1. chans' = chans /\ broken' = broken \cup {c}
    BY <1>7 DEF F!SysOpen
  <2>2. FgTypeInv'
    BY <1>1, <1>5, <2>1 DEF FgInv, FgTypeInv
  <2>3. GroupInv'
    BY <1>1, <2>1 DEF FgInv, GroupInv
  <2>4. ASSUME NEW x \in Chans \ broken' PROVE Even(x)'
    <3>1. F!Slots(x)' = F!Slots(x) /\ refs'[x] = refs[x] /\ x \in Chans \ broken
      BY <1>1, <2>1, <2>4 DEF F!Slots, FgInv, FgTypeInv
    <3> QED BY <1>3, <3>1 DEF FgInv, EvenInv, Even
  <2> QED BY <2>2, <2>3, <2>4 DEF FgInv, EvenInv
<1> QED BY <1>6, <1>7

LEMMA SysCloseStep ==
  ASSUME F!FgroupAssumption, FgInv, NEW g \in FdGroups, NEW fd \in F!Fds, F!SysClose(g, fd)
  PROVE  FgInv'
<1> DEFINE c == chans[g][fd]
           l == <<<<"dec", c>>>>
<1>1. /\ todo[g] = <<>> /\ using[g] = None /\ g \in live /\ c # None /\ c \in Chans
      /\ chans' = [chans EXCEPT ![g] = [chans[g] EXCEPT ![fd] = None]] /\ todo' = [todo EXCEPT ![g] = l]
      /\ UNCHANGED <<live, refs, mode, using, broken>>
  BY DEF F!SysClose, F!Idle, F!Open, FgInv, FgTypeInv
<1>2. None \notin Chans /\ NChans \in Nat
  BY DEF F!FgroupAssumption
<1>3. /\ l \in Seq(Items) /\ Len(l) = 1 /\ l[1] = <<"dec", c>>
  <2>1. <<"dec", c>> \in Items
    BY <1>1 DEF Items
  <2> QED BY <2>1
<1>4. \A x, what : /\ F!Waiting(what, x)' = F!Waiting(what, x) \cup New(g, l, what, x)
                   /\ F!Waiting(what, x) \cap New(g, l, what, x) = {}
  BY <1>1, NewSteps DEF FgInv
<1>5. \A x, what : New(g, l, what, x) = IF "dec" = what /\ c = x THEN {<<g, 1>>} ELSE {}
  BY NewOne
<1> HIDE DEF l
<1>6. FgTypeInv'
  <2>1. chans' \in [FdGroups -> [F!Fds -> Chans \cup {None}]]
    BY <1>1, SlotTyped DEF FgInv
  <2>2. todo' \in [FdGroups -> Seq(Items)]
    BY <1>1, <1>3 DEF FgInv, FgTypeInv
  <2>3. \A h \in FdGroups : Len(todo'[h]) <= NChans + 1
    <3>1. \A h \in FdGroups : h # g => todo'[h] = todo[h]
      BY <1>1 DEF FgInv, FgTypeInv
    <3>2. todo'[g] = l
      BY <1>1 DEF FgInv, FgTypeInv
    <3>3. Len(l) <= NChans + 1
      BY <1>2, <1>3
    <3> QED BY <3>1, <3>2, <3>3 DEF FgInv, FgTypeInv
  <2> QED BY <1>1, <2>1, <2>2, <2>3 DEF FgInv, FgTypeInv
<1>7. GroupInv'
  <2> DEFINE new == [chans[g] EXCEPT ![fd] = None]
  <2>1. chans' = [chans EXCEPT ![g] = new] /\ FgTypeInv /\ GroupInv
    BY <1>1 DEF FgInv
  <2>2. \A i \in 1..Len(l) : l[i][1] # "inc"
    BY <1>3
  <2> HIDE DEF new
  <2>3. /\ using' = using /\ broken \subseteq broken' /\ g \in live' /\ Len(l) \in Nat
        /\ \A h \in FdGroups : h # g => (h \in live' <=> h \in live)
    BY <1>1, <1>3
  <2>4. \A i \in 1..Len(l) : l[i][1] = "inc" => (i = Len(l) /\ (l[i][2] \in broken' \/ Twice(new, l[i][2])))
    BY <2>2
  <2> QED BY <1>1, <2>1, <2>3, <2>4, GroupKept
<1>8. ASSUME NEW x \in Chans \ broken PROVE Even(x)'
  <2>1. F!Slots(x)' = F!Slots(x) \ {<<g, fd>>} /\ <<g, fd>> \in FdGroups \X F!Fds
    <3>1. F!Slots(x)' = IF x = None THEN F!Slots(x) \cup {<<g, fd>>} ELSE F!Slots(x) \ {<<g, fd>>}
      BY <1>1, OneSlot DEF FgInv
    <3> QED BY <1>2, <1>8, <3>1
  <2>2. refs'[x] = refs[x] /\ Even(x) /\ F!Waiting("inc", x)' = F!Waiting("inc", x)
    BY <1>1, <1>4, <1>5, <1>8 DEF FgInv, EvenInv
  <2>3. CASE x # c
    <3>0. <<g, fd>> \notin F!Slots(x)
      BY <2>3 DEF F!Slots
    <3>1. F!Slots(x)' = F!Slots(x) /\ F!Waiting("dec", x)' = F!Waiting("dec", x)
      BY <1>4, <1>5, <2>1, <2>3, <3>0
    <3> QED BY <2>2, <3>1 DEF Even
  <2>4. CASE x = c
    <3>1. /\ <<g, fd>> \in F!Slots(x) /\ <<g, 1>> \notin F!Waiting("dec", x)
          /\ F!Waiting("dec", x)' = F!Waiting("dec", x) \cup {<<g, 1>>}
      BY <1>4, <1>5, <2>1, <2>4 DEF F!Slots
    <3>2. Cardinality(F!Slots(x)') = Cardinality(F!Slots(x)) - 1
      BY <2>1, <3>1, Counted, Shrinks
    <3>3. Cardinality(F!Waiting("dec", x)') = Cardinality(F!Waiting("dec", x)) + 1
      BY <3>1, Counted, Grows
    <3>4. Cardinality(F!Slots(x)) \in Nat /\ Cardinality(F!Waiting("dec", x)) \in Nat
      BY Counted
    <3> QED BY <2>2, <3>2, <3>3, <3>4 DEF Even
  <2> QED BY <2>3, <2>4
<1> QED BY <1>1, <1>6, <1>7, <1>8 DEF FgInv, EvenInv

LEMMA TodoTyped ==
  ASSUME F!FgroupAssumption, FgTypeInv, NEW g \in FdGroups, NEW l \in Seq(Items), Len(l) <= NChans + 1,
         todo' = [todo EXCEPT ![g] = l]
  PROVE  todo' \in [FdGroups -> Seq(Items)] /\ \A h \in FdGroups : Len(todo'[h]) <= NChans + 1
<1>1. todo' \in [FdGroups -> Seq(Items)]
  BY DEF FgTypeInv
<1>2. todo'[g] = l /\ \A h \in FdGroups : h # g => todo'[h] = todo[h]
  BY DEF FgTypeInv
<1> QED BY <1>1, <1>2 DEF FgTypeInv

LEMMA SysDupStep ==
  ASSUME F!FgroupAssumption, FgInv, NEW g \in FdGroups, NEW old \in F!Fds, F!SysDup(g, old)
  PROVE  FgInv'
<1> DEFINE c == chans[g][old]
           l == <<<<"inc", c>>>>
<1>1. /\ todo[g] = <<>> /\ using[g] = None /\ g \in live /\ c # None /\ c \in Chans
      /\ chans' = [chans EXCEPT ![g] = F!Added(chans[g], c)] /\ todo' = [todo EXCEPT ![g] = l]
      /\ UNCHANGED <<live, refs, mode, using, broken>>
  BY DEF F!SysDup, F!Idle, F!Open, FgInv, FgTypeInv
<1>0. chans[g] \in [F!Fds -> Chans \cup {None}] /\ {x \in F!Fds : chans[g][x] = None} # {}
  BY DEF F!SysDup, F!FreeFds, F!Open, FgInv, FgTypeInv
<1>9. PICK fd \in F!Fds : chans[g][fd] = None /\ F!Added(chans[g], c) = [chans[g] EXCEPT ![fd] = c]
  BY <1>0, <1>1, FirstFree DEF FgInv
<1>10. chans' = [chans EXCEPT ![g] = [chans[g] EXCEPT ![fd] = c]]
  BY <1>1, <1>9
<1>2. None \notin Chans /\ NChans \in Nat
  BY DEF F!FgroupAssumption
<1>3. /\ l \in Seq(Items) /\ Len(l) = 1 /\ l[1] = <<"inc", c>>
  <2>1. <<"inc", c>> \in Items
    BY <1>1 DEF Items
  <2> QED BY <2>1
<1>4. \A x, what : /\ F!Waiting(what, x)' = F!Waiting(what, x) \cup New(g, l, what, x)
                   /\ F!Waiting(what, x) \cap New(g, l, what, x) = {}
  BY <1>1, NewSteps DEF FgInv
<1>5. \A x, what : New(g, l, what, x) = IF "inc" = what /\ c = x THEN {<<g, 1>>} ELSE {}
  BY NewOne
<1> HIDE DEF l
<1>6. FgTypeInv'
  <2>1. chans' \in [FdGroups -> [F!Fds -> Chans \cup {None}]]
    BY <1>1, <1>10, SlotTyped DEF FgInv
  <2>2. todo' \in [FdGroups -> Seq(Items)] /\ \A h \in FdGroups : Len(todo'[h]) <= NChans + 1
    <3>1. Len(l) <= NChans + 1
      BY <1>2, <1>3
    <3> QED BY <1>1, <1>3, <3>1, TodoTyped DEF FgInv
  <2> QED BY <1>1, <2>1, <2>2 DEF FgInv, FgTypeInv
<1>7. GroupInv'
  <2> DEFINE new == [chans[g] EXCEPT ![fd] = c]
  <2>1. chans' = [chans EXCEPT ![g] = new] /\ FgTypeInv /\ GroupInv
    BY <1>10 DEF FgInv
  <2>2. Twice(new, c)
    BY <1>0, <1>1, <1>9 DEF Twice
  <2> HIDE DEF new
  <2>3. /\ using' = using /\ broken \subseteq broken' /\ g \in live' /\ Len(l) \in Nat
        /\ \A h \in FdGroups : h # g => (h \in live' <=> h \in live)
    BY <1>1, <1>3
  <2>4. \A i \in 1..Len(l) : l[i][1] = "inc" => (i = Len(l) /\ (l[i][2] \in broken' \/ Twice(new, l[i][2])))
    BY <1>3, <2>2
  <2> QED BY <1>1, <2>1, <2>3, <2>4, GroupKept
<1>8. ASSUME NEW x \in Chans \ broken PROVE Even(x)'
  <2>1. F!Slots(x)' = (IF x = c THEN F!Slots(x) \cup {<<g, fd>>} ELSE F!Slots(x) \ {<<g, fd>>}) /\ <<g, fd>> \in FdGroups \X F!Fds
    BY <1>10, OneSlot DEF FgInv
  <2>5. <<g, fd>> \notin F!Slots(x)
    BY <1>2, <1>8, <1>9 DEF F!Slots
  <2>2. refs'[x] = refs[x] /\ Even(x) /\ F!Waiting("dec", x)' = F!Waiting("dec", x)
    BY <1>1, <1>4, <1>5, <1>8 DEF FgInv, EvenInv
  <2>3. CASE x # c
    <3>1. F!Slots(x)' = F!Slots(x) /\ F!Waiting("inc", x)' = F!Waiting("inc", x)
      BY <1>4, <1>5, <2>1, <2>3, <2>5
    <3> QED BY <2>2, <3>1 DEF Even
  <2>4. CASE x = c
    <3>1. /\ <<g, 1>> \notin F!Waiting("inc", x) /\ F!Slots(x)' = F!Slots(x) \cup {<<g, fd>>}
          /\ F!Waiting("inc", x)' = F!Waiting("inc", x) \cup {<<g, 1>>}
      BY <1>4, <1>5, <2>1, <2>4
    <3>2. Cardinality(F!Slots(x)') = Cardinality(F!Slots(x)) + 1
      BY <2>5, <3>1, Counted, Grows
    <3>3. Cardinality(F!Waiting("inc", x)') = Cardinality(F!Waiting("inc", x)) + 1
      BY <3>1, Counted, Grows
    <3>4. Cardinality(F!Slots(x)) \in Nat /\ Cardinality(F!Waiting("inc", x)) \in Nat /\ refs[x] \in Nat
          /\ Cardinality(F!Waiting("dec", x)) \in Nat
      BY Counted DEF FgInv, FgTypeInv
    <3> QED BY <2>2, <3>2, <3>3, <3>4 DEF Even
  <2> QED BY <2>3, <2>4
<1> QED BY <1>1, <1>6, <1>7, <1>8 DEF FgInv, EvenInv

LEMMA NewTwo ==
  ASSUME F!FgroupAssumption, NEW g, NEW was, NEW c, NEW what, NEW x
  PROVE  New(g, <<<<"dec", was>>, <<"inc", c>>>>, what, x) =
           IF what = "dec" /\ was = x THEN {<<g, 2>>} ELSE IF what = "inc" /\ c = x THEN {<<g, 1>>} ELSE {}
<1> DEFINE l == <<<<"dec", was>>, <<"inc", c>>>>
<1>1. NChans \in Nat /\ 1 \in 1..(NChans + 1) /\ 2 \in 1..(NChans + 1)
  BY DEF F!FgroupAssumption
<1>2. Len(l) = 2 /\ F!Left(l, 1) = <<"inc", c>> /\ F!Left(l, 2) = <<"dec", was>>
  BY DEF F!Left
<1>3. \A w \in {g} \X (1..(NChans + 1)) : w[2] <= 2 <=> w = <<g, 1>> \/ w = <<g, 2>>
  BY <1>1
<1> HIDE DEF l
<1>4. \A w : w \in New(g, l, what, x) <=> \/ w = <<g, 1>> /\ "inc" = what /\ c = x
                                          \/ w = <<g, 2>> /\ "dec" = what /\ was = x
  BY <1>1, <1>2, <1>3 DEF New
<1>5. New(g, l, what, x) = IF what = "dec" /\ was = x THEN {<<g, 2>>} ELSE IF what = "inc" /\ c = x THEN {<<g, 1>>} ELSE {}
  BY <1>4
<1> QED BY <1>5 DEF l

LEMMA TwoItems == ASSUME NEW x, NEW y PROVE <<x>> \o <<y>> = <<x, y>>
<1> DEFINE s == <<x>>
           t == <<y>>
           u == <<x, y>>
<1>1. /\ s \in Seq({x, y}) /\ t \in Seq({x, y}) /\ u \in Seq({x, y})
      /\ Len(s) = 1 /\ Len(t) = 1 /\ Len(u) = 2 /\ s[1] = x /\ t[1] = y /\ u[1] = x /\ u[2] = y
  OBVIOUS
<1> HIDE DEF s, t, u
<1>2. /\ s \o t \in Seq({x, y}) /\ Len(s \o t) = 2
      /\ \A i \in 1..2 : (s \o t)[i] = IF i <= 1 THEN s[i] ELSE t[i - 1]
  BY <1>1, ConcatProperties
<1>3. (s \o t)[1] = x /\ (s \o t)[2] = y
  BY <1>1, <1>2
<1>4. \A i \in 1..2 : (s \o t)[i] = u[i]
  BY <1>1, <1>3
<1>5. s \o t = u
  BY <1>1, <1>2, <1>4, SeqEqual
<1> QED BY <1>5 DEF s, t, u

(* dup2(): the slot changes hands, one channel is given up and one counted.*)
LEMMA SysDup2Step ==
  ASSUME F!FgroupAssumption, FgInv, NEW g \in FdGroups, NEW old \in F!Fds, NEW fd \in F!Fds, F!SysDup2(g, old, fd)
  PROVE  FgInv'
<1> DEFINE c == chans[g][old]
           was == chans[g][fd]
           l == IF was = None THEN <<<<"inc", c>>>> ELSE <<<<"dec", was>>, <<"inc", c>>>>
           new == [chans[g] EXCEPT ![fd] = c]
<1>1. /\ todo[g] = <<>> /\ using[g] = None /\ g \in live /\ c # None /\ c \in Chans
      /\ was \in Chans \cup {None}
      /\ chans' = [chans EXCEPT ![g] = new]
      /\ broken' = IF old = fd THEN broken \cup {c} ELSE broken
      /\ UNCHANGED <<live, refs, mode, using>>
  BY DEF F!SysDup2, F!Idle, F!Open, FgInv, FgTypeInv
<1>2. None \notin Chans /\ NChans \in Nat /\ NChans >= 1
  BY DEF F!FgroupAssumption
<1>0. todo' = [todo EXCEPT ![g] = l]
  <2>1. todo' = [todo EXCEPT ![g] = (IF was = None THEN <<>> ELSE <<<<"dec", was>>>>) \o <<<<"inc", c>>>>]
    BY DEF F!SysDup2
  <2>2. <<>> \o <<<<"inc", c>>>> = <<<<"inc", c>>>>
    OBVIOUS
  <2>3. <<<<"dec", was>>>> \o <<<<"inc", c>>>> = <<<<"dec", was>>, <<"inc", c>>>>
    BY TwoItems
  <2> QED BY <2>1, <2>2, <2>3
<1>3. /\ l \in Seq(Items) /\ Len(l) \in 1..2 /\ l[Len(l)] = <<"inc", c>>
      /\ \A i \in 1..Len(l) : i # Len(l) => l[i] = <<"dec", was>>
  <2>1. <<"inc", c>> \in Items
    BY <1>1 DEF Items
  <2>2. CASE was = None
    BY <2>1, <2>2
  <2>3. CASE was # None
    <3>1. <<"dec", was>> \in Items
      BY <1>1, <2>3 DEF Items
    <3> QED BY <2>1, <2>3, <3>1
  <2> QED BY <2>2, <2>3
<1>5. \A x \in Chans : \A what : New(g, l, what, x) =
        IF what = "dec" /\ was = x THEN {<<g, 2>>} ELSE IF what = "inc" /\ c = x THEN {<<g, 1>>} ELSE {}
  <2> SUFFICES ASSUME NEW x \in Chans, NEW what
               PROVE  New(g, l, what, x) =
                 IF what = "dec" /\ was = x THEN {<<g, 2>>} ELSE IF what = "inc" /\ c = x THEN {<<g, 1>>} ELSE {}
    OBVIOUS
  <2> HIDE DEF was, c
  <2>1. CASE was = None
    <3>1. New(g, <<<<"inc", c>>>>, what, x) = IF "inc" = what /\ c = x THEN {<<g, 1>>} ELSE {}
      BY NewOne
    <3>2. l = <<<<"inc", c>>>> /\ was # x
      BY <1>2, <2>1
    <3> QED BY <3>1, <3>2
  <2>2. CASE was # None
    <3>1. New(g, <<<<"dec", was>>, <<"inc", c>>>>, what, x) =
            IF what = "dec" /\ was = x THEN {<<g, 2>>} ELSE IF what = "inc" /\ c = x THEN {<<g, 1>>} ELSE {}
      BY NewTwo
    <3>2. l = <<<<"dec", was>>, <<"inc", c>>>>
      BY <2>2
    <3> QED BY <3>1, <3>2
  <2> QED BY <2>1, <2>2
<1> HIDE DEF l
<1>4. \A x, what : /\ F!Waiting(what, x)' = F!Waiting(what, x) \cup New(g, l, what, x)
                   /\ F!Waiting(what, x) \cap New(g, l, what, x) = {}
  BY <1>0, <1>1, NewSteps DEF FgInv
<1>6. FgTypeInv'
  <2>1. chans' \in [FdGroups -> [F!Fds -> Chans \cup {None}]]
    BY <1>1, SlotTyped DEF FgInv
  <2>2. todo' \in [FdGroups -> Seq(Items)] /\ \A h \in FdGroups : Len(todo'[h]) <= NChans + 1
    <3>1. Len(l) <= NChans + 1
      BY <1>2, <1>3
    <3> QED BY <1>0, <1>3, <3>1, TodoTyped DEF FgInv
  <2> QED BY <1>1, <2>1, <2>2 DEF FgInv, FgTypeInv
<1>7. GroupInv'
  <2>2. c \in broken' \/ Twice(new, c)
    <3>1. CASE old = fd
      BY <1>1, <3>1
    <3>2. CASE old # fd
      BY <3>2 DEF Twice, FgInv, FgTypeInv
    <3> QED BY <3>1, <3>2
  <2> HIDE DEF new
  <2>3. /\ using' = using /\ broken \subseteq broken' /\ g \in live' /\ Len(l) \in Nat
        /\ \A h \in FdGroups : h # g => (h \in live' <=> h \in live)
    BY <1>1, <1>3
  <2>4. \A i \in 1..Len(l) : l[i][1] = "inc" => (i = Len(l) /\ (l[i][2] \in broken' \/ Twice(new, l[i][2])))
    BY <1>3, <2>2
  <2> QED BY <1>0, <1>1, <2>3, <2>4, GroupKept DEF FgInv
<1>8. ASSUME NEW x \in Chans \ broken' PROVE Even(x)'
  <2>1. F!Slots(x)' = (IF x = c THEN F!Slots(x) \cup {<<g, fd>>} ELSE F!Slots(x) \ {<<g, fd>>}) /\ <<g, fd>> \in FdGroups \X F!Fds
    <3>1. chans' = [chans EXCEPT ![g] = [chans[g] EXCEPT ![fd] = c]]
      BY <1>1
    <3> QED BY <3>1, OneSlot DEF FgInv
  <2>2. refs'[x] = refs[x] /\ Even(x) /\ x \in Chans /\ x # None
    BY <1>1, <1>2, <1>8 DEF FgInv, EvenInv
  <2>3. <<g, fd>> \in F!Slots(x) <=> was = x
    BY <2>1 DEF F!Slots
  <2>4. /\ F!Waiting("dec", x)' = F!Waiting("dec", x) \cup (IF was = x THEN {<<g, 2>>} ELSE {})
        /\ F!Waiting("inc", x)' = F!Waiting("inc", x) \cup (IF c = x THEN {<<g, 1>>} ELSE {})
        /\ was = x => <<g, 2>> \notin F!Waiting("dec", x)
        /\ c = x => <<g, 1>> \notin F!Waiting("inc", x)
    BY <1>4, <1>5, <2>2
  <2> HIDE DEF c, was
  <2>5. Cardinality(F!Waiting("dec", x)') = Cardinality(F!Waiting("dec", x)) + (IF was = x THEN 1 ELSE 0)
    <3>1. CASE was = x
      <4>1. F!Waiting("dec", x)' = F!Waiting("dec", x) \cup {<<g, 2>>} /\ <<g, 2>> \notin F!Waiting("dec", x)
        BY <2>4, <3>1
      <4> QED BY <3>1, <4>1, Counted, Grows
    <3>2. CASE was # x
      <4>1. F!Waiting("dec", x)' = F!Waiting("dec", x)
        BY <2>4, <3>2
      <4>2. Cardinality(F!Waiting("dec", x)) \in Nat
        BY Counted
      <4> QED BY <3>2, <4>1, <4>2
    <3> QED BY <3>1, <3>2
  <2>6. Cardinality(F!Waiting("inc", x)') = Cardinality(F!Waiting("inc", x)) + (IF c = x THEN 1 ELSE 0)
    <3>1. CASE c = x
      <4>1. F!Waiting("inc", x)' = F!Waiting("inc", x) \cup {<<g, 1>>} /\ <<g, 1>> \notin F!Waiting("inc", x)
        BY <2>4, <3>1
      <4> QED BY <3>1, <4>1, Counted, Grows
    <3>2. CASE c # x
      <4>1. F!Waiting("inc", x)' = F!Waiting("inc", x)
        BY <2>4, <3>2
      <4> QED BY <3>2, <4>1, Counted
    <3> QED BY <3>1, <3>2
  <2>7. Cardinality(F!Slots(x)') = Cardinality(F!Slots(x)) + (IF c = x THEN 1 ELSE 0) - (IF was = x THEN 1 ELSE 0)
    <3>0. Cardinality(F!Slots(x)) \in Nat /\ IsFiniteSet(F!Slots(x))
      BY Counted
    <3>1. CASE c = x /\ was = x
      <4>1. F!Slots(x)' = F!Slots(x)
        BY <2>1, <2>3, <3>1
      <4> QED BY <3>0, <3>1, <4>1
    <3>2. CASE c = x /\ was # x
      <4>1. F!Slots(x)' = F!Slots(x) \cup {<<g, fd>>} /\ <<g, fd>> \notin F!Slots(x)
        BY <2>1, <2>3, <3>2
      <4> QED BY <3>0, <3>2, <4>1, Grows
    <3>3. CASE c # x /\ was = x
      <4>1. F!Slots(x)' = F!Slots(x) \ {<<g, fd>>} /\ <<g, fd>> \in F!Slots(x)
        BY <2>1, <2>3, <3>3
      <4> QED BY <3>0, <3>3, <4>1, Shrinks
    <3>4. CASE c # x /\ was # x
      <4>1. F!Slots(x)' = F!Slots(x)
        BY <2>1, <2>3, <3>4
      <4> QED BY <3>0, <3>4, <4>1
    <3> QED BY <3>1, <3>2, <3>3, <3>4
  <2>8. Cardinality(F!Slots(x)) \in Nat /\ Cardinality(F!Waiting("inc", x)) \in Nat /\ refs[x] \in Nat
        /\ Cardinality(F!Waiting("dec", x)) \in Nat
    BY <2>2, Counted DEF FgInv, FgTypeInv
  <2> QED BY <2>2, <2>5, <2>6, <2>7, <2>8 DEF Even
<1> QED BY <1>1, <1>6, <1>7, <1>8 DEF FgInv, EvenInv

LEMMA SysPipeStep ==
  ASSUME F!FgroupAssumption, FgInv, NEW g \in FdGroups, NEW c0 \in Chans, NEW c1 \in Chans, F!SysPipe(g, c0, c1)
  PROVE  FgInv'
<1>1. /\ todo[g] = <<>> /\ using[g] = None /\ g \in live /\ c0 \in F!Unused /\ c1 \in F!Unused /\ c0 # c1
      /\ mode' = [mode EXCEPT ![c0] = {"r"}, ![c1] = {"w"}] /\ UNCHANGED <<live, todo, using>>
  BY DEF F!SysPipe, F!Idle
<1>2. /\ c0 \in Chans \ broken /\ refs[c0] = 0 /\ F!Slots(c0) = {} /\ c0 # None
      /\ F!Waiting("inc", c0) = {} /\ F!Waiting("dec", c0) = {}
  BY <1>1, UnusedIdle
<1>3. /\ c1 \in Chans \ broken /\ refs[c1] = 0 /\ F!Slots(c1) = {} /\ c1 # None
      /\ F!Waiting("inc", c1) = {} /\ F!Waiting("dec", c1) = {}
  BY <1>1, UnusedIdle
<1>4. \A x, what : F!Waiting(what, x)' = F!Waiting(what, x)
  BY <1>1 DEF F!Waiting
<1>5. todo' = [todo EXCEPT ![g] = <<>>] /\ Len(<<>>) = 0 /\ None \notin Chans
  BY <1>1 DEF FgInv, FgTypeInv, F!FgroupAssumption
<1>6. mode' \in [Chans -> SUBSET {"r", "w"}]
  BY <1>1 DEF FgInv, FgTypeInv
<1>0. /\ chans[g] \in [F!Fds -> Chans \cup {None}] /\ refs \in [Chans -> Nat]
      /\ F!FreeFds(g) = {fd \in F!Fds : chans[g][fd] = None} /\ IsFiniteSet(F!FreeFds(g))
  <2>1. IsFiniteSet(F!Fds) /\ F!FreeFds(g) \subseteq F!Fds
    BY FS_Interval, SameCount DEF F!FgroupAssumption, F!Fds, F!FreeFds
  <2>2. F!FreeFds(g) = {fd \in F!Fds : chans[g][fd] = None}
    BY DEF F!FreeFds, F!Open
  <2> QED BY <2>1, <2>2, FS_Subset DEF FgInv, FgTypeInv
<1> DEFINE Fits(new) == chans' = [chans EXCEPT ![g] = new]
<1>7. ASSUME NEW new, Fits(new), broken \subseteq broken' PROVE GroupInv'
  <2> DEFINE l == <<>>
  <2>1. /\ FgTypeInv /\ GroupInv /\ chans' = [chans EXCEPT ![g] = new]
        /\ todo' = [todo EXCEPT ![g] = l] /\ Len(l) = 0
    BY <1>5, <1>7 DEF FgInv
  <2> HIDE DEF l, Fits
  <2>2. /\ using' = using /\ broken \subseteq broken' /\ g \in live' /\ Len(l) \in Nat
        /\ \A h \in FdGroups : h # g => (h \in live' <=> h \in live)
    BY <1>1, <1>7, <2>1
  <2>3. \A i \in 1..Len(l) : l[i][1] = "inc" => (i = Len(l) /\ (l[i][2] \in broken' \/ Twice(new, l[i][2])))
    BY <2>1
  <2> QED BY <1>1, <2>1, <2>2, <2>3, GroupKept
<1>8. CASE Cardinality(F!FreeFds(g)) > 1
  <2>1. /\ chans' = [chans EXCEPT ![g] = F!Added(F!Added(chans[g], c0), c1)]
        /\ refs' = [refs EXCEPT ![c0] = 1, ![c1] = 1] /\ broken' = broken
    BY <1>8, SameCount DEF F!SysPipe
  <2>2. F!FreeFds(g) # {}
    BY <1>8, FS_EmptySet
  <2>3. PICK a \in F!Fds : chans[g][a] = None /\ F!Added(chans[g], c0) = [chans[g] EXCEPT ![a] = c0]
    BY <1>0, <2>2, FirstFree DEF FgInv
  <2> DEFINE mid == [chans[g] EXCEPT ![a] = c0]
  <2>4. mid \in [F!Fds -> Chans \cup {None}] /\ {fd \in F!Fds : mid[fd] = None} = F!FreeFds(g) \ {a}
    BY <1>0, <1>2
  <2>5. F!FreeFds(g) \ {a} # {}
    <3>1. Cardinality(F!FreeFds(g) \ {a}) = Cardinality(F!FreeFds(g)) - 1
      BY <1>0, <2>3, Shrinks
    <3>2. Cardinality(F!FreeFds(g)) \in Nat
      BY <1>0, FS_CardinalityType
    <3>3. Cardinality(F!FreeFds(g) \ {a}) # 0
      BY <1>8, <3>1, <3>2
    <3> QED BY <3>3, FS_EmptySet
  <2>6. PICK b \in F!Fds : mid[b] = None /\ F!Added(mid, c1) = [mid EXCEPT ![b] = c1]
    <3> HIDE DEF mid
    <3> QED BY <2>4, <2>5, FirstFree DEF FgInv
  <2> DEFINE new == [mid EXCEPT ![b] = c1]
  <2>7. /\ a # b /\ chans' = [chans EXCEPT ![g] = new] /\ new \in [F!Fds -> Chans \cup {None}] /\ chans[g][b] = None
        /\ \A fd \in F!Fds : new[fd] = IF fd = a THEN c0 ELSE IF fd = b THEN c1 ELSE chans[g][fd]
    BY <1>0, <1>2, <2>1, <2>3, <2>6
  <2> HIDE DEF new, mid
  <2>8. FgTypeInv'
    <3>1. chans' \in [FdGroups -> [F!Fds -> Chans \cup {None}]] /\ refs' \in [Chans -> Nat]
      BY <1>0, <2>1, <2>7 DEF FgInv, FgTypeInv
    <3> QED BY <1>1, <1>6, <2>1, <3>1 DEF FgInv, FgTypeInv
  <2>9. GroupInv'
    BY <1>7, <2>1, <2>7
  <2>10. \A s \in FdGroups \X F!Fds : chans'[s[1]][s[2]] = IF s = <<g, a>> THEN c0 ELSE IF s = <<g, b>> THEN c1
                                                       ELSE chans[s[1]][s[2]]
    <3>1. \A h \in FdGroups, fd \in F!Fds : chans'[h][fd] = IF h = g THEN new[fd] ELSE chans[h][fd]
      BY <2>7 DEF FgInv, FgTypeInv
    <3>2. \A s \in FdGroups \X F!Fds : /\ s[1] \in FdGroups /\ s[2] \in F!Fds
                                       /\ s = <<g, a>> <=> (s[1] = g /\ s[2] = a)
                                       /\ s = <<g, b>> <=> (s[1] = g /\ s[2] = b)
      OBVIOUS
    <3> QED BY <2>7, <3>1, <3>2
  <2>11. <<g, a>> \in FdGroups \X F!Fds /\ <<g, b>> \in FdGroups \X F!Fds /\ <<g, a>> # <<g, b>>
    BY <2>7
  <2>12. ASSUME NEW x \in Chans \ broken PROVE Even(x)'
    <3>1. CASE x = c0
      <4>1. F!Slots(x)' = {<<g, a>>}
        BY <1>1, <1>2, <2>10, <2>11, <3>1 DEF F!Slots
      <4>2. refs'[x] = 1 /\ F!Waiting("inc", x)' = {} /\ F!Waiting("dec", x)' = {}
        BY <1>0, <1>1, <1>2, <1>4, <2>1, <3>1
      <4> QED BY <4>1, <4>2, FS_Singleton, FS_EmptySet DEF Even
    <3>2. CASE x = c1
      <4>1. F!Slots(x)' = {<<g, b>>}
        BY <1>1, <1>3, <2>10, <2>11, <3>2 DEF F!Slots
      <4>2. refs'[x] = 1 /\ F!Waiting("inc", x)' = {} /\ F!Waiting("dec", x)' = {}
        BY <1>0, <1>1, <1>3, <1>4, <2>1, <3>2
      <4> QED BY <4>1, <4>2, FS_Singleton, FS_EmptySet DEF Even
    <3>3. CASE x # c0 /\ x # c1
      <4>1. <<g, a>> \notin F!Slots(x) /\ <<g, b>> \notin F!Slots(x)
        BY <1>5, <2>3, <2>7, <2>12 DEF F!Slots
      <4>2. F!Slots(x)' = F!Slots(x) /\ refs'[x] = refs[x]
        BY <1>0, <2>1, <2>10, <3>3, <4>1 DEF F!Slots
      <4> QED BY <1>4, <2>12, <4>2 DEF FgInv, EvenInv, Even
    <3> QED BY <3>1, <3>2, <3>3
  <2> QED BY <2>1, <2>8, <2>9, <2>12 DEF FgInv, EvenInv
<1>9. CASE ~(Cardinality(F!FreeFds(g)) > 1)
  <2>1. /\ chans' = (IF F!FreeFds(g) = {} THEN chans ELSE [chans EXCEPT ![g] = F!Added(chans[g], c0)])
        /\ refs' = [refs EXCEPT ![c0] = IF F!FreeFds(g) = {} THEN 1 ELSE 0, ![c1] = 1]
        /\ broken' = broken \cup {c0, c1}
    BY <1>9, SameCount DEF F!SysPipe
  <2>2. PICK new \in [F!Fds -> Chans \cup {None}] :
          /\ chans' = [chans EXCEPT ![g] = new]
          /\ \A fd \in F!Fds : new[fd] = chans[g][fd] \/ (new[fd] = c0 /\ chans[g][fd] = None)
    <3>1. CASE F!FreeFds(g) = {}
      <4>1. chans' = [chans EXCEPT ![g] = chans[g]]
        BY <2>1, <3>1 DEF FgInv, FgTypeInv
      <4> QED BY <1>0, <4>1
    <3>2. CASE F!FreeFds(g) # {}
      <4>1. PICK a \in F!Fds : chans[g][a] = None /\ F!Added(chans[g], c0) = [chans[g] EXCEPT ![a] = c0]
        BY <1>0, <3>2, FirstFree DEF FgInv
      <4>2. chans' = [chans EXCEPT ![g] = [chans[g] EXCEPT ![a] = c0]]
        BY <2>1, <3>2, <4>1
      <4>3. [chans[g] EXCEPT ![a] = c0] \in [F!Fds -> Chans \cup {None}]
        BY <1>0
      <4>4. \A fd \in F!Fds : \/ [chans[g] EXCEPT ![a] = c0][fd] = chans[g][fd]
                              \/ [chans[g] EXCEPT ![a] = c0][fd] = c0 /\ chans[g][fd] = None
        BY <1>0, <4>1
      <4> QED BY <4>2, <4>3, <4>4
    <3> QED BY <3>1, <3>2
  <2>3. FgTypeInv'
    <3>1. chans' \in [FdGroups -> [F!Fds -> Chans \cup {None}]] /\ refs' \in [Chans -> Nat]
      BY <1>0, <2>1, <2>2 DEF FgInv, FgTypeInv
    <3> QED BY <1>1, <1>6, <2>1, <3>1 DEF FgInv, FgTypeInv
  <2>4. GroupInv'
    BY <1>7, <2>1, <2>2
  <2>5. ASSUME NEW x \in Chans \ broken' PROVE Even(x)'
    <3>1. x \in Chans \ broken /\ x # c0 /\ x # c1 /\ x # None
      BY <1>5, <2>1, <2>5
    <3>2. \A h \in FdGroups, fd \in F!Fds : chans'[h][fd] = x <=> chans[h][fd] = x
      BY <2>2, <3>1 DEF FgInv, FgTypeInv
    <3>3. F!Slots(x)' = F!Slots(x) /\ refs'[x] = refs[x]
      BY <1>0, <2>1, <3>1, <3>2 DEF F!Slots
    <3> QED BY <1>4, <3>1, <3>3 DEF FgInv, EvenInv, Even
  <2> QED BY <2>3, <2>4, <2>5 DEF FgInv, EvenInv
<1> QED BY <1>8, <1>9

(* The step made is the first of those left, numbered the highest.         *)
LEMMA CountStep ==
  ASSUME F!FgroupAssumption, FgInv, NEW g \in FdGroups, F!Count(g)
  PROVE  FgInv'
<1> DEFINE l == todo[g]
           it == Head(l)
           c == it[2]
           m == Tail(l)
<1>1. /\ l # <<>> /\ refs' = [refs EXCEPT ![c] = IF it[1] = "inc" THEN @ + 1 ELSE IF @ = 0 THEN 0 ELSE @ - 1]
      /\ todo' = [todo EXCEPT ![g] = m] /\ UNCHANGED <<chans, live, mode, using, broken>>
  BY DEF F!Count
<1>2. /\ l \in Seq(Items) /\ Len(l) \in Nat /\ Len(l) > 0 /\ Len(l) <= NChans + 1 /\ NChans \in Nat
      /\ it = l[1] /\ it \in Items
  BY <1>1 DEF FgInv, FgTypeInv, F!FgroupAssumption
<1>3. it[1] \in {"inc", "dec"} /\ c \in Chans
  BY <1>2 DEF Items
<1>4. /\ m \in Seq(Items) /\ Len(m) = Len(l) - 1 /\ \A i \in 1..Len(m) : m[i] = l[i + 1]
  BY <1>1, <1>2, HeadTailProperties
<1>5. /\ todo'[g] = m /\ \A h \in FdGroups : h # g => todo'[h] = todo[h]
  BY <1>1 DEF FgInv, FgTypeInv
<1> HIDE DEF m, it, l
<1>6. FgTypeInv'
  <2>1. refs' \in [Chans -> Nat]
    <3>1. \A n \in Nat : (IF it[1] = "inc" THEN n + 1 ELSE IF n = 0 THEN 0 ELSE n - 1) \in Nat
      OBVIOUS
    <3> QED BY <1>1, <1>3, <3>1 DEF FgInv, FgTypeInv
  <2>2. Len(m) <= NChans + 1
    BY <1>2, <1>4
  <2>3. todo' \in [FdGroups -> Seq(Items)] /\ \A h \in FdGroups : Len(todo'[h]) <= NChans + 1
    BY <1>1, <1>4, <2>2, TodoTyped DEF FgInv
  <2> QED BY <1>1, <2>1, <2>3 DEF FgInv, FgTypeInv
<1>7. GroupInv'
  <2>1. ASSUME NEW h \in FdGroups, NEW i \in 1..Len(todo'[h]), todo'[h][i][1] = "inc"
        PROVE  i = Len(todo'[h]) /\ (todo'[h][i][2] \in broken' \/ Twice(chans'[h], todo'[h][i][2]))
    <3>1. CASE h # g
      <4>1. todo'[h] = todo[h] /\ chans'[h] = chans[h] /\ broken' = broken /\ i \in 1..Len(todo[h]) /\ todo[h][i][1] = "inc"
        BY <1>1, <1>5, <2>1, <3>1
      <4>2. i = Len(todo[h]) /\ (todo[h][i][2] \in broken \/ Twice(chans[h], todo[h][i][2]))
        BY <4>1 DEF FgInv, GroupInv
      <4> QED BY <4>1, <4>2
    <3>2. CASE h = g
      <4>1. todo'[h] = m /\ i \in 1..Len(m) /\ m[i] = l[i + 1] /\ i + 1 \in 1..Len(l)
        BY <1>2, <1>4, <1>5, <2>1, <3>2
      <4>2. l[i + 1][1] = "inc" /\ l = todo[h] /\ chans'[h] = chans[h] /\ broken' = broken
        BY <1>1, <2>1, <3>2, <4>1 DEF l
      <4>3. i + 1 = Len(l) /\ (l[i + 1][2] \in broken \/ Twice(chans[h], l[i + 1][2]))
        BY <4>1, <4>2 DEF FgInv, GroupInv
      <4>4. i = Len(m)
        BY <1>2, <1>4, <4>1, <4>3
      <4> QED BY <4>1, <4>2, <4>3, <4>4
    <3> QED BY <3>1, <3>2
  <2>2. ASSUME NEW h \in FdGroups, using'[h] # None
        PROVE  todo'[h] = <<>> /\ \E fd \in F!Fds : chans'[h][fd] = using'[h]
    <3>1. h # g
      BY <1>1, <2>2 DEF FgInv, GroupInv, l
    <3> QED BY <1>1, <1>5, <2>2, <3>1 DEF FgInv, GroupInv
  <2>3. ASSUME NEW h \in FdGroups, h \notin live' PROVE chans'[h] = F!Empty /\ using'[h] = None
    BY <1>1, <2>3 DEF FgInv, GroupInv
  <2> QED BY <2>1, <2>2, <2>3 DEF GroupInv
<1> DEFINE w0 == <<g, Len(l)>>
<1>8. \A what, x : /\ F!Waiting(what, x)' = F!Waiting(what, x) \ {w0}
                   /\ w0 \in F!Waiting(what, x) <=> it[1] = what /\ c = x
  <2> SUFFICES ASSUME NEW what, NEW x
               PROVE  /\ F!Waiting(what, x)' = F!Waiting(what, x) \ {w0}
                      /\ w0 \in F!Waiting(what, x) <=> it[1] = what /\ c = x
    OBVIOUS
  <2>1. w0 \in FdGroups \X (1..(NChans + 1)) /\ F!Left(l, Len(l)) = it
    BY <1>2 DEF F!Left
  <2>2. w0 \in F!Waiting(what, x) <=> it[1] = what /\ c = x
    BY <1>2, <2>1 DEF F!Waiting, l
  <2>3. ASSUME NEW w \in FdGroups \X (1..(NChans + 1))
        PROVE  w \in F!Waiting(what, x)' <=> w \in F!Waiting(what, x) /\ w # w0
    <3>1. w[1] \in FdGroups /\ w[2] \in Nat /\ w[2] >= 1 /\ w = <<w[1], w[2]>>
      BY <1>2, <2>3
    <3>2. CASE w[1] # g
      <4>1. todo'[w[1]] = todo[w[1]] /\ w # w0
        BY <1>5, <3>1, <3>2
      <4> QED BY <2>3, <4>1 DEF F!Waiting
    <3>3. CASE w[1] = g
      <4>1. w # w0 <=> w[2] # Len(l)
        BY <3>1, <3>3
      <4>2. w[2] <= Len(m) <=> w[2] <= Len(l) /\ w[2] # Len(l)
        BY <1>2, <1>4, <3>1
      <4>3. ASSUME w[2] <= Len(m) PROVE F!Left(m, w[2]) = F!Left(l, w[2])
        <5>1. Len(m) + 1 - w[2] \in 1..Len(m) /\ Len(m) + 1 - w[2] + 1 = Len(l) + 1 - w[2]
          BY <1>2, <1>4, <3>1, <4>3
        <5> QED BY <1>4, <5>1 DEF F!Left
      <4>4. todo'[w[1]] = m /\ todo[w[1]] = l
        BY <1>5, <3>3 DEF l
      <4> QED BY <2>3, <4>1, <4>2, <4>3, <4>4 DEF F!Waiting
    <3> QED BY <3>2, <3>3
  <2>4. F!Waiting(what, x)' \subseteq FdGroups \X (1..(NChans + 1)) /\ F!Waiting(what, x) \subseteq FdGroups \X (1..(NChans + 1))
    BY DEF F!Waiting
  <2>5. F!Waiting(what, x)' = F!Waiting(what, x) \ {w0}
    BY <2>3, <2>4
  <2> QED BY <2>2, <2>5
<1> HIDE DEF w0, c
<1>9. ASSUME NEW x \in Chans \ broken PROVE Even(x)'
  <2>1. F!Slots(x)' = F!Slots(x) /\ Even(x) /\ refs \in [Chans -> Nat]
    BY <1>1, <1>9 DEF F!Slots, FgInv, EvenInv, FgTypeInv
  <2>2. /\ Cardinality(F!Slots(x)) \in Nat /\ Cardinality(F!Waiting("inc", x)) \in Nat
        /\ Cardinality(F!Waiting("dec", x)) \in Nat /\ refs[x] \in Nat
        /\ IsFiniteSet(F!Waiting("inc", x)) /\ IsFiniteSet(F!Waiting("dec", x))
    BY <2>1, Counted
  <2>3. CASE x # c
    <3>1. refs'[x] = refs[x]
      BY <1>1, <2>1, <2>3 DEF c
    <3>2. F!Waiting("inc", x)' = F!Waiting("inc", x) /\ F!Waiting("dec", x)' = F!Waiting("dec", x)
      BY <1>8, <2>3
    <3> QED BY <2>1, <3>1, <3>2 DEF Even
  <2>4. CASE x = c /\ it[1] = "inc"
    <3>1. refs'[x] = refs[x] + 1
      BY <1>1, <1>3, <2>1, <2>4 DEF c
    <3>2. F!Waiting("dec", x)' = F!Waiting("dec", x) /\ F!Waiting("inc", x)' = F!Waiting("inc", x) \ {w0} /\ w0 \in F!Waiting("inc", x)
      <4>1. w0 \notin F!Waiting("dec", x) /\ w0 \in F!Waiting("inc", x)
        BY <1>8, <2>4
      <4> QED BY <1>8, <4>1
    <3>3. Cardinality(F!Waiting("inc", x)') = Cardinality(F!Waiting("inc", x)) - 1
      BY <2>2, <3>2, Shrinks
    <3> QED BY <2>1, <2>2, <3>1, <3>2, <3>3 DEF Even
  <2>5. CASE x = c /\ it[1] # "inc"
    <3>1. F!Waiting("inc", x)' = F!Waiting("inc", x) /\ F!Waiting("dec", x)' = F!Waiting("dec", x) \ {w0} /\ w0 \in F!Waiting("dec", x)
      BY <1>3, <1>8, <2>5
    <3>2. Cardinality(F!Waiting("dec", x)') = Cardinality(F!Waiting("dec", x)) - 1
      BY <2>2, <3>1, Shrinks
    <3>3. Cardinality(F!Waiting("dec", x)) # 0
      BY <2>2, <3>1, FS_EmptySet
    <3>4. refs[x] > 0
      <4>1. CASE F!Slots(x) # {} \/ F!Waiting("inc", x) # {}
        <5>1. Cardinality(F!Waiting("inc", x)) < Cardinality(F!Slots(x))
          BY <1>9, <4>1, MoreSlots DEF FgInv
        <5> QED BY <2>1, <2>2, <5>1 DEF Even
      <4>2. CASE F!Slots(x) = {} /\ F!Waiting("inc", x) = {}
        <5>1. Cardinality(F!Slots(x)) = 0 /\ Cardinality(F!Waiting("inc", x)) = 0
          BY <4>2, FS_EmptySet
        <5> QED BY <2>1, <2>2, <3>3, <5>1 DEF Even
      <4> QED BY <4>1, <4>2
    <3>5. refs'[x] = refs[x] - 1
      BY <1>1, <1>3, <2>1, <2>2, <2>5, <3>4 DEF c
    <3> QED BY <2>1, <2>2, <3>1, <3>2, <3>5 DEF Even
  <2> QED BY <2>3, <2>4, <2>5
<1> QED BY <1>1, <1>6, <1>7, <1>9 DEF FgInv, EvenInv

LEMMA FgroupNewStep ==
  ASSUME F!FgroupAssumption, FgInv, NEW g \in FdGroups, NEW h \in FdGroups, todo[h] = <<>>, F!FgroupNew(g, h)
  PROVE  FgInv'
<1>1. /\ h \notin live /\ live' = live \cup {h} /\ chans' = [chans EXCEPT ![h] = F!Empty]
      /\ UNCHANGED <<refs, mode, todo, using, broken>>
  BY DEF F!FgroupNew
<1>2. chans' = chans
  <2>1. chans[h] = F!Empty
    BY <1>1 DEF FgInv, GroupInv
  <2> QED BY <1>1, <2>1 DEF FgInv, FgTypeInv
<1>3. FgTypeInv'
  BY <1>1, <1>2 DEF FgInv, FgTypeInv
<1>4. GroupInv'
  BY <1>1, <1>2 DEF FgInv, GroupInv
<1>5. EvenInv'
  BY <1>1, <1>2, SameSlots DEF FgInv, EvenInv, Even
<1> QED BY <1>3, <1>4, <1>5 DEF FgInv

(* The slots of a group that hold a channel, and the slots of all groups.  *)
Own(g, c) == {fd \in F!Fds : chans[g][fd] = c}
LEMMA OwnSlots ==
  ASSUME F!FgroupAssumption, NEW g, NEW X \in SUBSET F!Fds
  PROVE  IsFiniteSet({g} \X X) /\ Cardinality({g} \X X) = Cardinality(X) /\ IsFiniteSet(X) /\ Cardinality(X) \in Nat
<1>1. IsFiniteSet(F!Fds)
  BY FS_Interval, SameCount DEF F!FgroupAssumption, F!Fds
<1>2. IsFiniteSet(X) /\ Cardinality(X) \in Nat
  BY <1>1, FS_Subset, FS_CardinalityType
<1>3. IsFiniteSet({g}) /\ Cardinality({g}) = 1
  BY FS_Singleton
<1>4. IsFiniteSet({g} \X X) /\ Cardinality({g} \X X) = 1 * Cardinality(X)
  BY <1>2, <1>3, FS_Product
<1> QED BY <1>2, <1>4

LEMMA Disjoint ==
  ASSUME NEW S, NEW U, IsFiniteSet(S), IsFiniteSet(U), S \cap U = {}
  PROVE  Cardinality(S \cup U) = Cardinality(S) + Cardinality(U)
<1>1. Cardinality(S \cup U) = Cardinality(S) + Cardinality(U) - Cardinality(S \cap U)
  BY FS_Union
<1>2. Cardinality(S \cap U) = 0 /\ Cardinality(S) \in Nat /\ Cardinality(U) \in Nat
  BY FS_EmptySet, FS_CardinalityType
<1> QED BY <1>1, <1>2

LEMMA FgroupCopyStep ==
  ASSUME F!FgroupAssumption, FgInv, NEW g \in FdGroups, NEW h \in FdGroups, todo[h] = <<>>, F!FgroupCopy(g, h)
  PROVE  FgInv'
<1>1. /\ F!Idle(g) /\ h \notin live /\ live' = live \cup {h} /\ chans' = [chans EXCEPT ![h] = chans[g]]
      /\ refs' = [c \in Chans |-> refs[c] + F!Held(g, c)] /\ UNCHANGED <<mode, todo, using, broken>>
  BY DEF F!FgroupCopy
<1>2. /\ chans[h] = F!Empty /\ using[h] = None /\ g # h /\ None \notin Chans
      /\ refs \in [Chans -> Nat]
  BY <1>1 DEF FgInv, GroupInv, F!Idle, FgTypeInv, F!FgroupAssumption
<1>3. \A c \in Chans : F!Held(g, c) = Cardinality(Own(g, c)) /\ Cardinality(Own(g, c)) \in Nat
  BY OwnSlots, SameCount DEF F!Held, Own
<1>4. FgTypeInv'
  <2>1. refs' \in [Chans -> Nat]
    BY <1>1, <1>2, <1>3
  <2>2. chans' \in [FdGroups -> [F!Fds -> Chans \cup {None}]]
    BY <1>1 DEF FgInv, FgTypeInv
  <2> QED BY <1>1, <2>1, <2>2 DEF FgInv, FgTypeInv
<1>5. GroupInv'
  <2> DEFINE l == <<>>
             new == chans[g]
  <2>1. /\ FgTypeInv /\ GroupInv /\ chans' = [chans EXCEPT ![h] = new]
        /\ todo' = [todo EXCEPT ![h] = l] /\ Len(l) = 0
    BY <1>1 DEF FgInv, FgTypeInv
  <2> HIDE DEF l, new
  <2>2. /\ using' = using /\ broken \subseteq broken' /\ h \in live' /\ Len(l) \in Nat
        /\ \A x \in FdGroups : x # h => (x \in live' <=> x \in live)
    BY <1>1, <2>1
  <2>3. \A i \in 1..Len(l) : l[i][1] = "inc" => (i = Len(l) /\ (l[i][2] \in broken' \/ Twice(new, l[i][2])))
    BY <2>1
  <2> QED BY <1>2, <2>1, <2>2, <2>3, GroupKept
<1>6. ASSUME NEW c \in Chans \ broken PROVE Even(c)'
  <2>1. /\ F!Slots(c)' = F!Slots(c) \cup ({h} \X Own(g, c)) /\ F!Slots(c) \cap ({h} \X Own(g, c)) = {}
    <3>1. \A fd \in F!Fds : chans[h][fd] # c
      BY <1>2, <1>6 DEF F!Empty
    <3>2. \A s \in F!Slots(c) : s[1] # h
      BY <3>1 DEF F!Slots
    <3>3. \A x \in FdGroups, fd \in F!Fds : chans'[x][fd] = IF x = h THEN chans[g][fd] ELSE chans[x][fd]
      BY <1>1 DEF FgInv, FgTypeInv
    <3>4. \A s \in FdGroups \X F!Fds : s \in F!Slots(c)' <=> s \in F!Slots(c) \/ s \in {h} \X Own(g, c)
      <4> SUFFICES ASSUME NEW x \in FdGroups, NEW fd \in F!Fds
                   PROVE  <<x, fd>> \in F!Slots(c)' <=> <<x, fd>> \in F!Slots(c) \/ <<x, fd>> \in {h} \X Own(g, c)
        OBVIOUS
      <4>1. <<x, fd>> \in F!Slots(c)' <=> chans'[x][fd] = c
        BY DEF F!Slots
      <4>2. <<x, fd>> \in F!Slots(c) <=> chans[x][fd] = c
        BY DEF F!Slots
      <4>3. <<x, fd>> \in {h} \X Own(g, c) <=> x = h /\ chans[g][fd] = c
        BY DEF Own
      <4> QED BY <3>1, <3>3, <4>1, <4>2, <4>3
    <3>5. F!Slots(c)' \subseteq FdGroups \X F!Fds /\ F!Slots(c) \subseteq FdGroups \X F!Fds /\ ({h} \X Own(g, c)) \subseteq FdGroups \X F!Fds
      BY DEF F!Slots, Own
    <3>6. \A s \in {h} \X Own(g, c) : s[1] = h
      OBVIOUS
    <3>7. F!Slots(c)' = F!Slots(c) \cup ({h} \X Own(g, c))
      BY <3>4, <3>5
    <3> QED BY <3>2, <3>6, <3>7
  <2>2. /\ IsFiniteSet({h} \X Own(g, c)) /\ Cardinality({h} \X Own(g, c)) = F!Held(g, c) /\ F!Held(g, c) \in Nat
    <3>1. Own(g, c) \in SUBSET F!Fds
      BY DEF Own
    <3> QED BY <1>3, <3>1, OwnSlots
  <2>3. Cardinality(F!Slots(c)') = Cardinality(F!Slots(c)) + F!Held(g, c)
    <3>1. IsFiniteSet(F!Slots(c))
      BY Counted
    <3> HIDE DEF F!Held
    <3> QED BY <2>1, <2>2, <3>1, Disjoint
  <2>4. refs'[c] = refs[c] + F!Held(g, c) /\ Even(c) /\ refs[c] \in Nat
    BY <1>1, <1>2 DEF FgInv, EvenInv
  <2>5. \A what : F!Waiting(what, c)' = F!Waiting(what, c)
    BY <1>1 DEF F!Waiting
  <2>6. /\ Cardinality(F!Slots(c)) \in Nat /\ Cardinality(F!Waiting("inc", c)) \in Nat /\ Cardinality(F!Waiting("dec", c)) \in Nat
    BY Counted
  <2> QED BY <2>2, <2>3, <2>4, <2>5, <2>6 DEF Even
<1> QED BY <1>1, <1>4, <1>5, <1>6 DEF FgInv, EvenInv

(* The steps left when a group is freed: one for every slot in use.        *)
LEMMA AllGivenUp ==
  ASSUME F!FgroupAssumption, FgTypeInv, NEW g \in FdGroups, NEW l,
         l = F!SetToSeq({<<"dec", chans[g][fd], fd>> : fd \in F!Open(g)})
  PROVE  /\ l \in Seq(Items) /\ Len(l) <= NChans
         /\ \A i \in 1..Len(l) : l[i][1] = "dec"
         /\ \A c \in Chans : /\ IsFiniteSet(New(g, l, "dec", c)) /\ Cardinality(New(g, l, "dec", c)) = F!Held(g, c)
                             /\ New(g, l, "inc", c) = {}
<1> DEFINE S == {<<"dec", chans[g][fd], fd>> : fd \in F!Open(g)}
           n == Cardinality(S)
<1>0. NChans \in Nat /\ None \notin Chans /\ IsFiniteSet(F!Fds) /\ Cardinality(F!Fds) = NChans
  BY FS_Interval, SameCount DEF F!FgroupAssumption, F!Fds
<1>1. F!Open(g) \in SUBSET F!Fds /\ \A fd \in F!Open(g) : chans[g][fd] \in Chans /\ fd \in F!Fds
  BY DEF F!Open, FgTypeInv
<1>2. IsFiniteSet(S) /\ n \in Nat /\ n <= NChans
  <2>1. IsFiniteSet(F!Open(g)) /\ Cardinality(F!Open(g)) <= NChans /\ Cardinality(F!Open(g)) \in Nat
    BY <1>0, <1>1, FS_Subset, FS_CardinalityType
  <2> DEFINE f == [fd \in F!Open(g) |-> <<"dec", chans[g][fd], fd>>]
  <2>2. f \in Surjection(F!Open(g), S)
    BY DEF Surjection
  <2>3. IsFiniteSet(S) /\ Cardinality(S) <= Cardinality(F!Open(g))
    <3> HIDE DEF f, S
    <3> QED BY <2>1, <2>2, FS_Surjection
  <2>4. Cardinality(S) \in Nat
    BY <2>3, FS_CardinalityType
  <2> QED BY <1>0, <2>1, <2>3, <2>4
<1>3. \A t \in S : t \in Items /\ t[1] = "dec" /\ t[3] \in F!Open(g) /\ t = <<"dec", chans[g][t[3]], t[3]>> /\ t[2] = chans[g][t[3]]
  BY <1>1 DEF Items
<1>4. \A fd \in F!Open(g) : <<"dec", chans[g][fd], fd>> \in S
  OBVIOUS
<1>5. l = F!SetToSeq(S)
  OBVIOUS
<1> HIDE DEF S
<1>6. l \in [1..n -> S] /\ F!IsInjective(l)
  <2>1. ExistsBijection(1..n, S)
    BY <1>2, FS_CardinalityType
  <2>2. \E f \in [1..n -> S] : F!IsInjective(f)
    BY <2>1 DEF ExistsBijection, Bijection, Injection, IsInjective, F!IsInjective
  <2>3. F!Cardinality(S) = n
    BY SameCount
  <2>4. F!SetToSeq(S) = CHOOSE f \in [1..n -> S] : F!IsInjective(f)
    BY <2>3 DEF F!SetToSeq
  <2> QED BY <1>5, <2>2, <2>4
<1> HIDE DEF n
<1>7. /\ l \in Seq(Items) /\ Len(l) = n /\ \A i, j \in 1..n : l[i] = l[j] => i = j
  <2>1. DOMAIN l = 1..n
    BY <1>6
  <2>2. \A i, j \in 1..n : l[i] = l[j] => i = j
    BY <1>6, <2>1 DEF F!IsInjective
  <2>3. S \subseteq Items
    BY <1>3
  <2>4. l \in [1..n -> Items]
    BY <1>6, <2>3
  <2> HIDE DEF Items
  <2>5. l \in Seq(Items) /\ Len(l) = n
    BY <1>2, <2>4
  <2> QED BY <2>2, <2>5
<1>8. \A t \in S : \E i \in 1..n : l[i] = t
  <2>1. l \in Injection(1..n, S)
    BY <1>6 DEF Injection, IsInjective, F!IsInjective
  <2>2. Cardinality(1..n) = Cardinality(S)
    BY <1>2, FS_Interval DEF n
  <2>3. l \in Surjection(1..n, S)
    BY <1>2, <2>1, <2>2, FS_Injection
  <2> QED BY <2>3 DEF Surjection
<1>9. \A i \in 1..Len(l) : l[i] \in S
  BY <1>6, <1>7
<1>10. ASSUME NEW c \in Chans
       PROVE  IsFiniteSet(New(g, l, "dec", c)) /\ Cardinality(New(g, l, "dec", c)) = F!Held(g, c)
  <2> DEFINE New0 == New(g, l, "dec", c)
             f == [w \in New0 |-> F!Left(l, w[2])[3]]
  <2>1. ASSUME NEW w \in New0
        PROVE  /\ w[1] = g /\ w[2] \in 1..n /\ w = <<g, w[2]>> /\ n + 1 - w[2] \in 1..n
               /\ F!Left(l, w[2]) = l[n + 1 - w[2]] /\ F!Left(l, w[2]) \in S /\ F!Left(l, w[2])[2] = c
    <3>1. /\ w \in {g} \X (1..(NChans + 1)) /\ w[2] <= n /\ F!Left(l, w[2])[2] = c
      BY <1>7, <2>1 DEF New
    <3>2. w[2] \in 1..n /\ n + 1 - w[2] \in 1..n
      BY <1>0, <1>2, <3>1
    <3> QED BY <1>6, <1>7, <3>1, <3>2 DEF F!Left
  <2>2. ASSUME NEW w \in New0 PROVE f[w] \in Own(g, c) /\ F!Left(l, w[2]) = <<"dec", c, f[w]>>
    <3>1. F!Left(l, w[2]) \in S /\ F!Left(l, w[2])[2] = c /\ f[w] = F!Left(l, w[2])[3]
      BY <2>1, <2>2
    <3> HIDE DEF f
    <3>2. f[w] \in F!Open(g) /\ c = chans[g][f[w]] /\ F!Left(l, w[2]) = <<"dec", c, f[w]>>
      BY <1>3, <3>1
    <3> QED BY <1>1, <3>2 DEF Own
  <2>3. f \in [New0 -> Own(g, c)]
    BY <2>2
  <2>4. \A v, w \in New0 : f[v] = f[w] => v = w
    <3> SUFFICES ASSUME NEW v \in New0, NEW w \in New0, f[v] = f[w] PROVE v = w
      OBVIOUS
    <3> HIDE DEF f
    <3>1. l[n + 1 - v[2]] = l[n + 1 - w[2]]
      BY <2>1, <2>2
    <3>2. n + 1 - v[2] = n + 1 - w[2]
      BY <1>7, <2>1, <3>1
    <3>3. v[2] = w[2]
      BY <1>2, <2>1, <3>2
    <3> QED BY <2>1, <3>3
  <2>5. ASSUME NEW fd \in Own(g, c) PROVE \E w \in New0 : f[w] = fd
    <3>1. fd \in F!Open(g) /\ chans[g][fd] = c
      BY <1>0, <1>10, <2>5 DEF Own, F!Open
    <3>2. <<"dec", c, fd>> \in S
      BY <1>4, <3>1
    <3>3. PICK i \in 1..n : l[i] = <<"dec", c, fd>>
      BY <1>8, <3>2
    <3> DEFINE k == n + 1 - i
    <3>4. k \in 1..n /\ k \in 1..(NChans + 1) /\ n + 1 - k = i
      BY <1>0, <1>2
    <3> HIDE DEF k
    <3>5. F!Left(l, k) = <<"dec", c, fd>>
      BY <1>7, <3>3, <3>4 DEF F!Left
    <3>6. <<g, k>> \in New0
      BY <1>2, <1>7, <3>4, <3>5 DEF New
    <3>7. f[<<g, k>>] = fd
      BY <3>5, <3>6
    <3> QED BY <3>6, <3>7
  <2>6. Own(g, c) \in SUBSET F!Fds /\ F!Held(g, c) = Cardinality(Own(g, c))
    BY SameCount DEF Own, F!Held
  <2> HIDE DEF f, New0
  <2>7. f \in Injection(New0, Own(g, c)) /\ f \in Surjection(New0, Own(g, c))
    BY <2>3, <2>4, <2>5 DEF Injection, IsInjective, Surjection
  <2>8. IsFiniteSet(Own(g, c))
    BY <2>6, OwnSlots
  <2>9. IsFiniteSet(New0) /\ Cardinality(New0) = Cardinality(Own(g, c))
    BY <2>7, <2>8, FS_Injection
  <2> QED BY <2>6, <2>9 DEF New0
<1>11. \A i \in 1..Len(l) : l[i][1] = "dec"
  BY <1>3, <1>9
<1>12. ASSUME NEW c \in Chans PROVE New(g, l, "inc", c) = {}
  <2> SUFFICES ASSUME NEW w \in New(g, l, "inc", c) PROVE FALSE
    OBVIOUS
  <2>1. w[2] \in 1..(NChans + 1) /\ w[2] <= Len(l) /\ F!Left(l, w[2])[1] = "inc"
    BY DEF New
  <2>2. Len(l) + 1 - w[2] \in 1..Len(l)
    BY <1>0, <1>2, <1>7, <2>1
  <2> QED BY <1>11, <2>1, <2>2 DEF F!Left
<1> QED BY <1>2, <1>7, <1>10, <1>11, <1>12

LEMMA FgroupFreeStep ==
  ASSUME F!FgroupAssumption, FgInv, NEW g \in FdGroups, F!FgroupFree(g)
  PROVE  FgInv'
<1> DEFINE l == F!SetToSeq({<<"dec", chans[g][fd], fd>> : fd \in F!Open(g)})
<1>1. /\ todo[g] = <<>> /\ using[g] = None /\ g \in live /\ live' = live \ {g}
      /\ chans' = [chans EXCEPT ![g] = F!Empty] /\ todo' = [todo EXCEPT ![g] = l]
      /\ UNCHANGED <<refs, mode, using, broken>>
  BY DEF F!FgroupFree, F!Idle
<1>2. None \notin Chans /\ NChans \in Nat
  BY DEF F!FgroupAssumption
<1>3. FgTypeInv /\ GroupInv /\ EvenInv
  BY DEF FgInv
<1>4. \E m : m = l
  OBVIOUS
<1>5. /\ l \in Seq(Items) /\ Len(l) <= NChans /\ \A i \in 1..Len(l) : l[i][1] = "dec"
      /\ \A c \in Chans : /\ IsFiniteSet(New(g, l, "dec", c)) /\ Cardinality(New(g, l, "dec", c)) = F!Held(g, c)
                          /\ New(g, l, "inc", c) = {}
  BY <1>3, AllGivenUp
<1> HIDE DEF l
<1>6. \A x, what : /\ F!Waiting(what, x)' = F!Waiting(what, x) \cup New(g, l, what, x)
                   /\ F!Waiting(what, x) \cap New(g, l, what, x) = {}
  BY <1>1, <1>3, NewSteps
<1>7. FgTypeInv'
  <2>1. F!Empty \in [F!Fds -> Chans \cup {None}]
    BY DEF F!Empty
  <2>2. chans' \in [FdGroups -> [F!Fds -> Chans \cup {None}]]
    BY <1>1, <1>3, <2>1 DEF FgTypeInv
  <2>3. Len(l) <= NChans + 1
    BY <1>2, <1>5
  <2>4. todo' \in [FdGroups -> Seq(Items)] /\ \A h \in FdGroups : Len(todo'[h]) <= NChans + 1
    BY <1>1, <1>3, <1>5, <2>3, TodoTyped
  <2> QED BY <1>1, <1>3, <2>2, <2>4 DEF FgTypeInv
<1>8. GroupInv'
  <2>1. /\ using' = using /\ broken \subseteq broken' /\ Len(l) \in Nat
        /\ \A h \in FdGroups : h # g => (h \in live' <=> h \in live)
    BY <1>1, <1>5
  <2>2. \A i \in 1..Len(l) : l[i][1] = "inc" => (i = Len(l) /\ (l[i][2] \in broken' \/ Twice(F!Empty, l[i][2])))
    BY <1>5
  <2> QED BY <1>1, <1>3, <2>1, <2>2, GroupKept
<1>9. ASSUME NEW c \in Chans \ broken PROVE Even(c)'
  <2>1. /\ F!Slots(c)' = F!Slots(c) \ ({g} \X Own(g, c)) /\ ({g} \X Own(g, c)) \subseteq F!Slots(c)
    <3>1. \A fd \in F!Fds : F!Empty[fd] # c
      BY <1>2, <1>9 DEF F!Empty
    <3>2. \A x \in FdGroups, fd \in F!Fds : chans'[x][fd] = IF x = g THEN F!Empty[fd] ELSE chans[x][fd]
      BY <1>1, <1>3 DEF FgTypeInv
    <3>3. ASSUME NEW x \in FdGroups, NEW fd \in F!Fds
          PROVE  /\ <<x, fd>> \in F!Slots(c)' <=> <<x, fd>> \in F!Slots(c) /\ <<x, fd>> \notin {g} \X Own(g, c)
                 /\ <<x, fd>> \in {g} \X Own(g, c) => <<x, fd>> \in F!Slots(c)
      <4>1. <<x, fd>> \in F!Slots(c)' <=> chans'[x][fd] = c
        BY <3>3 DEF F!Slots
      <4>2. <<x, fd>> \in F!Slots(c) <=> chans[x][fd] = c
        BY <3>3 DEF F!Slots
      <4>3. <<x, fd>> \in {g} \X Own(g, c) <=> x = g /\ chans[g][fd] = c
        BY <3>3 DEF Own
      <4> QED BY <3>1, <3>2, <3>3, <4>1, <4>2, <4>3
    <3>4. F!Slots(c)' \subseteq FdGroups \X F!Fds /\ F!Slots(c) \subseteq FdGroups \X F!Fds /\ ({g} \X Own(g, c)) \subseteq FdGroups \X F!Fds
      BY DEF F!Slots, Own
    <3>5. \A s \in FdGroups \X F!Fds : /\ s \in F!Slots(c)' <=> s \in F!Slots(c) /\ s \notin {g} \X Own(g, c)
                                       /\ s \in {g} \X Own(g, c) => s \in F!Slots(c)
      <4> SUFFICES ASSUME NEW s \in FdGroups \X F!Fds
                   PROVE  /\ s \in F!Slots(c)' <=> s \in F!Slots(c) /\ s \notin {g} \X Own(g, c)
                          /\ s \in {g} \X Own(g, c) => s \in F!Slots(c)
        OBVIOUS
      <4>1. s = <<s[1], s[2]>> /\ s[1] \in FdGroups /\ s[2] \in F!Fds
        OBVIOUS
      <4> QED BY <3>3, <4>1
    <3> QED BY <3>4, <3>5
  <2>2. /\ IsFiniteSet({g} \X Own(g, c)) /\ Cardinality({g} \X Own(g, c)) = F!Held(g, c) /\ F!Held(g, c) \in Nat
    <3>1. Own(g, c) \in SUBSET F!Fds /\ F!Held(g, c) = Cardinality(Own(g, c))
      BY SameCount DEF Own, F!Held
    <3> QED BY <3>1, OwnSlots
  <2>3. /\ Cardinality(F!Slots(c)) \in Nat /\ Cardinality(F!Waiting("inc", c)) \in Nat /\ Cardinality(F!Waiting("dec", c)) \in Nat
        /\ IsFiniteSet(F!Slots(c)) /\ IsFiniteSet(F!Waiting("dec", c))
    BY Counted
  <2>4. Cardinality(F!Slots(c)') = Cardinality(F!Slots(c)) - F!Held(g, c)
    <3> DEFINE U == {g} \X Own(g, c)
    <3>1. U \subseteq F!Slots(c) /\ F!Slots(c)' = F!Slots(c) \ U /\ Cardinality(U) = F!Held(g, c) /\ IsFiniteSet(U)
      BY <2>1, <2>2
    <3> HIDE DEF U, F!Held
    <3>2. IsFiniteSet(F!Slots(c)') /\ F!Slots(c) = F!Slots(c)' \cup U /\ F!Slots(c)' \cap U = {}
      BY <2>3, <3>1, FS_Subset
    <3>3. Cardinality(F!Slots(c)' \cup U) = Cardinality(F!Slots(c)') + Cardinality(U)
      BY <3>1, <3>2, Disjoint
    <3>4. Cardinality(F!Slots(c)') \in Nat
      BY <3>2, FS_CardinalityType
    <3>5. Cardinality(F!Slots(c)' \cup U) = Cardinality(F!Slots(c))
      BY <3>2
    <3> QED BY <2>2, <2>3, <3>1, <3>3, <3>4, <3>5
  <2>5. Cardinality(F!Waiting("dec", c)') = Cardinality(F!Waiting("dec", c)) + F!Held(g, c)
    <3>1. /\ F!Waiting("dec", c)' = F!Waiting("dec", c) \cup New(g, l, "dec", c) /\ F!Waiting("dec", c) \cap New(g, l, "dec", c) = {}
          /\ IsFiniteSet(New(g, l, "dec", c)) /\ Cardinality(New(g, l, "dec", c)) = F!Held(g, c)
      BY <1>5, <1>6, <1>9
    <3> HIDE DEF F!Held
    <3> QED BY <2>3, <3>1, Disjoint
  <2>6. F!Waiting("inc", c)' = F!Waiting("inc", c)
    BY <1>5, <1>6, <1>9
  <2>7. refs'[c] = refs[c] /\ Even(c) /\ refs[c] \in Nat
    BY <1>1, <1>3, <1>9 DEF FgTypeInv, EvenInv
  <2> QED BY <2>2, <2>3, <2>4, <2>5, <2>6, <2>7 DEF Even
<1> QED BY <1>1, <1>7, <1>8, <1>9 DEF FgInv, EvenInv

LEMMA FgNextInv ==
  ASSUME F!FgroupAssumption, FgInv, F!Next \/ UNCHANGED F!vars
  PROVE  FgInv'
<1>1. CASE UNCHANGED F!vars
  <2>1. UNCHANGED <<chans, live, refs, mode, todo, using, broken>>
    BY <1>1 DEF F!vars
  <2>2. \A c : F!Slots(c)' = F!Slots(c) /\ \A what : F!Waiting(what, c)' = F!Waiting(what, c)
    BY <2>1 DEF F!Slots, F!Waiting
  <2>3. \A c : Even(c)' <=> Even(c)
    BY <2>1, <2>2 DEF Even
  <2>4. FgTypeInv' /\ GroupInv'
    BY <2>1 DEF FgInv, FgTypeInv, GroupInv
  <2> QED BY <2>1, <2>3, <2>4 DEF FgInv, EvenInv
<1>2. CASE F!Next
  <2>1. PICK g \in FdGroups :
          \/ \E c \in Chans, m \in F!Modes : F!SysOpen(g, c, m)
          \/ \E c0, c1 \in Chans : F!SysPipe(g, c0, c1)
          \/ \E fd \in F!Fds : \/ F!SysClose(g, fd) \/ F!SysDup(g, fd)
                               \/ \E old \in F!Fds : F!SysDup2(g, old, fd)
                               \/ \E m \in {{"r"}, {"w"}, {}} : F!Use(g, fd, m)
          \/ F!Count(g) \/ F!Used(g) \/ F!FgroupFree(g)
          \/ \E h \in FdGroups : todo[h] = <<>> /\ (F!FgroupNew(g, h) \/ F!FgroupCopy(g, h))
    BY <1>2 DEF F!Next
  <2>2. CASE \E c \in Chans, m \in F!Modes : F!SysOpen(g, c, m)
    BY <2>2, SysOpenStep
  <2>3. CASE \E c0, c1 \in Chans : F!SysPipe(g, c0, c1)
    BY <2>3, SysPipeStep
  <2>4. CASE \E fd \in F!Fds : F!SysClose(g, fd)
    BY <2>4, SysCloseStep
  <2>5. CASE \E fd \in F!Fds : F!SysDup(g, fd)
    BY <2>5, SysDupStep
  <2>6. CASE \E fd \in F!Fds, old \in F!Fds : F!SysDup2(g, old, fd)
    BY <2>6, SysDup2Step
  <2>7. CASE \E fd \in F!Fds, m \in {{"r"}, {"w"}, {}} : F!Use(g, fd, m)
    BY <2>7, UseStep
  <2>8. CASE F!Count(g)
    BY <2>8, CountStep
  <2>9. CASE F!Used(g)
    BY <2>9, UsedStep
  <2>10. CASE F!FgroupFree(g)
    BY <2>10, FgroupFreeStep
  <2>11. CASE \E h \in FdGroups : todo[h] = <<>> /\ F!FgroupNew(g, h)
    BY <2>11, FgroupNewStep
  <2>12. CASE \E h \in FdGroups : todo[h] = <<>> /\ F!FgroupCopy(g, h)
    BY <2>12, FgroupCopyStep
  <2> QED BY <2>1, <2>2, <2>3, <2>4, <2>5, <2>6, <2>7, <2>8, <2>9, <2>10, <2>11, <2>12
<1> QED BY <1>1, <1>2

-----------------------------------------------------------------------------
(* Files.  A call that is between its request and its end has the lock of  *)
(* its channel, so the offset it started from is still the offset, and the *)
(* offset is where the last transfer of the log ended.  With that lock, a  *)
(* channel that is being closed still has the file its close gives up, so  *)
(* each reference is counted once, on the channel or in a call.            *)
call == v1
fid == v2
offset == v3
lock == v4
log == v5
exists == v6
opens == v7
frefs == v8
lost == v9
USE DEF call, fid, offset, lock, log, exists, opens, frefs, lost

LEMMA SameFileCount == \A S : T!Cardinality(S) = Cardinality(S) /\ (T!IsFiniteSet(S) <=> IsFiniteSet(S))
BY DEF T!Cardinality, Cardinality, T!IsFiniteSet, IsFiniteSet

CallOps == {"user", "open", "stat", "remove", "opened", "removing", "transfer", "flush", "closed"}
CallType == [op : CallOps, fid : FileFids \cup {None}, chan : Chans \cup {None}, from : Int, len : Int]
Moved == [from : Int, len : Int]
CallTypeInv == /\ call \in [Users -> CallType] /\ fid \in [Chans -> FileFids \cup {None}]
               /\ offset \in [Chans -> Int] /\ lock \in [Chans -> Users \cup {None}]
               /\ log \in [Chans -> Seq(Moved)]

Locking == {"transfer", "flush", "closed"}
LockInv == \A q \in Users : call[q].op \in Locking =>
             call[q].chan \in Chans /\ lock[call[q].chan] = q
FromInv == \A q \in Users : call[q].op = "transfer" => call[q].from = offset[call[q].chan]
EndInv == \A c \in Chans : log[c] # <<>> =>
            log[c][Len(log[c])].from + log[c][Len(log[c])].len = offset[c]
TransferInv == CallTypeInv /\ LockInv /\ FromInv /\ EndInv /\ T!Consecutive

(* The records of calls, changed field by field.                           *)
LEMMA CallUpdate ==
  ASSUME NEW u \in CallType, NEW what \in CallOps, NEW f \in FileFids \cup {None}
  PROVE  /\ [u EXCEPT !.op = what, !.fid = f] \in CallType
         /\ [u EXCEPT !.op = what, !.fid = f].op = what
BY DEF CallType

LEMMA UserType == T!User \in CallType
BY DEF T!User, CallType, CallOps

LEMMA FilesInit == T!FilesAssumption /\ T!Init => TransferInv
<1> SUFFICES ASSUME T!FilesAssumption, T!Init PROVE TransferInv
  OBVIOUS
<1>2. CallTypeInv
  BY UserType DEF T!Init, CallTypeInv
<1>3. LockInv /\ FromInv
  BY DEF T!Init, LockInv, FromInv, T!User, Locking
<1>4. EndInv /\ T!Consecutive
  BY DEF T!Init, EndInv, T!Consecutive
<1> QED BY <1>2, <1>3, <1>4 DEF TransferInv

(* A step that neither starts nor ends a transfer: only the call of q      *)
(* changes, and q has no lock before or after it.                          *)
LEMMA OtherCalls ==
  ASSUME TransferInv, NEW q \in Users, NEW new \in CallType, new.op \notin Locking,
         T!Do(q, new), UNCHANGED <<offset, lock, log>>,
         fid' \in [Chans -> FileFids \cup {None}]
  PROVE  TransferInv'
<1>1. \A r \in Users : call'[r] = IF r = q THEN new ELSE call[r]
  BY DEF T!Do, TransferInv, CallTypeInv
<1>2. CallTypeInv'
  BY DEF T!Do, TransferInv, CallTypeInv
<1>3. LockInv' /\ FromInv'
  BY <1>1 DEF TransferInv, LockInv, FromInv, Locking
<1> QED BY <1>2, <1>3 DEF TransferInv, EndInv, T!Consecutive

(* A call that takes the lock of its channel keeps the offset it finds.    *)
LEMMA StartStep ==
  ASSUME T!FilesAssumption, TransferInv, NEW q \in Users, NEW c \in Chans, NEW what \in {"transfer", "flush"},
         T!Start(q, c, what), T!Take(q, c)
  PROVE  TransferInv'
<1> DEFINE new == [op |-> what, fid |-> fid[c], chan |-> c, from |-> offset[c], len |-> -1]
<1>1. /\ call' = [call EXCEPT ![q] = new] /\ call[q].op = "user"
      /\ lock[c] = None /\ lock' = [lock EXCEPT ![c] = q]
      /\ UNCHANGED <<fid, offset, log>>
  BY DEF T!Start, T!Take, T!Do, T!Doing
<1>2. new \in CallType
  BY DEF TransferInv, CallTypeInv, CallType, CallOps
<1>3. CallTypeInv'
  BY <1>1, <1>2 DEF TransferInv, CallTypeInv
<1>4. \A r \in Users : call'[r] = IF r = q THEN new ELSE call[r]
  BY <1>1 DEF TransferInv, CallTypeInv
<1>5. \A d \in Chans : lock'[d] = IF d = c THEN q ELSE lock[d]
  BY <1>1 DEF TransferInv, CallTypeInv
<1>6. LockInv'
  BY <1>1, <1>4, <1>5 DEF TransferInv, LockInv, T!FilesAssumption
<1>7. FromInv'
  BY <1>1, <1>4 DEF TransferInv, FromInv
<1> QED BY <1>1, <1>3, <1>6, <1>7 DEF TransferInv, EndInv, T!Consecutive

(* A call that ends gives its lock up; nobody else is on its channel.      *)
LEMMA NobodyElse ==
  ASSUME TransferInv, NEW q \in Users, NEW r \in Users, r # q,
         call[q].op \in Locking, call[r].op \in Locking
  PROVE  call[r].chan # call[q].chan
BY DEF TransferInv, LockInv

LEMMA EndOfCall ==
  ASSUME TransferInv, NEW q \in Users, call[q].op \in Locking, T!Return(q),
         lock' = [lock EXCEPT ![call[q].chan] = None],
         \A d \in Chans \ {call[q].chan} : offset'[d] = offset[d]
  PROVE  LockInv' /\ FromInv' /\ call' \in [Users -> CallType] /\ lock' \in [Chans -> Users \cup {None}]
<1>1. \A r \in Users : call'[r] = IF r = q THEN T!User ELSE call[r]
  BY DEF T!Return, T!Do, TransferInv, CallTypeInv
<1>2. T!User \in CallType /\ T!User.op \notin Locking
  BY DEF T!User, CallType, CallOps, Locking
<1>3. ASSUME NEW r \in Users, call'[r].op \in Locking
      PROVE  /\ call'[r] = call[r] /\ call[r].chan \in Chans \ {call[q].chan}
             /\ lock'[call[r].chan] = r
  <2>1. r # q /\ call'[r] = call[r]
    BY <1>1, <1>2, <1>3
  <2>2. call[r].chan # call[q].chan
    BY <1>3, <2>1, NobodyElse
  <2> QED BY <1>3, <2>1, <2>2 DEF TransferInv, LockInv, CallTypeInv
<1>4. LockInv'
  BY <1>3 DEF LockInv
<1>5. FromInv'
  BY <1>3 DEF TransferInv, FromInv, Locking
<1>6. call' \in [Users -> CallType]
  BY <1>2 DEF T!Return, T!Do, TransferInv, CallTypeInv
<1> QED BY <1>4, <1>5, <1>6 DEF TransferInv, CallTypeInv

LEMMA FailsStep ==
  ASSUME TransferInv, NEW q \in Users, T!Fails(q)
  PROVE  TransferInv'
<1>1. /\ call[q].op \in Locking /\ T!Return(q) /\ UNCHANGED <<fid, offset, log>>
      /\ lock' = [lock EXCEPT ![call[q].chan] = None]
  BY DEF T!Fails, T!Doing, Locking
<1>2. LockInv' /\ FromInv' /\ call' \in [Users -> CallType] /\ lock' \in [Chans -> Users \cup {None}]
  BY <1>1, EndOfCall
<1> QED BY <1>1, <1>2 DEF TransferInv, CallTypeInv, EndInv, T!Consecutive

LEMMA TransferDoneStep ==
  ASSUME TransferInv, NEW q \in Users, T!TransferDone(q)
  PROVE  TransferInv'
<1> DEFINE c == call[q].chan
           entry == [from |-> call[q].from, len |-> call[q].len]
<1>1. /\ call[q].op = "transfer" /\ call[q].op \in Locking /\ T!Return(q) /\ UNCHANGED fid
      /\ lock' = [lock EXCEPT ![c] = None]
      /\ offset' = [offset EXCEPT ![c] = @ + call[q].len]
      /\ log' = [log EXCEPT ![c] = Append(@, entry)]
  BY DEF T!TransferDone, T!Doing, Locking
<1>2. c \in Chans /\ call[q].from = offset[c] /\ call[q].from \in Int /\ call[q].len \in Int
  BY <1>1 DEF TransferInv, LockInv, FromInv, CallTypeInv, CallType
<1>3. /\ \A d \in Chans \ {c} : offset'[d] = offset[d] /\ log'[d] = log[d]
      /\ offset'[c] = offset[c] + call[q].len /\ log'[c] = Append(log[c], entry)
  BY <1>1, <1>2 DEF TransferInv, CallTypeInv
<1>4. LockInv' /\ FromInv' /\ call' \in [Users -> CallType] /\ lock' \in [Chans -> Users \cup {None}]
  BY <1>1, <1>3, EndOfCall
<1>5. entry \in Moved /\ log[c] \in Seq(Moved) /\ offset[c] \in Int
  BY <1>2 DEF Moved, TransferInv, CallTypeInv
<1>6. /\ log'[c] \in Seq(Moved) /\ Len(log'[c]) = Len(log[c]) + 1 /\ Len(log[c]) \in Nat
      /\ \A i \in 1..Len(log[c]) : log'[c][i] = log[c][i]
      /\ log'[c][Len(log[c]) + 1] = entry
  BY <1>3, <1>5, AppendProperties, LenProperties
<1> HIDE DEF entry
<1>7. CallTypeInv'
  BY <1>1, <1>2, <1>4, <1>5, <1>6 DEF TransferInv, CallTypeInv
<1>8. ASSUME NEW d \in Chans, log'[d] # <<>>
      PROVE  log'[d][Len(log'[d])].from + log'[d][Len(log'[d])].len = offset'[d]
  <2>1. CASE d = c
    <3>1. log'[d][Len(log'[d])] = entry
      BY <1>6, <2>1
    <3> QED BY <1>2, <1>3, <2>1, <3>1 DEF entry
  <2>2. CASE d # c
    <3>1. log'[d] = log[d] /\ offset'[d] = offset[d]
      BY <1>3, <2>2
    <3> QED BY <1>8, <3>1 DEF TransferInv, EndInv
  <2> QED BY <2>1, <2>2
<1>9. ASSUME NEW i \in 1..Len(log'[c]) - 1
      PROVE  log'[c][i + 1].from = log'[c][i].from + log'[c][i].len
  <2>1. i \in 1..Len(log[c]) /\ log'[c][i] = log[c][i]
    BY <1>6
  <2>2. CASE i = Len(log[c])
    <3>1. log[c] # <<>>
      BY <1>5, <2>1, <2>2
    <3>2. log[c][i].from + log[c][i].len = offset[c]
      BY <1>2, <2>2, <3>1 DEF TransferInv, EndInv
    <3> QED BY <1>2, <1>6, <2>1, <2>2, <3>2 DEF entry
  <2>3. CASE i # Len(log[c])
    <3>1. i \in 1..Len(log[c]) - 1 /\ i + 1 \in 1..Len(log[c])
      BY <1>6, <2>1, <2>3
    <3> QED BY <1>2, <1>6, <2>1, <3>1 DEF TransferInv, T!Consecutive
  <2> QED BY <2>2, <2>3
<1>10. ASSUME NEW d \in Chans \ {c}, NEW i \in 1..Len(log'[d]) - 1
       PROVE  log'[d][i + 1].from = log'[d][i].from + log'[d][i].len
  <2>1. log'[d] = log[d]
    BY <1>3
  <2> QED BY <1>10, <2>1 DEF TransferInv, T!Consecutive
<1>11. T!Consecutive'
  BY <1>9, <1>10 DEF T!Consecutive
<1>12. EndInv'
  BY <1>8 DEF EndInv
<1> QED BY <1>4, <1>7, <1>11, <1>12 DEF TransferInv

(* A channel that is moved or closed begins a new log; no transfer is on it.*)
LEMMA NewLog ==
  ASSUME TransferInv, NEW c \in Chans, NEW to \in Int,
         offset' = [offset EXCEPT ![c] = to], log' = [log EXCEPT ![c] = <<>>]
  PROVE  /\ EndInv' /\ T!Consecutive'
         /\ offset' \in [Chans -> Int] /\ log' \in [Chans -> Seq(Moved)]
         /\ \A d \in Chans \ {c} : offset'[d] = offset[d]
<1>1. /\ \A d \in Chans : /\ offset'[d] = IF d = c THEN to ELSE offset[d]
                          /\ log'[d] = IF d = c THEN <<>> ELSE log[d]
  BY DEF TransferInv, CallTypeInv
<1>2. EndInv'
  BY <1>1 DEF TransferInv, EndInv
<1>3. T!Consecutive'
  BY <1>1 DEF TransferInv, T!Consecutive
<1> QED BY <1>1, <1>2, <1>3 DEF TransferInv, CallTypeInv

LEMMA FileSeekStep ==
  ASSUME T!FilesAssumption, TransferInv, NEW q \in Users, NEW c \in Chans, NEW to \in 0..MaxOffset, T!Seek(q, c, to)
  PROVE  TransferInv'
<1>1. /\ lock[c] = None /\ UNCHANGED <<call, fid, lock>> /\ to \in Int
      /\ offset' = [offset EXCEPT ![c] = to] /\ log' = [log EXCEPT ![c] = <<>>]
  BY DEF T!Seek, T!FilesAssumption
<1>2. /\ EndInv' /\ T!Consecutive'
      /\ offset' \in [Chans -> Int] /\ log' \in [Chans -> Seq(Moved)]
      /\ \A d \in Chans \ {c} : offset'[d] = offset[d]
  BY <1>1, NewLog
<1>3. FromInv'
  BY <1>1, <1>2 DEF TransferInv, FromInv, LockInv, Locking, T!FilesAssumption
<1> QED BY <1>1, <1>2, <1>3 DEF TransferInv, CallTypeInv, LockInv

LEMMA FileCloseStep ==
  ASSUME T!FilesAssumption, TransferInv, NEW q \in Users, NEW c \in Chans, T!Close(q, c)
  PROVE  TransferInv'
<1> DEFINE new == [T!User EXCEPT !.op = "closed", !.fid = fid[c], !.chan = c]
<1>1. /\ call' = [call EXCEPT ![q] = new] /\ lock[c] = None /\ lock' = [lock EXCEPT ![c] = q]
      /\ call[q].op = "user" /\ UNCHANGED <<fid, offset, log>>
  BY DEF T!Close, T!Take, T!Do, T!Doing
<1>2. new \in CallType /\ new.op = "closed" /\ new.chan = c
  <2>1. fid[c] \in FileFids \cup {None} /\ c \in Chans \cup {None} /\ "closed" \in CallOps
    BY DEF TransferInv, CallTypeInv, CallOps
  <2> QED BY <2>1, UserType DEF CallType
<1> HIDE DEF new
<1>3. CallTypeInv'
  BY <1>1, <1>2 DEF TransferInv, CallTypeInv
<1>4. \A r \in Users : call'[r] = IF r = q THEN new ELSE call[r]
  BY <1>1 DEF TransferInv, CallTypeInv
<1>5. \A d \in Chans : lock'[d] = IF d = c THEN q ELSE lock[d]
  BY <1>1 DEF TransferInv, CallTypeInv
<1>6. LockInv'
  BY <1>1, <1>2, <1>4, <1>5 DEF TransferInv, LockInv, T!FilesAssumption
<1>7. FromInv'
  BY <1>1, <1>2, <1>4 DEF TransferInv, FromInv
<1> QED BY <1>1, <1>3, <1>6, <1>7 DEF TransferInv, EndInv, T!Consecutive

LEMMA CloseDoneStep ==
  ASSUME TransferInv, NEW q \in Users, T!CloseDone(q)
  PROVE  TransferInv'
<1> DEFINE c == call[q].chan
<1>1. /\ call[q].op \in Locking /\ T!Return(q)
      /\ fid' = [fid EXCEPT ![c] = None] /\ lock' = [lock EXCEPT ![c] = None]
      /\ offset' = [offset EXCEPT ![c] = 0] /\ log' = [log EXCEPT ![c] = <<>>]
  BY DEF T!CloseDone, T!Doing, Locking
<1>2. c \in Chans
  BY <1>1 DEF TransferInv, LockInv
<1>3. /\ EndInv' /\ T!Consecutive'
      /\ offset' \in [Chans -> Int] /\ log' \in [Chans -> Seq(Moved)]
      /\ \A d \in Chans \ {c} : offset'[d] = offset[d]
  <2>1. 0 \in Int
    OBVIOUS
  <2> HIDE DEF c
  <2> QED BY <1>1, <1>2, <2>1, NewLog
<1>4. LockInv' /\ FromInv' /\ call' \in [Users -> CallType] /\ lock' \in [Chans -> Users \cup {None}]
  BY <1>1, <1>3, EndOfCall
<1> QED BY <1>1, <1>2, <1>3, <1>4 DEF TransferInv, CallTypeInv

(* The calls that find, open and remove files take no lock of a channel.   *)
LEMMA NameStep ==
  ASSUME T!FilesAssumption, TransferInv, NEW q \in Users, NEW f \in FileFids,
         \/ \E what \in {"open", "stat", "remove"} : T!Find(q, f, what)
         \/ T!Create(q, f)
  PROVE  TransferInv'
<1>1. PICK what \in {"open", "stat", "remove"} :
        T!Do(q, [T!User EXCEPT !.op = what, !.fid = f]) /\ UNCHANGED <<fid, offset, lock, log>>
  BY DEF T!Find, T!Create, T!chan
<1>2. /\ [T!User EXCEPT !.op = what, !.fid = f] \in CallType
      /\ [T!User EXCEPT !.op = what, !.fid = f].op \notin Locking
  <2>1. what \in CallOps \ Locking
    BY DEF CallOps, Locking
  <2> QED BY <2>1, UserType, CallUpdate
<1> QED BY <1>1, <1>2, OtherCalls DEF TransferInv, CallTypeInv

LEMMA ReturnStep ==
  ASSUME TransferInv, NEW q \in Users, T!GiveUp(q) \/ T!RemoveRefused(q) \/ T!RemoveDone(q)
  PROVE  TransferInv'
<1>1. T!Do(q, T!User) /\ UNCHANGED <<fid, offset, lock, log>>
  BY DEF T!GiveUp, T!RemoveRefused, T!RemoveDone, T!Return, T!chan
<1>2. T!User \in CallType /\ T!User.op \notin Locking
  BY DEF T!User, CallType, CallOps, Locking
<1> QED BY <1>1, <1>2, OtherCalls DEF TransferInv, CallTypeInv

LEMMA OpenDoneStep ==
  ASSUME TransferInv, NEW q \in Users, NEW c \in Chans, T!OpenDone(q, c)
  PROVE  TransferInv'
<1>1. T!Do(q, T!User) /\ UNCHANGED <<offset, lock, log>> /\ fid' = [fid EXCEPT ![c] = call[q].fid]
  BY DEF T!OpenDone, T!Return
<1>2. T!User \in CallType /\ T!User.op \notin Locking
  BY DEF T!User, CallType, CallOps, Locking
<1>3. fid' \in [Chans -> FileFids \cup {None}]
  BY <1>1 DEF TransferInv, CallTypeInv, CallType
<1> QED BY <1>1, <1>2, <1>3, OtherCalls

LEMMA NextStageStep ==
  ASSUME TransferInv, NEW q \in Users, T!OpenServed(q) \/ T!RemoveAsk(q)
  PROVE  TransferInv'
<1>1. PICK what \in {"opened", "removing"} :
        T!Do(q, [call[q] EXCEPT !.op = what]) /\ UNCHANGED <<fid, offset, lock, log>>
  BY DEF T!OpenServed, T!RemoveAsk, T!Next1, T!chan
<1>2. call[q] \in CallType
  BY DEF TransferInv, CallTypeInv
<1>3. /\ [call[q] EXCEPT !.op = what] \in CallType
      /\ [call[q] EXCEPT !.op = what].op \notin Locking
  BY <1>2 DEF CallType, CallOps, Locking
<1> QED BY <1>1, <1>3, OtherCalls DEF TransferInv, CallTypeInv

LEMMA ServedStep ==
  ASSUME T!FilesAssumption, TransferInv, NEW q \in Users, NEW n \in 0..MaxLen, T!Served(q, n)
  PROVE  TransferInv'
<1> DEFINE new == [call[q] EXCEPT !.len = n]
<1>1. call' = [call EXCEPT ![q] = new] /\ UNCHANGED <<fid, offset, lock, log>>
  BY DEF T!Served, T!Do, T!chan
<1>2. call[q] \in CallType /\ n \in Int
  BY DEF TransferInv, CallTypeInv, T!FilesAssumption
<1>3. new \in CallType /\ new.op = call[q].op /\ new.chan = call[q].chan /\ new.from = call[q].from
  BY <1>2 DEF CallType
<1> HIDE DEF new
<1>4. \A r \in Users : call'[r] = IF r = q THEN new ELSE call[r]
  BY <1>1 DEF TransferInv, CallTypeInv
<1>5. CallTypeInv'
  BY <1>1, <1>3 DEF TransferInv, CallTypeInv
<1>6. LockInv' /\ FromInv'
  BY <1>1, <1>3, <1>4 DEF TransferInv, LockInv, FromInv
<1> QED BY <1>1, <1>5, <1>6 DEF TransferInv, EndInv, T!Consecutive

LEMMA TransferNext ==
  ASSUME T!FilesAssumption, TransferInv, [T!Next]_(T!vars)
  PROVE  TransferInv'
<1>1. CASE UNCHANGED T!vars
  BY <1>1 DEF T!vars, TransferInv, CallTypeInv, LockInv, FromInv, EndInv, T!Consecutive
<1>2. ASSUME NEW q \in Users, NEW c \in Chans, T!Transfer(q, c) \/ T!Flush(q, c)
      PROVE  TransferInv'
  BY <1>2, StartStep DEF T!Transfer, T!Flush
<1> QED
  BY <1>1, <1>2, NameStep, ReturnStep, NextStageStep, OpenDoneStep, ServedStep, TransferDoneStep,
     FailsStep, FileSeekStep, FileCloseStep, CloseDoneStep DEF T!Next

(* Transfers of processes that share a channel follow each other without   *)
(* gap or overlap: fileread(), filewrite(), fileseek() and fileclose() of  *)
(* kern/file.c under the lock of the channel, for any number of each.      *)
-----------------------------------------------------------------------------
(* OpensCounted.  How the three counts of calls change is what the call    *)
(* that changes has counted for before and after; a channel counts for the *)
(* file it is on.                                                          *)
FileOps == {"open", "stat", "remove", "opened", "removing", "closed"}
KernelOps == {"open", "stat", "remove", "removing", "opened"}
CountTypes == /\ opens \in [FileFids -> Int] /\ frefs \in [FileFids -> Int] /\ lost \in [FileFids -> Int]
FileInv == \A q \in Users : call[q].op \in FileOps => call[q].fid \in FileFids
ClosedInv == \A q \in Users : call[q].op = "closed" => fid[call[q].chan] = call[q].fid
CountInv == CountTypes /\ FileInv /\ ClosedInv /\ T!OpensCounted

InIf(u, f, ops) == IF u.fid = f /\ u.op \in ops THEN 1 ELSE 0

LEMMA InCallStep ==
  ASSUME T!FilesAssumption, NEW q \in Users, NEW new, NEW f, NEW ops,
         \A r \in Users : call'[r] = IF r = q THEN new ELSE call[r]
  PROVE  /\ T!InCall(f, ops) \in Nat
         /\ T!InCall(f, ops)' = T!InCall(f, ops) + InIf(new, f, ops) - InIf(call[q], f, ops)
<1> DEFINE S == {r \in Users : call[r].fid = f /\ call[r].op \in ops}
           U == {r \in Users : call'[r].fid = f /\ call'[r].op \in ops}
<1>1. IsFiniteSet(S) /\ Cardinality(S) \in Nat
  BY FS_Subset, FS_CardinalityType, SameFileCount DEF T!FilesAssumption
<1>2. T!InCall(f, ops) = Cardinality(S) /\ T!InCall(f, ops)' = Cardinality(U)
  BY SameFileCount DEF T!InCall
<1>3. q \in S <=> call[q].fid = f /\ call[q].op \in ops
  OBVIOUS
<1>4. CASE new.fid = f /\ new.op \in ops
  <2>1. U = S \cup {q}
    BY <1>4
  <2> HIDE DEF S, U
  <2>2. Cardinality(U) = IF q \in S THEN Cardinality(S) ELSE Cardinality(S) + 1
    BY <1>1, <2>1, FS_AddElement
  <2> QED BY <1>1, <1>2, <1>3, <1>4, <2>2 DEF InIf
<1>5. CASE ~(new.fid = f /\ new.op \in ops)
  <2>1. U = S \ {q}
    BY <1>5
  <2> HIDE DEF S, U
  <2>2. Cardinality(U) = IF q \in S THEN Cardinality(S) - 1 ELSE Cardinality(S)
    BY <1>1, <2>1, FS_RemoveElement
  <2> QED BY <1>1, <1>2, <1>3, <1>5, <2>2 DEF InIf
<1> QED BY <1>4, <1>5

OneIf(a, f) == IF a = f THEN 1 ELSE 0

LEMMA OnStep ==
  ASSUME T!FilesAssumption, NEW c \in Chans, NEW new, NEW f,
         \A d \in Chans : fid'[d] = IF d = c THEN new ELSE fid[d]
  PROVE  /\ T!On(f) \in Nat
         /\ T!On(f)' = T!On(f) + OneIf(new, f) - OneIf(fid[c], f)
<1> DEFINE S == {d \in Chans : fid[d] = f}
           U == {d \in Chans : fid'[d] = f}
<1>1. IsFiniteSet(S) /\ Cardinality(S) \in Nat
  BY FS_Subset, FS_CardinalityType, SameFileCount DEF T!FilesAssumption
<1>2. T!On(f) = Cardinality(S) /\ T!On(f)' = Cardinality(U) /\ (c \in S <=> fid[c] = f)
  BY SameFileCount DEF T!On
<1>3. CASE new = f
  <2>1. U = S \cup {c}
    BY <1>3
  <2> HIDE DEF S, U
  <2>2. Cardinality(U) = IF c \in S THEN Cardinality(S) ELSE Cardinality(S) + 1
    BY <1>1, <2>1, FS_AddElement
  <2> QED BY <1>1, <1>2, <1>3, <2>2 DEF OneIf
<1>4. CASE new # f
  <2>1. U = S \ {c}
    BY <1>4
  <2> HIDE DEF S, U
  <2>2. Cardinality(U) = IF c \in S THEN Cardinality(S) - 1 ELSE Cardinality(S)
    BY <1>1, <2>1, FS_RemoveElement
  <2> QED BY <1>1, <1>2, <1>4, <2>2 DEF OneIf
<1> QED BY <1>3, <1>4

LEMMA OnType == ASSUME T!FilesAssumption, NEW f PROVE T!On(f) \in Nat
<1>1. {d \in Chans : fid[d] = f} \in SUBSET Chans /\ IsFiniteSet(Chans)
  BY SameFileCount DEF T!FilesAssumption
<1> QED BY <1>1, FS_Subset, FS_CardinalityType, SameFileCount DEF T!On

(* How the calls that count for f in each of the three ways change.        *)
CountsMove(f, old, new) ==
  /\ T!InCall(f, {"opened"})' = T!InCall(f, {"opened"}) + InIf(new, f, {"opened"}) - InIf(old, f, {"opened"})
  /\ T!InCall(f, {"closed"})' = T!InCall(f, {"closed"}) + InIf(new, f, {"closed"}) - InIf(old, f, {"closed"})
  /\ T!InCall(f, KernelOps)' = T!InCall(f, KernelOps) + InIf(new, f, KernelOps) - InIf(old, f, KernelOps)
  /\ T!InCall(f, {"opened"}) \in Nat /\ T!InCall(f, {"closed"}) \in Nat /\ T!InCall(f, KernelOps) \in Nat

LEMMA CallCounts ==
  ASSUME T!FilesAssumption, TransferInv, NEW q \in Users, NEW new, T!Do(q, new)
  PROVE  /\ \A r \in Users : call'[r] = IF r = q THEN new ELSE call[r]
         /\ \A f \in FileFids : CountsMove(f, call[q], new)
<1>1. \A r \in Users : call'[r] = IF r = q THEN new ELSE call[r]
  BY DEF T!Do, TransferInv, CallTypeInv
<1>2. ASSUME NEW f \in FileFids PROVE CountsMove(f, call[q], new)
  <2>1. \A ops : /\ T!InCall(f, ops) \in Nat
                 /\ T!InCall(f, ops)' = T!InCall(f, ops) + InIf(new, f, ops) - InIf(call[q], f, ops)
    BY <1>1, InCallStep
  <2> QED BY <2>1 DEF CountsMove
<1> QED BY <1>1, <1>2

(* What OpensCounted says of one file.                                     *)
CountedFile(f) == /\ opens[f] = T!On(f) + T!InCall(f, {"opened"}) - T!InCall(f, {"closed"})
                  /\ frefs[f] = T!On(f) + T!InCall(f, KernelOps) + lost[f]
                  /\ opens[f] > 0 => f \in exists

LEMMA CountedForm == T!OpensCounted <=> \A f \in FileFids : CountedFile(f)
BY DEF T!OpensCounted, CountedFile, KernelOps

(* A step of one call that changes no channel and keeps each file counted. *)
LEMMA CountedCalls ==
  ASSUME TransferInv, CountInv, NEW q \in Users, NEW new,
         \A r \in Users : call'[r] = IF r = q THEN new ELSE call[r],
         UNCHANGED fid, CountTypes',
         new.op \in FileOps => new.fid \in FileFids,
         new.op = "closed" => fid[new.chan] = new.fid,
         \A f \in FileFids : CountedFile(f)'
  PROVE  CountInv'
<1>1. FileInv' /\ ClosedInv'
  BY DEF CountInv, FileInv, ClosedInv
<1>2. T!OpensCounted'
  BY DEF T!OpensCounted, CountedFile, KernelOps
<1> QED BY <1>1, <1>2 DEF CountInv

LEMMA OnSame == ASSUME NEW f, UNCHANGED fid PROVE T!On(f)' = T!On(f)
BY SameFileCount DEF T!On

LEMMA CountedSame ==
  ASSUME CountInv, UNCHANGED <<call, fid, opens, exists, frefs, lost>>
  PROVE  CountInv'
<1>1. \A f : T!On(f)' = T!On(f)
  BY SameFileCount DEF T!On
<1>2. \A f, ops : T!InCall(f, ops)' = T!InCall(f, ops)
  BY SameFileCount DEF T!InCall
<1>3. T!OpensCounted'
  BY <1>1, <1>2 DEF CountInv, T!OpensCounted
<1> QED BY <1>3 DEF CountInv, CountTypes, FileInv, ClosedInv

LEMMA InitCountInv == T!FilesAssumption /\ T!Init => CountInv
<1> SUFFICES ASSUME T!FilesAssumption, T!Init PROVE CountInv
  OBVIOUS
<1>1. CountTypes /\ FileInv /\ ClosedInv
  BY DEF T!Init, CountTypes, FileInv, ClosedInv, T!User, FileOps
<1>2. ASSUME NEW f \in FileFids PROVE CountedFile(f)
  <2>1. T!On(f) = 0
    <3>1. {c \in Chans : fid[c] = f} = {}
      BY DEF T!Init, T!FilesAssumption
    <3> QED BY <3>1, FS_EmptySet, SameFileCount DEF T!On
  <2>2. ASSUME NEW ops, "user" \notin ops PROVE T!InCall(f, ops) = 0
    <3>1. {q \in Users : call[q].fid = f /\ call[q].op \in ops} = {}
      BY <2>2 DEF T!Init, T!User
    <3> QED BY <3>1, FS_EmptySet, SameFileCount DEF T!InCall
  <2>3. /\ T!InCall(f, {"opened"}) = 0 /\ T!InCall(f, {"closed"}) = 0 /\ T!InCall(f, KernelOps) = 0
    BY <2>2 DEF KernelOps
  <2>4. opens[f] = 0 /\ frefs[f] = 0 /\ lost[f] = 0
    BY DEF T!Init
  <2> QED BY <2>1, <2>3, <2>4 DEF CountedFile
<1> QED BY <1>1, <1>2, CountedForm DEF CountInv

LEMMA NameCounts ==
  ASSUME T!FilesAssumption, TransferInv, CountInv, NEW q \in Users, NEW f \in FileFids,
         \/ \E what \in {"open", "stat", "remove"} : T!Find(q, f, what)
         \/ T!Create(q, f)
  PROVE  CountInv'
<1>1. PICK what \in {"open", "stat", "remove"} :
        /\ T!Do(q, [T!User EXCEPT !.op = what, !.fid = f]) /\ call[q].op = "user"
        /\ frefs' = [frefs EXCEPT ![f] = @ + 1]
        /\ exists' \in {exists, exists \cup {f}} /\ UNCHANGED <<fid, opens, lost>>
  BY DEF T!Find, T!Create, T!Doing, T!Count, T!chan, T!server
<1> DEFINE new == [T!User EXCEPT !.op = what, !.fid = f]
<1>2. new.op = what /\ new.fid = f
  BY DEF T!User
<1> HIDE DEF new
<1>3. /\ \A r \in Users : call'[r] = IF r = q THEN new ELSE call[r]
      /\ \A g \in FileFids : CountsMove(g, call[q], new)
  BY <1>1, CallCounts DEF new
<1>4. CountTypes' /\ \A g \in FileFids : frefs'[g] = frefs[g] + (IF g = f THEN 1 ELSE 0)
  BY <1>1 DEF CountInv, CountTypes
<1>5. ASSUME NEW g \in FileFids PROVE CountedFile(g)'
  <2>1. /\ InIf(new, g, {"opened"}) = 0 /\ InIf(new, g, {"closed"}) = 0
        /\ InIf(new, g, KernelOps) = IF g = f THEN 1 ELSE 0
        /\ InIf(call[q], g, {"opened"}) = 0 /\ InIf(call[q], g, {"closed"}) = 0
        /\ InIf(call[q], g, KernelOps) = 0
    BY <1>1, <1>2 DEF InIf, KernelOps
  <2>2. CountedFile(g) /\ CountsMove(g, call[q], new) /\ T!On(g)' = T!On(g) /\ T!On(g) \in Nat
    BY <1>1, <1>3, CountedForm, OnSame, OnType DEF CountInv
  <2>3. opens'[g] = opens[g] /\ lost'[g] = lost[g] /\ (g \in exists => g \in exists')
    BY <1>1
  <2> QED BY <1>4, <2>1, <2>2, <2>3 DEF CountedFile, CountsMove, CountInv, CountTypes
<1> QED BY <1>1, <1>2, <1>3, <1>4, <1>5, CountedCalls
(* Transfers, flushes and moves of a channel count for no file.            *)
LEMMA QuietCounts ==
  ASSUME T!FilesAssumption, TransferInv, CountInv, NEW q \in Users, NEW new, T!Do(q, new),
         call[q].op \notin FileOps, new.op \notin FileOps,
         UNCHANGED <<fid, opens, exists, frefs, lost>>
  PROVE  CountInv'
<1>1. /\ \A r \in Users : call'[r] = IF r = q THEN new ELSE call[r]
      /\ \A g \in FileFids : CountsMove(g, call[q], new)
  BY CallCounts
<1>2. ASSUME NEW g \in FileFids PROVE CountedFile(g)'
  <2>1. /\ InIf(new, g, {"opened"}) = 0 /\ InIf(new, g, {"closed"}) = 0 /\ InIf(new, g, KernelOps) = 0
        /\ InIf(call[q], g, {"opened"}) = 0 /\ InIf(call[q], g, {"closed"}) = 0
        /\ InIf(call[q], g, KernelOps) = 0
    BY DEF InIf, KernelOps, FileOps
  <2>2. CountedFile(g) /\ CountsMove(g, call[q], new) /\ T!On(g)' = T!On(g)
    BY <1>1, CountedForm, OnSame DEF CountInv
  <2> QED BY <2>1, <2>2 DEF CountedFile, CountsMove
<1>3. CountTypes' /\ new.op # "closed"
  BY DEF CountInv, CountTypes, FileOps
<1> QED BY <1>1, <1>2, <1>3, CountedCalls

LEMMA ChannelCounts ==
  ASSUME T!FilesAssumption, TransferInv, CountInv, NEW q \in Users,
         \/ \E c \in Chans : T!Transfer(q, c) \/ T!Flush(q, c)
         \/ \E n \in 0..MaxLen : T!Served(q, n)
         \/ T!TransferDone(q) \/ T!Fails(q)
  PROVE  CountInv'
<1>1. PICK new : /\ T!Do(q, new) /\ call[q].op \notin FileOps /\ new.op \notin FileOps
                 /\ UNCHANGED <<fid, opens, exists, frefs, lost>>
  <2>1. ASSUME NEW c \in Chans, T!Transfer(q, c) \/ T!Flush(q, c)
        PROVE  \E new : /\ T!Do(q, new) /\ call[q].op \notin FileOps /\ new.op \notin FileOps
                        /\ UNCHANGED <<fid, opens, exists, frefs, lost>>
    BY <2>1 DEF T!Transfer, T!Flush, T!Start, T!Doing, FileOps, T!server
  <2>2. ASSUME NEW n \in 0..MaxLen, T!Served(q, n)
        PROVE  \E new : /\ T!Do(q, new) /\ call[q].op \notin FileOps /\ new.op \notin FileOps
                        /\ UNCHANGED <<fid, opens, exists, frefs, lost>>
    <3>1. call[q] \in CallType /\ call[q].op = "transfer"
      BY <2>2 DEF TransferInv, CallTypeInv, T!Served, T!Doing
    <3>2. [call[q] EXCEPT !.len = n].op = "transfer"
      BY <3>1 DEF CallType
    <3> QED BY <2>2, <3>1, <3>2 DEF T!Served, FileOps, T!server, T!chan
  <2>3. ASSUME T!TransferDone(q) \/ T!Fails(q)
        PROVE  \E new : /\ T!Do(q, new) /\ call[q].op \notin FileOps /\ new.op \notin FileOps
                        /\ UNCHANGED <<fid, opens, exists, frefs, lost>>
    BY <2>3 DEF T!TransferDone, T!Fails, T!Return, T!User, T!Doing, FileOps, T!server
  <2> QED BY <2>1, <2>2, <2>3
<1> QED BY <1>1, QuietCounts

LEMMA SeekCounts ==
  ASSUME CountInv, NEW q \in Users, NEW c \in Chans, NEW to \in 0..MaxOffset, T!Seek(q, c, to)
  PROVE  CountInv'
<1>1. UNCHANGED <<call, fid, opens, exists, frefs, lost>>
  BY DEF T!Seek, T!server
<1> QED BY <1>1, CountedSame

(* A call that ends without a channel, or goes to its next stage: the file *)
(* of the call is counted for one less, or one more.                       *)
LEMMA StageCounts ==
  ASSUME T!FilesAssumption, TransferInv, CountInv, NEW q \in Users,
         T!GiveUp(q) \/ T!OpenServed(q) \/ T!RemoveRefused(q) \/ T!RemoveAsk(q) \/ T!RemoveDone(q)
  PROVE  CountInv'
<1> DEFINE f == call[q].fid
<1>1. f \in FileFids /\ call[q] \in CallType
  BY DEF T!GiveUp, T!OpenServed, T!RemoveRefused, T!RemoveAsk, T!RemoveDone, T!Doing, FileOps,
         CountInv, FileInv, TransferInv, CallTypeInv
<1>2. UNCHANGED fid
  BY DEF T!GiveUp, T!OpenServed, T!RemoveRefused, T!RemoveAsk, T!RemoveDone, T!chan
<1>3. ASSUME NEW new, T!Do(q, new), new.op \in FileOps => new.fid \in FileFids, new.op # "closed",
             CountTypes',
             \A g \in FileFids : CountsMove(g, call[q], new) => CountedFile(g)'
      PROVE  CountInv'
  <2>1. /\ \A r \in Users : call'[r] = IF r = q THEN new ELSE call[r]
        /\ \A g \in FileFids : CountsMove(g, call[q], new)
    BY <1>3, CallCounts
  <2> QED BY <1>2, <1>3, <2>1, CountedCalls
<1>4. \A g \in FileFids : CountedFile(g) /\ T!On(g)' = T!On(g) /\ T!On(g) \in Nat
  BY <1>2, CountedForm, OnSame, OnType DEF CountInv
<1>5. T!User.op \notin FileOps /\ T!User.op # "closed"
  BY DEF T!User, FileOps
<1>6. CASE T!GiveUp(q)
  <2>1. /\ T!Do(q, T!User) /\ call[q].op \in {"open", "stat"} /\ frefs' = [frefs EXCEPT ![f] = @ - 1]
        /\ UNCHANGED <<opens, exists, lost>>
    BY <1>6 DEF T!GiveUp, T!Return, T!Count, T!server, CountInv, CountTypes
  <2>2. CountTypes' /\ \A g \in FileFids : frefs'[g] = frefs[g] - (IF g = f THEN 1 ELSE 0)
    BY <1>1, <2>1 DEF CountInv, CountTypes
  <2>3. ASSUME NEW g \in FileFids, CountsMove(g, call[q], T!User) PROVE CountedFile(g)'
    <3>1. /\ InIf(T!User, g, {"opened"}) = 0 /\ InIf(T!User, g, {"closed"}) = 0 /\ InIf(T!User, g, KernelOps) = 0
          /\ InIf(call[q], g, {"opened"}) = 0 /\ InIf(call[q], g, {"closed"}) = 0
          /\ InIf(call[q], g, KernelOps) = IF g = f THEN 1 ELSE 0
      BY <2>1, <1>5 DEF InIf, KernelOps, T!User
    <3> QED BY <1>4, <2>1, <2>2, <2>3, <3>1 DEF CountedFile, CountsMove, CountInv, CountTypes
  <2> QED BY <1>3, <1>5, <2>1, <2>2, <2>3
<1>7. CASE T!OpenServed(q)
  <2> DEFINE new == [call[q] EXCEPT !.op = "opened"]
  <2>1. /\ T!Do(q, new) /\ call[q].op = "open" /\ f \in exists /\ opens' = [opens EXCEPT ![f] = @ + 1]
        /\ UNCHANGED <<exists, frefs, lost>>
    BY <1>7 DEF T!OpenServed, T!Next1, T!Doing
  <2>2. CountTypes' /\ \A g \in FileFids : opens'[g] = opens[g] + (IF g = f THEN 1 ELSE 0)
    BY <1>1, <2>1 DEF CountInv, CountTypes
  <2>3. new.op = "opened" /\ new.fid = f
    BY <1>1 DEF CallType
  <2> HIDE DEF new
  <2>4. ASSUME NEW g \in FileFids, CountsMove(g, call[q], new) PROVE CountedFile(g)'
    <3>1. /\ InIf(new, g, {"opened"}) = (IF g = f THEN 1 ELSE 0) /\ InIf(new, g, {"closed"}) = 0
          /\ InIf(call[q], g, {"opened"}) = 0 /\ InIf(call[q], g, {"closed"}) = 0
          /\ InIf(new, g, KernelOps) = InIf(call[q], g, KernelOps)
          /\ InIf(new, g, KernelOps) \in Int
      BY <2>1, <2>3 DEF InIf, KernelOps
    <3> QED BY <1>4, <2>1, <2>2, <2>4, <3>1 DEF CountedFile, CountsMove, CountInv, CountTypes
  <2> QED BY <1>1, <1>3, <2>1, <2>2, <2>3, <2>4
<1>8. CASE T!RemoveRefused(q)
  <2>1. /\ T!Do(q, T!User) /\ call[q].op = "remove" /\ lost' = [lost EXCEPT ![f] = @ + 1]
        /\ UNCHANGED <<opens, exists, frefs>>
    BY <1>8 DEF T!RemoveRefused, T!Return, T!Doing, T!server
  <2>2. CountTypes' /\ \A g \in FileFids : lost'[g] = lost[g] + (IF g = f THEN 1 ELSE 0)
    BY <1>1, <2>1 DEF CountInv, CountTypes
  <2>3. ASSUME NEW g \in FileFids, CountsMove(g, call[q], T!User) PROVE CountedFile(g)'
    <3>1. /\ InIf(T!User, g, {"opened"}) = 0 /\ InIf(T!User, g, {"closed"}) = 0 /\ InIf(T!User, g, KernelOps) = 0
          /\ InIf(call[q], g, {"opened"}) = 0 /\ InIf(call[q], g, {"closed"}) = 0
          /\ InIf(call[q], g, KernelOps) = IF g = f THEN 1 ELSE 0
      BY <2>1, <1>5 DEF InIf, KernelOps, T!User
    <3> QED BY <1>4, <2>1, <2>2, <2>3, <3>1 DEF CountedFile, CountsMove, CountInv, CountTypes
  <2> QED BY <1>3, <1>5, <2>1, <2>2, <2>3
<1>9. CASE T!RemoveAsk(q)
  <2> DEFINE new == [call[q] EXCEPT !.op = "removing"]
  <2>1. T!Do(q, new) /\ call[q].op = "remove" /\ UNCHANGED <<opens, exists, frefs, lost>>
    BY <1>9 DEF T!RemoveAsk, T!Next1, T!Doing, T!server
  <2>2. CountTypes'
    BY <2>1 DEF CountInv, CountTypes
  <2>3. new.op = "removing" /\ new.fid = f
    BY <1>1 DEF CallType
  <2> HIDE DEF new
  <2>4. ASSUME NEW g \in FileFids, CountsMove(g, call[q], new) PROVE CountedFile(g)'
    <3>1. /\ InIf(new, g, {"opened"}) = 0 /\ InIf(new, g, {"closed"}) = 0
          /\ InIf(call[q], g, {"opened"}) = 0 /\ InIf(call[q], g, {"closed"}) = 0
          /\ InIf(new, g, KernelOps) = InIf(call[q], g, KernelOps)
          /\ InIf(new, g, KernelOps) \in Int
      BY <2>1, <2>3 DEF InIf, KernelOps
    <3> QED BY <1>4, <2>1, <2>4, <3>1 DEF CountedFile, CountsMove
  <2> QED BY <1>1, <1>3, <2>1, <2>2, <2>3, <2>4
<1>10. CASE T!RemoveDone(q)
  <2>1. /\ T!Do(q, T!User) /\ call[q].op = "removing" /\ frefs' = [frefs EXCEPT ![f] = @ - 1]
        /\ exists' = exists \/ (opens[f] = 0 /\ exists' = exists \ {f})
        /\ UNCHANGED <<opens, lost>>
    BY <1>10 DEF T!RemoveDone, T!Return, T!Count, T!Doing, CountInv, CountTypes
  <2>2. CountTypes' /\ \A g \in FileFids : frefs'[g] = frefs[g] - (IF g = f THEN 1 ELSE 0)
    BY <1>1, <2>1 DEF CountInv, CountTypes
  <2>3. ASSUME NEW g \in FileFids, CountsMove(g, call[q], T!User) PROVE CountedFile(g)'
    <3>1. /\ InIf(T!User, g, {"opened"}) = 0 /\ InIf(T!User, g, {"closed"}) = 0 /\ InIf(T!User, g, KernelOps) = 0
          /\ InIf(call[q], g, {"opened"}) = 0 /\ InIf(call[q], g, {"closed"}) = 0
          /\ InIf(call[q], g, KernelOps) = IF g = f THEN 1 ELSE 0
      BY <2>1, <1>5 DEF InIf, KernelOps, T!User
    <3>2. opens[g] > 0 /\ g \in exists => g \in exists'
      BY <2>1 DEF CountInv, CountTypes
    <3> QED BY <1>4, <2>1, <2>2, <2>3, <3>1, <3>2 DEF CountedFile, CountsMove, CountInv, CountTypes
  <2> QED BY <1>3, <1>5, <2>1, <2>2, <2>3
<1> QED BY <1>6, <1>7, <1>8, <1>9, <1>10

(* The channel of an open that is finished takes over from the call; that  *)
(* of a close counts until the call ends.                                  *)
LEMMA OpenDoneCounts ==
  ASSUME T!FilesAssumption, TransferInv, CountInv, NEW q \in Users, NEW c \in Chans, T!OpenDone(q, c)
  PROVE  CountInv'
<1> DEFINE f == call[q].fid
<1>1. /\ T!Do(q, T!User) /\ call[q].op = "opened" /\ fid[c] = None
      /\ \A r \in Users : call[r].chan # c
      /\ fid' = [fid EXCEPT ![c] = f] /\ UNCHANGED <<opens, exists, frefs, lost>>
  BY DEF T!OpenDone, T!Return, T!Doing, T!server
<1>2. f \in FileFids /\ None \notin FileFids
  BY <1>1 DEF CountInv, FileInv, FileOps, T!FilesAssumption
<1>3. /\ \A r \in Users : call'[r] = IF r = q THEN T!User ELSE call[r]
      /\ \A g \in FileFids : CountsMove(g, call[q], T!User)
  BY <1>1, CallCounts
<1>4. \A d \in Chans : fid'[d] = IF d = c THEN f ELSE fid[d]
  BY <1>1 DEF TransferInv, CallTypeInv
<1>5. ASSUME NEW g \in FileFids PROVE T!On(g) \in Nat /\ T!On(g)' = T!On(g) + (IF g = f THEN 1 ELSE 0)
  <2>1. T!On(g)' = T!On(g) + OneIf(f, g) - OneIf(fid[c], g)
    BY <1>4, OnStep
  <2> QED BY <1>1, <1>2, <2>1, OnType DEF OneIf
<1>6. ASSUME NEW g \in FileFids PROVE CountedFile(g)'
  <2>1. /\ InIf(T!User, g, {"opened"}) = 0 /\ InIf(T!User, g, {"closed"}) = 0 /\ InIf(T!User, g, KernelOps) = 0
        /\ InIf(call[q], g, {"opened"}) = (IF g = f THEN 1 ELSE 0) /\ InIf(call[q], g, {"closed"}) = 0
        /\ InIf(call[q], g, KernelOps) = IF g = f THEN 1 ELSE 0
    BY <1>1 DEF InIf, KernelOps, T!User
  <2>2. CountedFile(g) /\ CountsMove(g, call[q], T!User)
    BY <1>3, CountedForm DEF CountInv
  <2> QED BY <1>1, <1>5, <2>1, <2>2 DEF CountedFile, CountsMove, CountInv, CountTypes
<1>7. T!OpensCounted'
  BY <1>6 DEF T!OpensCounted, CountedFile, KernelOps
<1>8. CountTypes' /\ FileInv'
  BY <1>1, <1>3 DEF CountInv, CountTypes, FileInv, T!User, FileOps
<1>9. ASSUME NEW r \in Users, call'[r].op = "closed" PROVE fid'[call'[r].chan] = call'[r].fid
  <2>1. call'[r] = call[r] /\ r # q
    BY <1>3, <1>9 DEF T!User
  <2>2. call[r].chan \in Chans
    BY <1>9, <2>1 DEF TransferInv, LockInv, Locking
  <2> QED BY <1>1, <1>4, <1>9, <2>1, <2>2 DEF CountInv, ClosedInv
<1> QED BY <1>7, <1>8, <1>9 DEF CountInv, ClosedInv

LEMMA CloseCounts ==
  ASSUME T!FilesAssumption, TransferInv, CountInv, NEW q \in Users, NEW c \in Chans, T!Close(q, c)
  PROVE  CountInv'
<1> DEFINE f == fid[c]
           new == [T!User EXCEPT !.op = "closed", !.fid = f, !.chan = c]
<1>1. /\ T!Do(q, new) /\ call[q].op = "user" /\ opens' = [opens EXCEPT ![f] = @ - 1]
      /\ UNCHANGED <<fid, exists, frefs, lost>> /\ f \in FileFids
  BY DEF T!Close, T!Doing, TransferInv, CallTypeInv
<1>2. new.op = "closed" /\ new.fid = f /\ new.chan = c
  BY DEF T!User
<1> HIDE DEF new
<1>3. /\ \A r \in Users : call'[r] = IF r = q THEN new ELSE call[r]
      /\ \A g \in FileFids : CountsMove(g, call[q], new)
  BY <1>1, CallCounts
<1>4. CountTypes' /\ \A g \in FileFids : opens'[g] = opens[g] - (IF g = f THEN 1 ELSE 0)
  BY <1>1 DEF CountInv, CountTypes
<1>5. ASSUME NEW g \in FileFids PROVE CountedFile(g)'
  <2>1. /\ InIf(new, g, {"opened"}) = 0 /\ InIf(new, g, {"closed"}) = (IF g = f THEN 1 ELSE 0)
        /\ InIf(new, g, KernelOps) = 0
        /\ InIf(call[q], g, {"opened"}) = 0 /\ InIf(call[q], g, {"closed"}) = 0
        /\ InIf(call[q], g, KernelOps) = 0
    BY <1>1, <1>2 DEF InIf, KernelOps
  <2>2. CountedFile(g) /\ CountsMove(g, call[q], new) /\ T!On(g)' = T!On(g) /\ T!On(g) \in Nat
    BY <1>1, <1>3, CountedForm, OnSame, OnType DEF CountInv
  <2> QED BY <1>1, <1>4, <2>1, <2>2 DEF CountedFile, CountsMove, CountInv, CountTypes
<1> QED BY <1>1, <1>2, <1>3, <1>4, <1>5, CountedCalls

LEMMA CloseDoneCounts ==
  ASSUME T!FilesAssumption, TransferInv, CountInv, NEW q \in Users, T!CloseDone(q)
  PROVE  CountInv'
<1> DEFINE f == call[q].fid
           c == call[q].chan
<1>1. /\ T!Do(q, T!User) /\ call[q].op = "closed" /\ frefs' = [frefs EXCEPT ![f] = @ - 1]
      /\ fid' = [fid EXCEPT ![c] = None] /\ UNCHANGED <<opens, exists, lost>>
  BY DEF T!CloseDone, T!Return, T!Doing, T!Count, T!server, CountInv, CountTypes
<1>2. f \in FileFids /\ None \notin FileFids /\ c \in Chans /\ fid[c] = f
  BY <1>1 DEF CountInv, FileInv, FileOps, ClosedInv, T!FilesAssumption, TransferInv, LockInv, Locking
<1>3. /\ \A r \in Users : call'[r] = IF r = q THEN T!User ELSE call[r]
      /\ \A g \in FileFids : CountsMove(g, call[q], T!User)
  BY <1>1, CallCounts
<1>4. \A d \in Chans : fid'[d] = IF d = c THEN None ELSE fid[d]
  BY <1>1 DEF TransferInv, CallTypeInv
<1>5. ASSUME NEW g \in FileFids PROVE T!On(g) \in Nat /\ T!On(g)' = T!On(g) - (IF g = f THEN 1 ELSE 0)
  <2>1. T!On(g)' = T!On(g) + OneIf(None, g) - OneIf(fid[c], g)
    BY <1>2, <1>4, OnStep
  <2> QED BY <1>2, <2>1, OnType DEF OneIf
<1>6. CountTypes' /\ \A g \in FileFids : frefs'[g] = frefs[g] - (IF g = f THEN 1 ELSE 0)
  BY <1>1, <1>2 DEF CountInv, CountTypes
<1>7. ASSUME NEW g \in FileFids PROVE CountedFile(g)'
  <2>1. /\ InIf(T!User, g, {"opened"}) = 0 /\ InIf(T!User, g, {"closed"}) = 0 /\ InIf(T!User, g, KernelOps) = 0
        /\ InIf(call[q], g, {"opened"}) = 0 /\ InIf(call[q], g, {"closed"}) = (IF g = f THEN 1 ELSE 0)
        /\ InIf(call[q], g, KernelOps) = 0
    BY <1>1 DEF InIf, KernelOps, T!User
  <2>2. CountedFile(g) /\ CountsMove(g, call[q], T!User)
    BY <1>3, CountedForm DEF CountInv
  <2> QED BY <1>1, <1>5, <1>6, <2>1, <2>2 DEF CountedFile, CountsMove, CountInv, CountTypes
<1>8. T!OpensCounted'
  BY <1>7 DEF T!OpensCounted, CountedFile, KernelOps
<1>9. FileInv'
  BY <1>3 DEF CountInv, FileInv, T!User, FileOps
<1>10. ASSUME NEW r \in Users, call'[r].op = "closed" PROVE fid'[call'[r].chan] = call'[r].fid
  <2>1. call'[r] = call[r] /\ r # q
    BY <1>3, <1>10 DEF T!User
  <2>2. call[r].chan \in Chans \ {c}
    BY <1>1, <1>10, <2>1, NobodyElse DEF TransferInv, LockInv, Locking
  <2> QED BY <1>4, <1>10, <2>1, <2>2 DEF CountInv, ClosedInv
<1> QED BY <1>6, <1>8, <1>9, <1>10 DEF CountInv, ClosedInv

LEMMA NextCountInv ==
  ASSUME T!FilesAssumption, TransferInv, CountInv, [T!Next]_(T!vars)
  PROVE  CountInv'
<1>1. CASE UNCHANGED T!vars
  BY <1>1, CountedSame DEF T!vars
<1> QED
  BY <1>1, NameCounts, ChannelCounts, SeekCounts, StageCounts, OpenDoneCounts, CloseCounts,
     CloseDoneCounts DEF T!Next

FilesInv == TransferInv /\ CountInv
LEMMA FilesInvInductive ==
  ASSUME T!FilesAssumption
  PROVE  (T!Init => FilesInv) /\ (FilesInv /\ [T!Next]_(T!vars) => FilesInv') /\ (FilesInv => T!TransfersSound)
BY FilesInit, InitCountInv, TransferNext, NextCountInv DEF FilesInv, TransferInv, CountInv, T!TransfersSound
-----------------------------------------------------------------------------
(* Process.  Groups are counted right because a group is only ever held as *)
(* one kind of group: a fork that shares it and an exit that gives it up    *)
(* then change the set of its holders by exactly one process.  A process is *)
(* on one list of its parent because the lists of the others do not have   *)
(* it, and the one that has it has it once; and what is taken off a list is *)
(* not put back, as no process descends from itself.                       *)
state == v1
pc == v2
new == v3
parent == v4
children == v5
deadchildren == v6
group == v7
prefs == v8
nforks == v9
USE DEF state, pc, new, parent, children, deadchildren, group, prefs, nforks

ProcLabels == {"user", "groups", "start", "exit", "children?", "pop", "sleep"}
ProcTypeInv == /\ group \in [Threads -> [Kinds -> Objects \cup {None}]]
               /\ prefs \in [Objects -> Int] /\ pc \in [Threads -> ProcLabels]
               /\ new \in [Threads -> Threads \cup {None}]
ForkerInv == \A q \in Threads : pc[q] \in {"groups", "start"} => new[q] \in Threads
ProcKindInv == \A p, q \in Threads : \A j, k \in Kinds :
                 group[p][j] = group[q][k] /\ group[q][k] # None => j = k
ProcIInv == ProcTypeInv /\ ForkerInv /\ ProcKindInv /\ P!RefsExact

LEMMA SameProcCount == \A S : P!Cardinality(S) = Cardinality(S) /\ (P!IsFiniteSet(S) <=> IsFiniteSet(S))
BY DEF P!Cardinality, Cardinality, P!IsFiniteSet, IsFiniteSet

LEMMA HoldersFinite ==
  ASSUME P!ProcessAssumption, NEW o
  PROVE  IsFiniteSet(P!Holders(o)) /\ Cardinality(P!Holders(o)) \in Nat
<1>1. P!Holders(o) \subseteq Threads /\ IsFiniteSet(Threads)
  BY SameProcCount DEF P!Holders, P!ProcessAssumption
<1> QED BY <1>1, FS_Subset, FS_CardinalityType

LEMMA ProcInit == P!ProcessAssumption /\ P!Init => ProcIInv
<1> SUFFICES ASSUME P!ProcessAssumption, P!Init PROVE ProcIInv
  OBVIOUS
<1>1. PICK mine \in [Kinds -> Objects] :
        /\ \A j, k \in Kinds : j # k => mine[j] # mine[k]
        /\ group = [q \in Threads |-> IF q = First THEN mine ELSE P!NoGroups]
        /\ prefs = [o \in Objects |-> IF \E k \in Kinds : mine[k] = o THEN 1 ELSE 0]
        /\ pc = [q \in Threads |-> "user"] /\ new = [q \in Threads |-> None]
  BY DEF P!Init
<1>2. First \in Threads /\ None \notin Objects
  BY DEF P!ProcessAssumption
<1>3. ProcTypeInv /\ ForkerInv
  <2>1. group \in [Threads -> [Kinds -> Objects \cup {None}]]
    BY <1>1 DEF P!NoGroups
  <2>2. prefs \in [Objects -> Int]
    BY <1>1
  <2>3. pc \in [Threads -> ProcLabels] /\ new \in [Threads -> Threads \cup {None}] /\ ForkerInv
    BY <1>1 DEF ForkerInv, ProcLabels
  <2> QED BY <2>1, <2>2, <2>3 DEF ProcTypeInv
<1>4. \A q \in Threads : \A k \in Kinds : group[q][k] = IF q = First THEN mine[k] ELSE None
  BY <1>1 DEF P!NoGroups
<1>5. ProcKindInv
  BY <1>1, <1>4 DEF ProcKindInv
<1>6. ASSUME NEW o \in Objects PROVE prefs[o] = Cardinality(P!Holders(o))
  <2>1. CASE \E k \in Kinds : mine[k] = o
    <3>1. P!Holders(o) = {First}
      BY <1>2, <1>4, <2>1 DEF P!Holders
    <3> QED BY <1>1, <2>1, <3>1, FS_Singleton
  <2>2. CASE ~\E k \in Kinds : mine[k] = o
    <3>1. P!Holders(o) = {}
      BY <1>2, <1>4, <2>2 DEF P!Holders
    <3> QED BY <1>1, <2>2, <3>1, FS_EmptySet
  <2> QED BY <2>1, <2>2
<1> QED BY <1>3, <1>5, <1>6, SameProcCount DEF ProcIInv, P!RefsExact

(* A group without references has no holder.                               *)
LEMMA Unheld ==
  ASSUME P!ProcessAssumption, ProcIInv, NEW o \in Objects, prefs[o] = 0
  PROVE  P!Holders(o) = {}
BY HoldersFinite, FS_EmptySet, SameProcCount DEF ProcIInv, P!RefsExact

LEMMA ForkGroupStep ==
  ASSUME P!ProcessAssumption, ProcIInv, NEW q \in Threads, NEW k \in Kinds, P!ForkGroup(q, k)
  PROVE  ProcIInv'
<1> DEFINE c == new[q]
<1>1. PICK o \in Objects : /\ o = group[q][k] \/ prefs[o] = 0
                           /\ prefs' = [prefs EXCEPT ![o] = @ + 1]
                           /\ group' = [group EXCEPT ![c][k] = o]
  BY DEF P!ForkGroup
<1>2. c \in Threads /\ group[c][k] = None /\ UNCHANGED <<pc, new>>
  BY DEF P!ForkGroup, P!At, ProcIInv, ForkerInv
<1> HIDE DEF c
<1>3. /\ \A p \in Threads : \A j \in Kinds :
           group'[p][j] = IF p = c /\ j = k THEN o ELSE group[p][j]
      /\ group' \in [Threads -> [Kinds -> Objects \cup {None}]]
  BY <1>1, <1>2 DEF ProcIInv, ProcTypeInv
<1>4. \A p \in Threads : \A j \in Kinds : group[p][j] = o => j = k
  <2>1. CASE o = group[q][k]
    BY <2>1 DEF ProcIInv, ProcKindInv, P!ProcessAssumption
  <2>2. CASE prefs[o] = 0
    BY <2>2, Unheld DEF P!Holders
  <2> QED BY <1>1, <2>1, <2>2
<1>5. ProcTypeInv' /\ ForkerInv'
  BY <1>1, <1>2, <1>3 DEF ProcIInv, ProcTypeInv, ForkerInv
<1>6. ProcKindInv'
  BY <1>2, <1>3, <1>4 DEF ProcIInv, ProcKindInv
<1>7. ASSUME NEW x \in Objects PROVE prefs'[x] = Cardinality(P!Holders(x)')
  <2>1. CASE x = o
    <3>1. P!Holders(x)' = P!Holders(x) \cup {c}
      BY <1>2, <1>3, <2>1 DEF P!Holders
    <3>2. c \notin P!Holders(x)
      BY <1>2, <1>4, <2>1 DEF P!Holders, P!ProcessAssumption
    <3>3. Cardinality(P!Holders(x)') = Cardinality(P!Holders(x)) + 1
      BY <3>1, <3>2, HoldersFinite, FS_AddElement
    <3> QED BY <1>1, <2>1, <3>3, SameProcCount DEF ProcIInv, ProcTypeInv, P!RefsExact
  <2>2. CASE x # o
    <3>1. P!Holders(x)' = P!Holders(x)
      <4>1. \A p \in Threads, j \in Kinds : group'[p][j] = x <=> group[p][j] = x
        BY <1>2, <1>3, <2>2 DEF P!ProcessAssumption
      <4> QED BY <4>1 DEF P!Holders
    <3> QED BY <1>1, <2>2, <3>1, SameProcCount DEF ProcIInv, ProcTypeInv, P!RefsExact
  <2> QED BY <2>1, <2>2
<1> QED BY <1>5, <1>6, <1>7, SameProcCount DEF ProcIInv, P!RefsExact

LEMMA ExitGroupStep ==
  ASSUME P!ProcessAssumption, ProcIInv, NEW q \in Threads, NEW k \in Kinds, P!ExitGroup(q, k)
  PROVE  ProcIInv'
<1> DEFINE o == group[q][k]
<1>1. /\ o # None /\ UNCHANGED new /\ pc' = [pc EXCEPT ![q] = "exit"]
      /\ prefs' = [prefs EXCEPT ![o] = @ - 1]
      /\ group' = [group EXCEPT ![q][k] = None]
  BY DEF P!ExitGroup, P!Goto
<1>2. o \in Objects
  BY <1>1 DEF ProcIInv, ProcTypeInv
<1>3. /\ \A p \in Threads : \A j \in Kinds :
           group'[p][j] = IF p = q /\ j = k THEN None ELSE group[p][j]
      /\ group' \in [Threads -> [Kinds -> Objects \cup {None}]]
  BY <1>1 DEF ProcIInv, ProcTypeInv
<1>4. \A p \in Threads : \A j \in Kinds : group[p][j] = o => j = k
  BY <1>1 DEF ProcIInv, ProcKindInv
<1>5. ProcTypeInv' /\ ForkerInv' /\ q \in P!Holders(o)
  <2>1. prefs' \in [Objects -> Int]
    BY <1>1, <1>2 DEF ProcIInv, ProcTypeInv
  <2>2. pc' \in [Threads -> ProcLabels] /\ ForkerInv'
    BY <1>1 DEF ProcIInv, ProcTypeInv, ForkerInv, ProcLabels
  <2>3. new' \in [Threads -> Threads \cup {None}]
    BY <1>1 DEF ProcIInv, ProcTypeInv
  <2>4. q \in P!Holders(o)
    BY DEF P!Holders
  <2> QED BY <1>3, <2>1, <2>2, <2>3, <2>4 DEF ProcTypeInv
<1> HIDE DEF o
<1>6. ProcKindInv'
  BY <1>3 DEF ProcIInv, ProcKindInv
<1>7. ASSUME NEW x \in Objects PROVE prefs'[x] = Cardinality(P!Holders(x)')
  <2>1. CASE x = o
    <3>1. P!Holders(x)' = P!Holders(x) \ {q}
      BY <1>2, <1>3, <1>4, <2>1 DEF P!Holders, P!ProcessAssumption
    <3>2. Cardinality(P!Holders(x)') = Cardinality(P!Holders(x)) - 1
      BY <1>5, <2>1, <3>1, HoldersFinite, FS_RemoveElement
    <3> QED BY <1>1, <2>1, <3>2, SameProcCount DEF ProcIInv, ProcTypeInv, P!RefsExact
  <2>2. CASE x # o
    <3>1. P!Holders(x)' = P!Holders(x)
      <4>1. \A p \in Threads, j \in Kinds : group'[p][j] = x <=> group[p][j] = x
        BY <1>3, <2>2 DEF P!ProcessAssumption, o
      <4> QED BY <4>1 DEF P!Holders
    <3> QED BY <1>1, <1>2, <2>2, <3>1, SameProcCount DEF ProcIInv, ProcTypeInv, P!RefsExact
  <2> QED BY <2>1, <2>2
<1> QED BY <1>5, <1>6, <1>7, SameProcCount DEF ProcIInv, P!RefsExact

(* The other steps leave groups and references alone.                      *)
LEMMA ProcOther ==
  ASSUME ProcIInv, UNCHANGED <<group, prefs>>, ForkerInv',
         pc' \in [Threads -> ProcLabels], new' \in [Threads -> Threads \cup {None}]
  PROVE  ProcIInv'
<1>1. \A o : P!Holders(o)' = P!Holders(o)
  BY DEF P!Holders
<1> QED BY <1>1 DEF ProcIInv, ProcTypeInv, ProcKindInv, P!RefsExact

LEMMA ProcNext ==
  ASSUME P!ProcessAssumption, ProcIInv, [P!Next]_(P!vars)
  PROVE  ProcIInv'
<1>1. CASE UNCHANGED P!vars
  BY <1>1, ProcOther DEF P!vars, ProcIInv, ProcTypeInv, ForkerInv
<1>2. ASSUME NEW q \in Threads, P!ForkNew(q) PROVE ProcIInv'
  <2>1. PICK c \in Threads : /\ new' = [new EXCEPT ![q] = c] /\ pc' = [pc EXCEPT ![q] = "groups"]
                             /\ UNCHANGED <<group, prefs>>
    BY <1>2 DEF P!ForkNew, P!Goto
  <2>2. ForkerInv' /\ pc' \in [Threads -> ProcLabels] /\ new' \in [Threads -> Threads \cup {None}]
    BY <2>1 DEF ProcIInv, ProcTypeInv, ForkerInv, ProcLabels
  <2> QED BY <2>1, <2>2, ProcOther
<1>3. ASSUME NEW q \in Threads, P!ForkRefused(q) \/ P!ForkStart(q) PROVE ProcIInv'
  <2>1. /\ new' = [new EXCEPT ![q] = None] /\ pc' = [pc EXCEPT ![q] = "user"]
        /\ UNCHANGED <<group, prefs>>
    BY <1>3 DEF P!ForkRefused, P!ForkStart, P!Goto
  <2>2. ForkerInv' /\ pc' \in [Threads -> ProcLabels] /\ new' \in [Threads -> Threads \cup {None}]
    BY <2>1 DEF ProcIInv, ProcTypeInv, ForkerInv, ProcLabels
  <2> QED BY <2>1, <2>2, ProcOther
<1>4. ASSUME NEW q \in Threads, P!ForkLink(q) PROVE ProcIInv'
  <2>1. /\ pc[q] = "groups" /\ pc' = [pc EXCEPT ![q] = "start"]
        /\ UNCHANGED <<new, group, prefs>>
    BY <1>4 DEF P!ForkLink, P!At, P!Goto
  <2>2. ForkerInv' /\ pc' \in [Threads -> ProcLabels] /\ new' \in [Threads -> Threads \cup {None}]
    BY <2>1 DEF ProcIInv, ProcTypeInv, ForkerInv, ProcLabels
  <2> QED BY <2>1, <2>2, ProcOther
<1>5. ASSUME NEW q \in Threads,
             \/ P!ExitDead(q) \/ P!ExitFree(q)
             \/ P!WaitDead(q) \/ P!WaitNone(q) \/ P!WaitSleep(q) \/ P!WaitPop(q)
      PROVE  ProcIInv'
  <2>1. PICK l \in {"user", "children?", "pop", "sleep", "exit"} :
          pc' = [pc EXCEPT ![q] = l] /\ UNCHANGED <<new, group, prefs>>
    BY <1>5 DEF P!ExitDead, P!ExitFree, P!WaitDead, P!WaitNone, P!WaitSleep, P!WaitPop, P!Goto
  <2>2. ForkerInv' /\ pc' \in [Threads -> ProcLabels] /\ new' \in [Threads -> Threads \cup {None}]
    BY <2>1 DEF ProcIInv, ProcTypeInv, ForkerInv, ProcLabels
  <2> QED BY <2>1, <2>2, ProcOther
<1> QED BY <1>1, <1>2, <1>3, <1>4, <1>5, ForkGroupStep, ExitGroupStep DEF P!Next

(* Lists without repetition, and what pushing, joining, popping and        *)
(* unlinking do to what is on them.                                        *)
Once(s) == \A i, j \in 1..Len(s) : s[i] = s[j] => i = j

LEMMA ListEmpty == /\ Once(<<>>) /\ \A e : ~P!Contains(<<>>, e)
                   /\ \A S : <<>> \in Seq(S)
BY DEF Once, P!Contains

LEMMA ListPush ==
  ASSUME NEW S, NEW s \in Seq(S), NEW e \in S
  PROVE  /\ <<e>> \o s \in Seq(S)
         /\ \A x : P!Contains(<<e>> \o s, x) <=> x = e \/ P!Contains(s, x)
         /\ Once(s) /\ ~P!Contains(s, e) => Once(<<e>> \o s)
<1> DEFINE t == <<e>> \o s
<1>1. /\ t \in Seq(S) /\ Len(t) = Len(s) + 1 /\ Len(s) \in Nat /\ t[1] = e
      /\ \A i \in 2..Len(s) + 1 : t[i] = s[i - 1]
  <2>1. <<e>> \in Seq(S) /\ Len(<<e>>) = 1 /\ <<e>>[1] = e
    OBVIOUS
  <2> QED BY <2>1, ConcatProperties, LenProperties
<1>2. \A i \in 1..Len(s) : t[i + 1] = s[i]
  BY <1>1
<1> HIDE DEF t
<1>3. \A x : P!Contains(t, x) <=> x = e \/ P!Contains(s, x)
  <2> TAKE x
  <2>1. ASSUME P!Contains(t, x) PROVE x = e \/ P!Contains(s, x)
    <3>1. PICK i \in 1..Len(t) : t[i] = x
      BY <2>1 DEF P!Contains
    <3>2. i = 1 \/ (i - 1 \in 1..Len(s) /\ s[i - 1] = x)
      BY <1>1, <3>1
    <3> QED BY <1>1, <3>1, <3>2 DEF P!Contains
  <2>2. ASSUME x = e \/ P!Contains(s, x) PROVE P!Contains(t, x)
    <3>1. CASE x = e
      <4>1. 1 \in 1..Len(t) /\ t[1] = x
        BY <1>1, <3>1
      <4> QED BY <4>1 DEF P!Contains
    <3>2. CASE P!Contains(s, x)
      <4>1. PICK i \in 1..Len(s) : s[i] = x
        BY <3>2 DEF P!Contains
      <4>2. i + 1 \in 1..Len(t) /\ t[i + 1] = x
        BY <1>1, <1>2, <4>1
      <4> QED BY <4>2 DEF P!Contains
    <3> QED BY <2>2, <3>1, <3>2
  <2> QED BY <2>1, <2>2
<1>4. ASSUME Once(s), ~P!Contains(s, e), NEW i \in 1..Len(t), NEW j \in 1..Len(t), t[i] = t[j]
      PROVE  i = j
  <2>1. /\ i = 1 \/ (i - 1 \in 1..Len(s) /\ t[i] = s[i - 1])
        /\ j = 1 \/ (j - 1 \in 1..Len(s) /\ t[j] = s[j - 1])
    BY <1>1
  <2> QED BY <1>1, <1>4, <2>1 DEF Once, P!Contains
<1> QED BY <1>1, <1>3, <1>4 DEF Once, t

LEMMA ListConcat ==
  ASSUME NEW S, NEW s \in Seq(S), NEW t \in Seq(S)
  PROVE  /\ s \o t \in Seq(S)
         /\ \A x : P!Contains(s \o t, x) <=> P!Contains(s, x) \/ P!Contains(t, x)
         /\ Once(s) /\ Once(t) /\ (\A x \in S : ~(P!Contains(s, x) /\ P!Contains(t, x))) => Once(s \o t)
<1> DEFINE u == s \o t
<1>1. /\ u \in Seq(S) /\ Len(u) = Len(s) + Len(t) /\ Len(s) \in Nat /\ Len(t) \in Nat
      /\ \A i \in 1..Len(s) + Len(t) : u[i] = IF i <= Len(s) THEN s[i] ELSE t[i - Len(s)]
  BY ConcatProperties, LenProperties
<1> HIDE DEF u
<1>2. \A i \in 1..Len(u) : \/ i \in 1..Len(s) /\ u[i] = s[i]
                           \/ i - Len(s) \in 1..Len(t) /\ u[i] = t[i - Len(s)] /\ i > Len(s)
  BY <1>1
<1>3. /\ \A i \in 1..Len(s) : i \in 1..Len(u) /\ u[i] = s[i]
      /\ \A i \in 1..Len(t) : i + Len(s) \in 1..Len(u) /\ u[i + Len(s)] = t[i]
  <2>1. ASSUME NEW i \in 1..Len(s) PROVE i \in 1..Len(u) /\ u[i] = s[i]
    BY <1>1
  <2>2. ASSUME NEW i \in 1..Len(t) PROVE i + Len(s) \in 1..Len(u) /\ u[i + Len(s)] = t[i]
    <3>1. i + Len(s) \in 1..Len(s) + Len(t) /\ ~(i + Len(s) <= Len(s)) /\ i + Len(s) - Len(s) = i
      BY <1>1
    <3> QED BY <1>1, <3>1
  <2> QED BY <2>1, <2>2
<1>4. \A x : P!Contains(u, x) <=> P!Contains(s, x) \/ P!Contains(t, x)
  <2> TAKE x
  <2>1. P!Contains(u, x) => P!Contains(s, x) \/ P!Contains(t, x)
    BY <1>2 DEF P!Contains
  <2>2. P!Contains(s, x) \/ P!Contains(t, x) => P!Contains(u, x)
    BY <1>3 DEF P!Contains
  <2> QED BY <2>1, <2>2
<1>5. ASSUME Once(s), Once(t), \A x \in S : ~(P!Contains(s, x) /\ P!Contains(t, x)),
             NEW i \in 1..Len(u), NEW j \in 1..Len(u), u[i] = u[j]
      PROVE  i = j
  <2>1. u[i] \in S /\ i \in Int /\ j \in Int
    BY <1>1, ElementOfSeq
  <2>2. CASE i \in 1..Len(s) /\ j \in 1..Len(s)
    BY <1>3, <1>5, <2>2 DEF Once
  <2>3. CASE i - Len(s) \in 1..Len(t) /\ j - Len(s) \in 1..Len(t) /\ i > Len(s) /\ j > Len(s)
    <3>1. i - Len(s) = j - Len(s)
      BY <1>1, <1>5, <2>3 DEF Once
    <3> QED BY <1>1, <2>1, <3>1
  <2>4. ~(i \in 1..Len(s) /\ u[i] = s[i] /\ j - Len(s) \in 1..Len(t) /\ u[j] = t[j - Len(s)])
    BY <1>5, <2>1 DEF P!Contains
  <2>5. ~(j \in 1..Len(s) /\ u[j] = s[j] /\ i - Len(s) \in 1..Len(t) /\ u[i] = t[i - Len(s)])
    BY <1>5, <2>1 DEF P!Contains
  <2> QED BY <1>2, <2>2, <2>3, <2>4, <2>5
<1> QED BY <1>1, <1>4, <1>5 DEF Once, u

LEMMA ListPop ==
  ASSUME NEW S, NEW s \in Seq(S), s # <<>>, Once(s)
  PROVE  /\ Tail(s) \in Seq(S) /\ Head(s) \in S /\ P!Contains(s, Head(s)) /\ Once(Tail(s))
         /\ \A x : P!Contains(Tail(s), x) <=> P!Contains(s, x) /\ x # Head(s)
<1>1. /\ Tail(s) \in Seq(S) /\ Head(s) \in S /\ Len(s) \in Nat \ {0} /\ Len(Tail(s)) = Len(s) - 1
      /\ \A i \in 1..Len(s) - 1 : Tail(s)[i] = s[i + 1]
  BY HeadTailProperties, LenProperties, EmptySeq
<1>2. Head(s) = s[1]
  OBVIOUS
<1> DEFINE t == Tail(s)
<1>3. Once(t)
  BY <1>1 DEF Once
<1>4. ASSUME NEW x PROVE P!Contains(t, x) <=> P!Contains(s, x) /\ x # Head(s)
  <2>1. ASSUME P!Contains(t, x) PROVE P!Contains(s, x) /\ x # Head(s)
    <3>1. PICK i \in 1..Len(s) - 1 : t[i] = x
      BY <1>1, <2>1 DEF P!Contains
    <3>2. i + 1 \in 1..Len(s) /\ s[i + 1] = x /\ i + 1 # 1 /\ 1 \in 1..Len(s)
      BY <1>1, <3>1
    <3> QED BY <1>2, <3>2 DEF P!Contains, Once
  <2>2. ASSUME P!Contains(s, x), x # Head(s) PROVE P!Contains(t, x)
    <3>1. PICK i \in 1..Len(s) : s[i] = x
      BY <2>2 DEF P!Contains
    <3>2. i - 1 \in 1..Len(t) /\ t[i - 1] = x
      BY <1>1, <1>2, <2>2, <3>1
    <3> QED BY <3>2 DEF P!Contains
  <2> QED BY <2>1, <2>2
<1>5. P!Contains(s, Head(s))
  BY <1>1, <1>2 DEF P!Contains
<1> QED BY <1>1, <1>3, <1>4, <1>5

LEMMA ListRemove ==
  ASSUME NEW S, NEW s \in Seq(S), NEW e \in S, Once(s), P!Contains(s, e)
  PROVE  /\ P!RemoveFirst(s, e) \in Seq(S) /\ Once(P!RemoveFirst(s, e))
         /\ \A x : P!Contains(P!RemoveFirst(s, e), x) <=> P!Contains(s, x) /\ x # e
<1>1. PICK k \in 1..Len(s) : s[k] = e
  BY DEF P!Contains
<1>2. {i \in 1..Len(s) : s[i] = e} = {k} /\ k \in Nat /\ Len(s) \in Nat
  BY <1>1, LenProperties DEF Once
<1>3. P!SelectInSeq(s, LAMBDA v : v = e) = k
  <2>1. P!Min({k}) = k
    BY <1>2 DEF P!Min
  <2> QED BY <1>2, <2>1 DEF P!SelectInSeq
<1>4. P!RemoveFirst(s, e) = SubSeq(s, 1, k - 1) \o SubSeq(s, k + 1, Len(s))
  BY <1>1, <1>3 DEF P!RemoveFirst, P!RemoveAt
<1> DEFINE a == SubSeq(s, 1, k - 1)
           b == SubSeq(s, k + 1, Len(s))
<1>5. /\ a \in Seq(S) /\ Len(a) = k - 1 /\ \A i \in 1..k - 1 : a[i] = s[i]
      /\ b \in Seq(S) /\ Len(b) = Len(s) - k /\ \A i \in 1..Len(s) - k : b[i] = s[i + k]
  <2>1. \A i \in 1..Len(s) : s[i] \in S
    BY ElementOfSeq
  <2>2. /\ a \in Seq(S) /\ Len(a) = IF 1 <= k - 1 THEN k - 1 - 1 + 1 ELSE 0
        /\ \A i \in 1..(k - 1 - 1 + 1) : a[i] = s[1 + i - 1]
    BY <1>2, <2>1, SubSeqProperties
  <2>3. /\ b \in Seq(S) /\ Len(b) = IF k + 1 <= Len(s) THEN Len(s) - (k + 1) + 1 ELSE 0
        /\ \A i \in 1..(Len(s) - (k + 1) + 1) : b[i] = s[k + 1 + i - 1]
    BY <1>2, <2>1, SubSeqProperties
  <2> QED BY <1>1, <1>2, <2>2, <2>3
<1> HIDE DEF a, b
<1>6. Once(a) /\ Once(b)
  <2>1. ASSUME NEW i \in 1..Len(a), NEW j \in 1..Len(a), a[i] = a[j] PROVE i = j
    <3>1. i \in 1..Len(s) /\ j \in 1..Len(s) /\ s[i] = s[j]
      BY <1>2, <1>5, <2>1
    <3> QED BY <3>1 DEF Once
  <2>2. ASSUME NEW i \in 1..Len(b), NEW j \in 1..Len(b), b[i] = b[j] PROVE i = j
    <3>1. i + k \in 1..Len(s) /\ j + k \in 1..Len(s) /\ s[i + k] = s[j + k]
      BY <1>2, <1>5, <2>2
    <3>2. i + k = j + k
      BY <3>1 DEF Once
    <3> QED BY <1>2, <3>2
  <2> QED BY <2>1, <2>2 DEF Once
<1>7. \A x : P!Contains(a, x) \/ P!Contains(b, x) <=> P!Contains(s, x) /\ x # e
  <2> TAKE x
  <2>1. ASSUME P!Contains(s, x), x # e PROVE P!Contains(a, x) \/ P!Contains(b, x)
    <3>1. PICK i \in 1..Len(s) : s[i] = x
      BY <2>1 DEF P!Contains
    <3>2. \/ i \in 1..Len(a) /\ a[i] = x
          \/ i - k \in 1..Len(b) /\ b[i - k] = x
      BY <1>1, <1>2, <1>5, <2>1, <3>1
    <3> QED BY <3>2 DEF P!Contains
  <2>2. ASSUME P!Contains(a, x) PROVE P!Contains(s, x) /\ x # e
    <3>1. PICK i \in 1..k - 1 : a[i] = x
      BY <1>5, <2>2 DEF P!Contains
    <3>2. i \in 1..Len(s) /\ s[i] = x /\ i # k
      BY <1>2, <1>5, <3>1
    <3> QED BY <1>1, <3>2 DEF P!Contains, Once
  <2>3. ASSUME P!Contains(b, x) PROVE P!Contains(s, x) /\ x # e
    <3>1. PICK i \in 1..Len(s) - k : b[i] = x
      BY <1>5, <2>3 DEF P!Contains
    <3>2. i + k \in 1..Len(s) /\ s[i + k] = x /\ i + k # k
      BY <1>2, <1>5, <3>1
    <3> QED BY <1>1, <3>2 DEF P!Contains, Once
  <2> QED BY <2>1, <2>2, <2>3
<1>8. ASSUME NEW x \in S PROVE ~(P!Contains(a, x) /\ P!Contains(b, x))
  <2>1. ASSUME NEW i \in 1..Len(a), a[i] = x, NEW j \in 1..Len(b), b[j] = x PROVE FALSE
    <3>1. i \in 1..Len(s) /\ s[i] = x /\ j + k \in 1..Len(s) /\ s[j + k] = x /\ i # j + k
      BY <1>2, <1>5, <2>1
    <3> QED BY <3>1 DEF Once
  <2> QED BY <2>1 DEF P!Contains
<1>9. /\ a \o b \in Seq(S) /\ Once(a \o b)
      /\ \A x : P!Contains(a \o b, x) <=> P!Contains(a, x) \/ P!Contains(b, x)
  BY <1>5, <1>6, <1>8, ListConcat
<1>10. P!RemoveFirst(s, e) = a \o b
  BY <1>4 DEF a, b
<1> QED BY <1>7, <1>9, <1>10
-----------------------------------------------------------------------------
(* FamilySound.  The lists of one process hold different processes because *)
(* who is on the one is alive and who is on the other is dead; a process   *)
(* that is being made is in no family yet; and no process descends from    *)
(* itself, so whoever exits is not its own parent's parent.                *)
FamilyTypes == /\ state \in [Threads -> P!States] /\ parent \in [Threads -> Threads \cup {None}]
               /\ children \in [Threads -> Seq(Threads)] /\ deadchildren \in [Threads -> Seq(Threads)]
OnceInv == \A q \in Threads : Once(children[q]) /\ Once(deadchildren[q])
MemberInv == \A q, c \in Threads :
               /\ P!Contains(children[q], c) => parent[c] = q /\ state[c] \notin {"free", "dead"}
               /\ P!Contains(deadchildren[q], c) => parent[c] = q /\ state[c] = "dead"
               /\ parent[c] = q => P!Contains(children[q], c) \/ P!Contains(deadchildren[q], c)
EmptyInv == \A q \in Threads :
              /\ state[q] \in {"free", "suspend", "dead"} => children[q] = <<>>
              /\ state[q] \in {"free", "suspend"} => deadchildren[q] = <<>>
Forking(q) == pc[q] \in {"groups", "start"}
ForkInv == \A q \in Threads : Forking(q) =>
             /\ state[new[q]] = "suspend" /\ (pc[q] = "groups" => parent[new[q]] = None)
             /\ \A r \in Threads : Forking(r) /\ new[r] = new[q] => r = q
Descend(rank) == \A c \in Threads : parent[c] # None => rank[parent[c]] < rank[c]
RankInv == \E rank \in [Threads -> Nat] : Descend(rank)
FamilyInv == FamilyTypes /\ OnceInv /\ MemberInv /\ EmptyInv /\ ForkInv /\ RankInv

LEMMA FamilyHolds == ASSUME FamilyInv PROVE P!FamilySound
<1>1. ASSUME NEW q \in Threads
      PROVE  /\ P!IsInjective(P!Listed(q))
             /\ \A c : P!Contains(P!Listed(q), c) <=> P!Contains(children[q], c) \/ P!Contains(deadchildren[q], c)
  <2>1. children[q] \in Seq(Threads) /\ deadchildren[q] \in Seq(Threads)
    BY DEF FamilyInv, FamilyTypes
  <2>2. \A c \in Threads : ~(P!Contains(children[q], c) /\ P!Contains(deadchildren[q], c))
    BY DEF FamilyInv, MemberInv
  <2>3. /\ P!Listed(q) \in Seq(Threads) /\ Once(P!Listed(q))
        /\ \A c : P!Contains(P!Listed(q), c) <=> P!Contains(children[q], c) \/ P!Contains(deadchildren[q], c)
    BY <2>1, <2>2, ListConcat DEF P!Listed, FamilyInv, OnceInv
  <2> QED BY <2>3, LenProperties DEF P!IsInjective, Once
<1> QED BY <1>1 DEF P!FamilySound, FamilyInv, MemberInv

LEMMA InitFamily == P!ProcessAssumption /\ P!Init => FamilyInv
<1> SUFFICES ASSUME P!ProcessAssumption, P!Init PROVE FamilyInv
  OBVIOUS
<1>1. FamilyTypes
  BY ListEmpty DEF P!Init, FamilyTypes, P!States
<1>2. OnceInv /\ MemberInv /\ EmptyInv
  BY ListEmpty DEF P!Init, OnceInv, MemberInv, EmptyInv, P!ProcessAssumption
<1>3. ForkInv
  BY DEF P!Init, ForkInv, Forking
<1>4. RankInv
  <2>1. [c \in Threads |-> 0] \in [Threads -> Nat] /\ Descend([c \in Threads |-> 0])
    BY DEF P!Init, Descend
  <2> QED BY <2>1 DEF RankInv
<1> QED BY <1>1, <1>2, <1>3, <1>4 DEF FamilyInv

(* A step that changes no list and no parent.                              *)
LEMMA QuietFamily ==
  ASSUME FamilyInv, ForkInv', UNCHANGED <<parent, children, deadchildren>>,
         state' \in [Threads -> P!States],
         \A c \in Threads : /\ state'[c] = "dead" <=> state[c] = "dead"
                            /\ state'[c] = "free" => state[c] = "free"
                            /\ state'[c] = "suspend" => state[c] \in {"free", "suspend"}
  PROVE  FamilyInv'
<1>1. FamilyTypes' /\ OnceInv' /\ RankInv'
  BY DEF FamilyInv, FamilyTypes, OnceInv, RankInv, Descend
<1>2. MemberInv'
  BY DEF FamilyInv, MemberInv
<1>3. EmptyInv'
  BY DEF FamilyInv, EmptyInv
<1> QED BY <1>1, <1>2, <1>3 DEF FamilyInv

(* A process that goes elsewhere is no longer forking; the others are, as  *)
(* long as nothing happens to the processes they make.                     *)
LEMMA ForkLeaves ==
  ASSUME ProcIInv, FamilyInv, NEW q \in Threads, NEW l \in ProcLabels \ {"groups", "start"},
         pc' = [pc EXCEPT ![q] = l], \A r \in Threads \ {q} : new'[r] = new[r],
         \A r \in Threads \ {q} : Forking(r) =>
           state'[new[r]] = "suspend" /\ (parent[new[r]] = None => parent'[new[r]] = None)
  PROVE  ForkInv'
<1>1. \A r \in Threads : pc'[r] = IF r = q THEN l ELSE pc[r]
  BY DEF ProcIInv, ProcTypeInv
<1>2. \A r \in Threads : Forking(r)' => r # q /\ Forking(r) /\ pc'[r] = pc[r]
  BY <1>1 DEF Forking
<1> QED BY <1>2 DEF FamilyInv, ForkInv

LEMMA ForkNewFamily ==
  ASSUME P!ProcessAssumption, ProcIInv, FamilyInv, NEW q \in Threads, P!ForkNew(q)
  PROVE  FamilyInv'
<1>1. PICK c \in Threads : /\ state[c] = "free" /\ state' = [state EXCEPT ![c] = "suspend"]
                           /\ new' = [new EXCEPT ![q] = c] /\ pc' = [pc EXCEPT ![q] = "groups"]
                           /\ UNCHANGED <<parent, children, deadchildren>>
  BY DEF P!ForkNew, P!Goto
<1>2. /\ state' \in [Threads -> P!States]
      /\ \A r \in Threads : /\ state'[r] = IF r = c THEN "suspend" ELSE state[r]
                            /\ new'[r] = IF r = q THEN c ELSE new[r]
                            /\ pc'[r] = IF r = q THEN "groups" ELSE pc[r]
  BY <1>1 DEF FamilyInv, FamilyTypes, ProcIInv, ProcTypeInv, P!States
<1>3. parent[c] = None
  BY <1>1 DEF FamilyInv, FamilyTypes, MemberInv
<1>4. \A r \in Threads : Forking(r) => new[r] \in Threads /\ new[r] # c
  BY <1>1 DEF FamilyInv, ForkInv, Forking, ProcIInv, ForkerInv
<1>5. ForkInv'
  <2>1. \A r \in Threads : Forking(r)' => r = q \/ (r # q /\ Forking(r) /\ pc'[r] = pc[r])
    BY <1>2 DEF Forking
  <2> QED BY <1>1, <1>2, <1>3, <1>4, <2>1 DEF FamilyInv, ForkInv
<1> QED BY <1>1, <1>2, <1>5, QuietFamily

LEMMA PlainFamily ==
  ASSUME P!ProcessAssumption, ProcIInv, FamilyInv, NEW q \in Threads,
         \/ P!ForkRefused(q) \/ P!ForkStart(q) \/ P!WaitDead(q) \/ P!WaitNone(q) \/ P!WaitSleep(q)
         \/ \E k \in Kinds : P!ForkGroup(q, k) \/ P!ExitGroup(q, k)
  PROVE  FamilyInv'
<1>1. UNCHANGED <<parent, children, deadchildren>> /\ state[q] = "run"
  BY DEF P!ForkRefused, P!ForkStart, P!WaitDead, P!WaitNone, P!WaitSleep, P!ForkGroup, P!ExitGroup, P!At
<1>2. \A r \in Threads : Forking(r) => new[r] \in Threads /\ new[r] # q
  BY <1>1 DEF FamilyInv, ForkInv, Forking, ProcIInv, ForkerInv
<1>3. state \in [Threads -> P!States]
  BY DEF FamilyInv, FamilyTypes
<1>4. ASSUME NEW k \in Kinds, P!ForkGroup(q, k) PROVE FamilyInv'
  <2>1. UNCHANGED <<state, pc, new>>
    BY <1>4 DEF P!ForkGroup
  <2>2. ForkInv'
    BY <1>1, <2>1 DEF FamilyInv, ForkInv, Forking
  <2> QED BY <1>1, <1>3, <2>1, <2>2, QuietFamily
<1>5. ASSUME NEW k \in Kinds, P!ExitGroup(q, k) PROVE FamilyInv'
  <2>1. UNCHANGED <<state, new>> /\ pc' = [pc EXCEPT ![q] = "exit"] /\ "exit" \in ProcLabels \ {"groups", "start"}
    BY <1>5 DEF P!ExitGroup, P!Goto, ProcLabels
  <2>2. ForkInv'
    BY <1>1, <2>1, ForkLeaves DEF FamilyInv, ForkInv
  <2> QED BY <1>1, <1>3, <2>1, <2>2, QuietFamily
<1>6. CASE P!ForkRefused(q)
  <2>1. /\ UNCHANGED state /\ pc' = [pc EXCEPT ![q] = "user"] /\ "user" \in ProcLabels \ {"groups", "start"}
        /\ \A r \in Threads \ {q} : new'[r] = new[r]
    BY <1>6 DEF P!ForkRefused, P!Goto, ProcLabels, ProcIInv, ProcTypeInv
  <2>2. ForkInv'
    BY <1>1, <2>1, ForkLeaves DEF FamilyInv, ForkInv
  <2> QED BY <1>1, <1>3, <2>1, <2>2, QuietFamily
<1>7. CASE P!ForkStart(q)
  <2>1. /\ state' = [state EXCEPT ![new[q]] = "run"] /\ Forking(q)
        /\ pc' = [pc EXCEPT ![q] = "user"] /\ "user" \in ProcLabels \ {"groups", "start"}
        /\ \A r \in Threads \ {q} : new'[r] = new[r]
    BY <1>7 DEF P!ForkStart, P!Goto, P!At, Forking, ProcLabels, ProcIInv, ProcTypeInv
  <2>2. new[q] \in Threads /\ state[new[q]] = "suspend"
    BY <1>2, <2>1 DEF FamilyInv, ForkInv
  <2>3. state' \in [Threads -> P!States] /\ \A c \in Threads : state'[c] = IF c = new[q] THEN "run" ELSE state[c]
    BY <1>3, <2>1, <2>2 DEF P!States
  <2>4. \A r \in Threads \ {q} : Forking(r) => state'[new[r]] = "suspend"
    BY <1>2, <2>1, <2>3 DEF FamilyInv, ForkInv
  <2>5. ForkInv'
    BY <1>1, <2>1, <2>4, ForkLeaves
  <2> QED BY <1>1, <2>2, <2>3, <2>5, QuietFamily
<1>8. CASE P!WaitDead(q) \/ P!WaitNone(q)
  <2>1. PICK l \in ProcLabels \ {"groups", "start"} : UNCHANGED <<state, new>> /\ pc' = [pc EXCEPT ![q] = l]
    BY <1>8 DEF P!WaitDead, P!WaitNone, P!Goto, ProcLabels
  <2>2. ForkInv'
    BY <1>1, <2>1, ForkLeaves DEF FamilyInv, ForkInv
  <2> QED BY <1>1, <1>3, <2>1, <2>2, QuietFamily
<1>9. CASE P!WaitSleep(q)
  <2>1. /\ state' = [state EXCEPT ![q] = "waitchild"] /\ UNCHANGED new
        /\ pc' = [pc EXCEPT ![q] = "pop"] /\ "pop" \in ProcLabels \ {"groups", "start"}
    BY <1>9 DEF P!WaitSleep, P!Goto, ProcLabels
  <2>2. state' \in [Threads -> P!States] /\ \A c \in Threads : state'[c] = IF c = q THEN "waitchild" ELSE state[c]
    BY <1>3, <2>1 DEF P!States
  <2>3. ForkInv'
    BY <1>1, <1>2, <2>1, <2>2, ForkLeaves DEF FamilyInv, ForkInv
  <2> QED BY <1>1, <2>2, <2>3, QuietFamily
<1> QED BY <1>4, <1>5, <1>6, <1>7, <1>8, <1>9
(* The new process enters the family of the one that made it.              *)
LEMMA ForkLinkFamily ==
  ASSUME P!ProcessAssumption, ProcIInv, FamilyInv, NEW q \in Threads, P!ForkLink(q)
  PROVE  FamilyInv'
<1> DEFINE c == new[q]
<1>1. /\ state[q] = "run" /\ pc[q] = "groups" /\ pc' = [pc EXCEPT ![q] = "start"]
      /\ parent' = [parent EXCEPT ![c] = q] /\ children' = [children EXCEPT ![q] = <<c>> \o @]
      /\ UNCHANGED <<state, new, deadchildren>>
  BY DEF P!ForkLink, P!At, P!Goto
<1>2. c \in Threads /\ state[c] = "suspend" /\ parent[c] = None /\ c # q /\ None \notin Threads
  BY <1>1 DEF FamilyInv, ForkInv, Forking, ProcIInv, ForkerInv, P!ProcessAssumption
<1> HIDE DEF c
<1>3. children[q] \in Seq(Threads) /\ ~P!Contains(children[q], c)
  BY <1>2 DEF FamilyInv, FamilyTypes, MemberInv
<1>4. /\ <<c>> \o children[q] \in Seq(Threads) /\ Once(<<c>> \o children[q])
      /\ \A x : P!Contains(<<c>> \o children[q], x) <=> x = c \/ P!Contains(children[q], x)
  BY <1>2, <1>3, ListPush DEF FamilyInv, OnceInv
<1>5. \A x \in Threads : /\ parent'[x] = IF x = c THEN q ELSE parent[x]
                         /\ children'[x] = IF x = q THEN <<c>> \o children[q] ELSE children[x]
                         /\ pc'[x] = IF x = q THEN "start" ELSE pc[x]
  BY <1>1, <1>2 DEF FamilyInv, FamilyTypes, ProcIInv, ProcTypeInv
<1>6. FamilyTypes' /\ OnceInv'
  <2>1. children' \in [Threads -> Seq(Threads)] /\ parent' \in [Threads -> Threads \cup {None}]
    BY <1>1, <1>2, <1>4 DEF FamilyInv, FamilyTypes
  <2> QED BY <1>1, <1>4, <1>5, <2>1 DEF FamilyInv, FamilyTypes, OnceInv
<1>7. MemberInv'
  BY <1>1, <1>2, <1>4, <1>5 DEF FamilyInv, MemberInv
<1>8. EmptyInv'
  BY <1>1, <1>5 DEF FamilyInv, EmptyInv
<1>9. ForkInv'
  <2>1. \A r \in Threads : Forking(r)' <=> Forking(r)
    BY <1>1, <1>5 DEF Forking
  <2>2. \A r \in Threads : Forking(r) => new[r] \in Threads /\ (r # q => new[r] # c)
    BY <1>1 DEF FamilyInv, ForkInv, Forking, ProcIInv, ForkerInv, c
  <2> QED BY <1>1, <1>2, <1>5, <2>1, <2>2 DEF FamilyInv, ForkInv, c
<1>10. RankInv'
  <2>1. PICK rank \in [Threads -> Nat] : Descend(rank)
    BY DEF FamilyInv, RankInv
  <2> DEFINE higher == [rank EXCEPT ![c] = rank[q] + 1]
  <2>2. higher \in [Threads -> Nat] /\ \A x \in Threads : higher[x] = IF x = c THEN rank[q] + 1 ELSE rank[x]
    BY <1>2
  <2>3. \A x \in Threads : parent[x] # c
    BY <1>2, ListEmpty DEF FamilyInv, MemberInv, EmptyInv
  <2>4. ASSUME NEW x \in Threads, parent'[x] # None PROVE higher[parent'[x]] < higher[x]
    <3>1. CASE x = c
      BY <1>2, <1>5, <2>2, <3>1
    <3>2. CASE x # c
      <4>1. parent'[x] = parent[x] /\ parent[x] \in Threads /\ parent[x] # c /\ rank[parent[x]] < rank[x]
        BY <1>5, <2>1, <2>3, <2>4, <3>2 DEF FamilyInv, FamilyTypes, Descend
      <4> QED BY <2>2, <3>2, <4>1
    <3> QED BY <3>1, <3>2
  <2> QED BY <2>2, <2>4 DEF RankInv, Descend
<1> QED BY <1>6, <1>7, <1>8, <1>9, <1>10 DEF FamilyInv

LEMMA ParentLower ==
  ASSUME FamilyInv, NEW q \in Threads, parent[q] # None
  PROVE  parent[q] \in Threads /\ parent[q] # q
<1>1. PICK rank \in [Threads -> Nat] : Descend(rank)
  BY DEF FamilyInv, RankInv
<1>2. parent[q] \in Threads /\ rank[parent[q]] < rank[q] /\ rank[q] \in Nat
  BY <1>1 DEF FamilyInv, FamilyTypes, Descend
<1> QED BY <1>2

(* A process with a parent dies: its children are the parent's, and so is  *)
(* its end.                                                                *)
LEMMA ExitDeadFamily ==
  ASSUME P!ProcessAssumption, ProcIInv, FamilyInv, NEW q \in Threads, P!ExitDead(q)
  PROVE  FamilyInv'
<1> DEFINE par == parent[q]
           kids == P!RemoveFirst(children[par] \o children[q], q)
<1>1. /\ state[q] = "run" /\ par # None /\ pc' = [pc EXCEPT ![q] = "user"] /\ UNCHANGED new
      /\ parent' = P!Adopted(q, par) /\ children' = P!ChildrenGiven(q, par)
      /\ deadchildren' = [deadchildren EXCEPT ![par] = <<q>> \o @]
      /\ state' = [state EXCEPT ![q] = "dead", ![par] = IF @ = "waitchild" THEN "run" ELSE @]
  BY DEF P!ExitDead, P!At, P!Goto
<1>2. par \in Threads /\ par # q /\ None \notin Threads
  BY <1>1, ParentLower DEF P!ProcessAssumption
<1>3. P!Contains(children[par], q) /\ ~P!Contains(deadchildren[par], q) /\ state[par] \in {"run", "waitchild"}
  <2>1. P!Contains(children[par], q) /\ ~P!Contains(deadchildren[par], q)
    BY <1>1, <1>2 DEF FamilyInv, MemberInv
  <2>2. children[par] # <<>>
    BY <2>1, ListEmpty
  <2> QED BY <1>2, <2>1, <2>2 DEF FamilyInv, FamilyTypes, EmptyInv, P!States
<1>4. \A x \in Threads : ~(P!Contains(children[par], x) /\ P!Contains(children[q], x))
  BY <1>2 DEF FamilyInv, MemberInv
<1>5. /\ kids \in Seq(Threads) /\ Once(kids)
      /\ \A x : P!Contains(kids, x) <=> (P!Contains(children[par], x) \/ P!Contains(children[q], x)) /\ x # q
  <2> DEFINE both == children[par] \o children[q]
  <2>1. children[par] \in Seq(Threads) /\ children[q] \in Seq(Threads)
    BY <1>2 DEF FamilyInv, FamilyTypes
  <2>2. /\ both \in Seq(Threads) /\ Once(both)
        /\ \A x : P!Contains(both, x) <=> P!Contains(children[par], x) \/ P!Contains(children[q], x)
    BY <1>2, <1>4, <2>1, ListConcat DEF FamilyInv, OnceInv
  <2>3. P!Contains(both, q)
    BY <1>3, <2>2
  <2> HIDE DEF both
  <2>4. /\ P!RemoveFirst(both, q) \in Seq(Threads) /\ Once(P!RemoveFirst(both, q))
        /\ \A x : P!Contains(P!RemoveFirst(both, q), x) <=> P!Contains(both, x) /\ x # q
    BY <2>2, <2>3, ListRemove
  <2> QED BY <2>2, <2>4 DEF both
<1>6. /\ <<q>> \o deadchildren[par] \in Seq(Threads) /\ Once(<<q>> \o deadchildren[par])
      /\ \A x : P!Contains(<<q>> \o deadchildren[par], x) <=> x = q \/ P!Contains(deadchildren[par], x)
  <2>1. deadchildren[par] \in Seq(Threads)
    BY <1>2 DEF FamilyInv, FamilyTypes
  <2> QED BY <1>2, <1>3, <2>1, ListPush DEF FamilyInv, OnceInv
<1>7. /\ children' = [children EXCEPT ![q] = <<>>, ![par] = kids]
      /\ \A x \in Threads : children'[x] = IF x = par THEN kids ELSE IF x = q THEN <<>> ELSE children[x]
  <2>1. children' = [children EXCEPT ![q] = <<>>, ![par] = P!RemoveFirst(@ \o children[q], q)]
    BY <1>1 DEF P!ChildrenGiven
  <2>2. [children EXCEPT ![q] = <<>>][par] = children[par]
    BY <1>2 DEF FamilyInv, FamilyTypes
  <2>3. children' = [children EXCEPT ![q] = <<>>, ![par] = kids]
    BY <2>1, <2>2
  <2> HIDE DEF kids, par
  <2> QED BY <1>2, <2>3 DEF FamilyInv, FamilyTypes
<1> HIDE DEF kids
<1>8. \A x \in Threads :
        /\ parent'[x] = IF P!Contains(children[q], x) THEN par ELSE parent[x]
        /\ deadchildren'[x] = IF x = par THEN <<q>> \o deadchildren[par] ELSE deadchildren[x]
        /\ state'[x] = IF x = q THEN "dead" ELSE IF x = par THEN "run" ELSE state[x]
  BY <1>1, <1>2, <1>3 DEF P!Adopted, FamilyInv, FamilyTypes
<1>9. FamilyTypes'
  <2>1. children' \in [Threads -> Seq(Threads)]
    BY <1>5, <1>7, ListEmpty DEF FamilyInv, FamilyTypes
  <2>2. deadchildren' \in [Threads -> Seq(Threads)] /\ state' \in [Threads -> P!States]
    BY <1>1, <1>3, <1>6 DEF FamilyInv, FamilyTypes, P!States
  <2>3. parent' \in [Threads -> Threads \cup {None}]
    BY <1>1, <1>2 DEF FamilyInv, FamilyTypes, P!Adopted
  <2> QED BY <2>1, <2>2, <2>3 DEF FamilyTypes
<1>10. OnceInv'
  <2>1. ASSUME NEW x \in Threads PROVE Once(children'[x]) /\ Once(deadchildren'[x])
    <3>1. Once(children[x]) /\ Once(deadchildren[x])
      BY DEF FamilyInv, OnceInv
    <3>2. Once(children'[x])
      <4>1. CASE x = par
        BY <1>5, <1>7, <4>1
      <4>2. CASE x = q
        BY <1>2, <1>7, <4>2, ListEmpty
      <4>3. CASE x # par /\ x # q
        BY <1>7, <3>1, <4>3
      <4> QED BY <4>1, <4>2, <4>3
    <3>3. Once(deadchildren'[x])
      <4>1. CASE x = par
        BY <1>6, <1>8, <4>1
      <4>2. CASE x # par
        BY <1>8, <3>1, <4>2
      <4> QED BY <4>1, <4>2
    <3> QED BY <3>2, <3>3
  <2> QED BY <2>1 DEF OnceInv
<1>11. EmptyInv'
  BY <1>2, <1>7, <1>8 DEF FamilyInv, EmptyInv
<1>12. ForkInv'
  <2>1. \A r \in Threads : Forking(r) => new[r] \in Threads /\ new[r] # q /\ new[r] # par
    BY <1>1, <1>3 DEF FamilyInv, ForkInv, Forking, ProcIInv, ForkerInv
  <2>2. \A x \in Threads : parent[x] = None => parent'[x] = None
    BY <1>2, <1>8 DEF FamilyInv, MemberInv
  <2>3. \A r \in Threads \ {q} : Forking(r) =>
          state'[new[r]] = "suspend" /\ (parent[new[r]] = None => parent'[new[r]] = None)
    BY <1>8, <2>1, <2>2 DEF FamilyInv, ForkInv
  <2>4. "user" \in ProcLabels \ {"groups", "start"}
    BY DEF ProcLabels
  <2> QED BY <1>1, <2>3, <2>4, ForkLeaves
<1>13. RankInv'
  <2>1. PICK rank \in [Threads -> Nat] : Descend(rank)
    BY DEF FamilyInv, RankInv
  <2>2. ASSUME NEW x \in Threads, parent'[x] # None PROVE rank[parent'[x]] < rank[x]
    <3>1. CASE P!Contains(children[q], x)
      <4>1. parent[x] = q /\ rank[q] < rank[x] /\ rank[par] < rank[q] /\ parent'[x] = par
        BY <1>1, <1>2, <1>8, <2>1, <3>1 DEF Descend, FamilyInv, MemberInv
      <4> QED BY <1>2, <4>1
    <3>2. CASE ~P!Contains(children[q], x)
      BY <1>8, <2>1, <2>2, <3>2 DEF Descend
    <3> QED BY <3>1, <3>2
  <2> QED BY <2>1, <2>2 DEF RankInv, Descend
<1>14. MemberInv'
  <2>1. ASSUME NEW x \in Threads, NEW c \in Threads, P!Contains(children'[x], c)
        PROVE  parent'[c] = x /\ state'[c] \notin {"free", "dead"}
    <3>1. x # q /\ c # q
      BY <1>1, <1>2, <1>5, <1>7, <2>1, ListEmpty DEF FamilyInv, MemberInv
    <3> QED BY <1>2, <1>5, <1>7, <1>8, <2>1, <3>1 DEF FamilyInv, MemberInv
  <2>2. ASSUME NEW x \in Threads, NEW c \in Threads, P!Contains(deadchildren'[x], c)
        PROVE  parent'[c] = x /\ state'[c] = "dead"
    <3>1. ~P!Contains(children[q], q)
      BY <1>2 DEF FamilyInv, MemberInv
    <3> QED BY <1>2, <1>3, <1>6, <1>8, <2>2, <3>1 DEF FamilyInv, MemberInv
  <2>3. ASSUME NEW x \in Threads, NEW c \in Threads, parent'[c] = x
        PROVE  P!Contains(children'[x], c) \/ P!Contains(deadchildren'[x], c)
    <3>1. CASE c = q
      BY <1>2, <1>6, <1>8, <2>3, <3>1 DEF FamilyInv, MemberInv
    <3>2. CASE c # q /\ P!Contains(children[q], c)
      <4>1. x = par /\ children'[x] = kids
        BY <1>7, <1>8, <2>3, <3>2
      <4> QED BY <1>5, <3>2, <4>1
    <3>3. CASE c # q /\ ~P!Contains(children[q], c)
      <4>1. parent[c] = x
        BY <1>8, <2>3, <3>3
      <4>2. P!Contains(children[x], c) \/ P!Contains(deadchildren[x], c)
        BY <4>1 DEF FamilyInv, MemberInv
      <4>3. CASE x = par
        <5>1. children'[x] = kids /\ deadchildren'[x] = <<q>> \o deadchildren[par]
          BY <1>7, <1>8, <4>3
        <5> QED BY <1>5, <1>6, <3>3, <4>2, <4>3, <5>1
      <4>4. CASE x # par
        <5>1. deadchildren'[x] = deadchildren[x] /\ (x # q => children'[x] = children[x])
          BY <1>7, <1>8, <4>4
        <5> QED BY <3>3, <4>2, <5>1
      <4> QED BY <4>3, <4>4
    <3> QED BY <3>1, <3>2, <3>3
  <2> QED BY <2>1, <2>2, <2>3 DEF MemberInv
<1> QED BY <1>9, <1>10, <1>11, <1>12, <1>13, <1>14 DEF FamilyInv

(* A process that is freed is on no list any more, and nobody has it as a  *)
(* parent.                                                                 *)
LEMMA FreeFamily ==
  ASSUME P!ProcessAssumption, ProcIInv, FamilyInv, ForkInv', NEW f \in Threads,
         state' = [state EXCEPT ![f] = "free"], state[f] \in {"run", "dead"},
         \A c \in Threads : parent'[c] = IF c = f \/ parent[c] = f THEN None ELSE parent[c],
         FamilyTypes', OnceInv',
         children'[f] = <<>>, deadchildren'[f] = <<>>,
         \A x \in Threads \ {f} : /\ children'[x] = children[x] /\ ~P!Contains(children[x], f)
                                  /\ \A c : P!Contains(deadchildren'[x], c) <=> P!Contains(deadchildren[x], c) /\ c # f,
         \A x \in Threads \ {f} : deadchildren[x] = <<>> => deadchildren'[x] = <<>>
  PROVE  FamilyInv'
<1>1. \A x \in Threads : state'[x] = IF x = f THEN "free" ELSE state[x]
  BY DEF FamilyInv, FamilyTypes
<1>2. None \notin Threads
  BY DEF P!ProcessAssumption
<1>3. MemberInv'
  <2>1. ASSUME NEW x \in Threads, NEW c \in Threads, P!Contains(children'[x], c)
        PROVE  parent'[c] = x /\ state'[c] \notin {"free", "dead"}
    <3>1. x # f /\ c # f
      BY <2>1, ListEmpty
    <3> QED BY <1>1, <2>1, <3>1 DEF FamilyInv, MemberInv
  <2>2. ASSUME NEW x \in Threads, NEW c \in Threads, P!Contains(deadchildren'[x], c)
        PROVE  parent'[c] = x /\ state'[c] = "dead"
    <3>1. x # f
      BY <2>2, ListEmpty
    <3>2. P!Contains(deadchildren[x], c) /\ c # f
      BY <2>2, <3>1
    <3> QED BY <1>1, <3>1, <3>2 DEF FamilyInv, MemberInv
  <2>3. ASSUME NEW x \in Threads, NEW c \in Threads, parent'[c] = x
        PROVE  P!Contains(children'[x], c) \/ P!Contains(deadchildren'[x], c)
    <3>1. parent[c] = x /\ x # f /\ c # f
      BY <1>2, <2>3
    <3> QED BY <3>1 DEF FamilyInv, MemberInv
  <2> QED BY <2>1, <2>2, <2>3 DEF MemberInv
<1>4. EmptyInv'
  BY <1>1 DEF FamilyInv, EmptyInv
<1>5. RankInv'
  <2>1. PICK rank \in [Threads -> Nat] : Descend(rank)
    BY DEF FamilyInv, RankInv
  <2> QED BY <2>1 DEF RankInv, Descend
<1> QED BY <1>3, <1>4, <1>5 DEF FamilyInv
LEMMA ExitFreeFamily ==
  ASSUME P!ProcessAssumption, ProcIInv, FamilyInv, NEW q \in Threads, P!ExitFree(q)
  PROVE  FamilyInv'
<1>1. /\ state[q] = "run" /\ parent[q] = None /\ pc' = [pc EXCEPT ![q] = "user"] /\ UNCHANGED new
      /\ parent' = P!Orphaned(q, P!Adopted(q, None))
      /\ children' = [children EXCEPT ![q] = <<>>] /\ deadchildren' = [deadchildren EXCEPT ![q] = <<>>]
      /\ state' = [state EXCEPT ![q] = "free"]
  BY DEF P!ExitFree, P!At, P!Goto
<1>2. None \notin Threads
  BY DEF P!ProcessAssumption
<1>3. /\ parent' \in [Threads -> Threads \cup {None}]
      /\ \A c \in Threads : parent'[c] = IF c = q \/ parent[c] = q THEN None ELSE parent[c]
  <2>1. \A c \in Threads : P!Adopted(q, None)[c] = IF P!Contains(children[q], c) THEN None ELSE parent[c]
    BY DEF P!Adopted
  <2>2. /\ parent' = [c \in Threads |-> IF c = q \/ P!Adopted(q, None)[c] = q THEN None ELSE P!Adopted(q, None)[c]]
        /\ \A c \in Threads : parent[c] \in Threads \cup {None}
    BY <1>1 DEF P!Orphaned, FamilyInv, FamilyTypes
  <2>3. \A c \in Threads : P!Contains(children[q], c) => parent[c] = q
    BY DEF FamilyInv, MemberInv
  <2> QED BY <1>2, <2>1, <2>2, <2>3
<1>4. \A x \in Threads : /\ children'[x] = IF x = q THEN <<>> ELSE children[x]
                         /\ deadchildren'[x] = IF x = q THEN <<>> ELSE deadchildren[x]
                         /\ state'[x] = IF x = q THEN "free" ELSE state[x]
  BY <1>1 DEF FamilyInv, FamilyTypes
<1>5. FamilyTypes'
  BY <1>1, <1>3, ListEmpty DEF FamilyInv, FamilyTypes, P!States
<1>6. OnceInv'
  BY <1>4, ListEmpty DEF FamilyInv, OnceInv
<1>7. \A x \in Threads : ~P!Contains(children[x], q) /\ ~P!Contains(deadchildren[x], q)
  BY <1>1, <1>2 DEF FamilyInv, MemberInv
<1>8. ForkInv'
  <2>1. \A r \in Threads : Forking(r) => new[r] \in Threads /\ new[r] # q /\ state[new[r]] = "suspend"
    BY <1>1 DEF FamilyInv, ForkInv, Forking, ProcIInv, ForkerInv
  <2>2. \A x \in Threads : parent[x] = None => parent'[x] = None
    BY <1>3
  <2>3. "user" \in ProcLabels \ {"groups", "start"}
    BY DEF ProcLabels
  <2>4. \A r \in Threads \ {q} : Forking(r) =>
          state'[new[r]] = "suspend" /\ (parent[new[r]] = None => parent'[new[r]] = None)
    BY <1>4, <2>1, <2>2
  <2>5. \A r \in Threads \ {q} : new'[r] = new[r]
    BY <1>1
  <2> QED BY <1>1, <2>3, <2>4, <2>5, ForkLeaves
<1>9. \A x \in Threads \ {q} :
        /\ children'[x] = children[x] /\ ~P!Contains(children[x], q)
        /\ \A c : P!Contains(deadchildren'[x], c) <=> P!Contains(deadchildren[x], c) /\ c # q
  BY <1>4, <1>7
<1>10. /\ children'[q] = <<>> /\ deadchildren'[q] = <<>> /\ state[q] \in {"run", "dead"}
       /\ \A x \in Threads \ {q} : deadchildren[x] = <<>> => deadchildren'[x] = <<>>
  BY <1>1, <1>4
<1>11. state' = [state EXCEPT ![q] = "free"]
  BY <1>1
<1> QED BY <1>3, <1>5, <1>6, <1>8, <1>9, <1>10, <1>11, FreeFamily

LEMMA WaitPopFamily ==
  ASSUME P!ProcessAssumption, ProcIInv, FamilyInv, NEW q \in Threads, P!WaitPop(q)
  PROVE  FamilyInv'
<1> DEFINE f == Head(deadchildren[q])
<1>1. /\ state[q] = "run" /\ deadchildren[q] # <<>> /\ pc' = [pc EXCEPT ![q] = "user"]
      /\ deadchildren' = [deadchildren EXCEPT ![q] = Tail(@), ![f] = <<>>]
      /\ state' = [state EXCEPT ![f] = "free"] /\ parent' = P!Orphaned(f, parent)
      /\ UNCHANGED <<new, children>>
  BY DEF P!WaitPop, P!At, P!Goto
<1>2. /\ f \in Threads /\ P!Contains(deadchildren[q], f) /\ Tail(deadchildren[q]) \in Seq(Threads)
      /\ Once(Tail(deadchildren[q]))
      /\ \A c : P!Contains(Tail(deadchildren[q]), c) <=> P!Contains(deadchildren[q], c) /\ c # f
  <2>1. deadchildren[q] \in Seq(Threads) /\ Once(deadchildren[q])
    BY DEF FamilyInv, FamilyTypes, OnceInv
  <2> QED BY <1>1, <2>1, ListPop
<1> HIDE DEF f
<1>3. state[f] = "dead" /\ parent[f] = q /\ f # q /\ children[f] = <<>>
  BY <1>1, <1>2 DEF FamilyInv, MemberInv, EmptyInv
<1>4. \A x \in Threads : /\ deadchildren'[x] = IF x = f THEN <<>> ELSE IF x = q THEN Tail(deadchildren[q])
                                               ELSE deadchildren[x]
                         /\ state'[x] = IF x = f THEN "free" ELSE state[x]
                         /\ parent'[x] = IF x = f \/ parent[x] = f THEN None ELSE parent[x]
  BY <1>1, <1>2, <1>3 DEF P!Orphaned, FamilyInv, FamilyTypes
<1>5. FamilyTypes'
  <2>1. deadchildren' \in [Threads -> Seq(Threads)]
    BY <1>1, <1>2, ListEmpty DEF FamilyInv, FamilyTypes
  <2>2. state' \in [Threads -> P!States] /\ parent' \in [Threads -> Threads \cup {None}]
    BY <1>1 DEF P!Orphaned, FamilyInv, FamilyTypes, P!States
  <2> QED BY <1>1, <2>1, <2>2 DEF FamilyInv, FamilyTypes
<1>6. OnceInv'
  <2>1. ASSUME NEW x \in Threads PROVE Once(children'[x]) /\ Once(deadchildren'[x])
    <3>1. Once(children[x]) /\ Once(deadchildren[x])
      BY DEF FamilyInv, OnceInv
    <3>2. deadchildren'[x] \in {<<>>, Tail(deadchildren[q]), deadchildren[x]}
            /\ (deadchildren'[x] = Tail(deadchildren[q]) => Once(deadchildren'[x]))
      BY <1>2, <1>4
    <3> QED BY <1>1, <3>1, <3>2, ListEmpty
  <2> QED BY <2>1 DEF OnceInv
<1>7. \A x \in Threads : ~P!Contains(children[x], f) /\ (x # q => ~P!Contains(deadchildren[x], f))
  BY <1>2, <1>3 DEF FamilyInv, MemberInv
<1>8. ForkInv'
  <2>1. \A r \in Threads : Forking(r) => new[r] \in Threads /\ new[r] # f /\ state[new[r]] = "suspend"
    BY <1>3 DEF FamilyInv, ForkInv, Forking, ProcIInv, ForkerInv
  <2>2. \A x \in Threads : parent[x] = None => parent'[x] = None
    BY <1>4
  <2>3. "user" \in ProcLabels \ {"groups", "start"}
    BY DEF ProcLabels
  <2>4. \A r \in Threads \ {q} : Forking(r) =>
          state'[new[r]] = "suspend" /\ (parent[new[r]] = None => parent'[new[r]] = None)
    BY <1>4, <2>1, <2>2
  <2>5. \A r \in Threads \ {q} : new'[r] = new[r]
    BY <1>1
  <2> QED BY <1>1, <2>3, <2>4, <2>5, ForkLeaves
<1>9. ASSUME NEW x \in Threads \ {f}
      PROVE  /\ children'[x] = children[x] /\ ~P!Contains(children[x], f)
             /\ \A c : P!Contains(deadchildren'[x], c) <=> P!Contains(deadchildren[x], c) /\ c # f
             /\ deadchildren[x] = <<>> => deadchildren'[x] = <<>>
  <2>1. CASE x = q
    BY <1>1, <1>2, <1>4, <1>7, <2>1
  <2>2. CASE x # q
    <3>1. deadchildren'[x] = deadchildren[x]
      BY <1>4, <2>2
    <3> QED BY <1>1, <1>7, <2>2, <3>1
  <2> QED BY <2>1, <2>2
<1>10. children'[f] = <<>> /\ deadchildren'[f] = <<>>
  BY <1>1, <1>2, <1>3, <1>4
<1> QED BY <1>1, <1>2, <1>3, <1>4, <1>5, <1>6, <1>8, <1>9, <1>10, FreeFamily

LEMMA NextFamily ==
  ASSUME P!ProcessAssumption, ProcIInv, FamilyInv, [P!Next]_(P!vars)
  PROVE  FamilyInv'
<1>1. CASE UNCHANGED P!vars
  <2>1. ForkInv'
    BY <1>1 DEF P!vars, FamilyInv, ForkInv, Forking
  <2> QED BY <1>1, <2>1, QuietFamily DEF P!vars, FamilyInv, FamilyTypes
<1> QED BY <1>1, ForkNewFamily, PlainFamily, ForkLinkFamily, ExitDeadFamily, ExitFreeFamily,
           WaitPopFamily DEF P!Next

ProcInv == ProcIInv /\ FamilyInv
LEMMA ProcInvInductive ==
  ASSUME P!ProcessAssumption
  PROVE  (P!Init => ProcInv) /\ (ProcInv /\ [P!Next]_(P!vars) => ProcInv') /\ (ProcInv => P!ProcessesSound)
BY ProcInit, InitFamily, ProcNext, NextFamily, FamilyHolds DEF ProcInv, ProcIInv, P!ProcessesSound
=============================================================================
