------------------------------- MODULE Memory -------------------------------
(***************************************************************************)
(* The pages of processes: kern/page.c, the page lists of am335x/mem.c,    *)
(* sysmmap() and sysmunmap() of kern/sysproc.c and kexec() of kern/exec.c. *)
(* Addresses are page numbers, lengths given by a program are in bytes.  A *)
(* page list is the sequence of its struct pagel.  A call is one step: the *)
(* lists of a group are changed under its lock, other lists by their owner *)
(* alone (the free lists are not, see the README).  getrampage() does not  *)
(* return when no page is left, so a step needs the pages it takes.  What  *)
(* mmuputpage() set stays set until the space is freed: as long as pages   *)
(* leave a list untouched, who reaches a page has it on a list of its own. *)
(* The model stops when pages are freed that somebody goes on using.       *)
(***************************************************************************)
EXTENDS Naturals, FiniteSets, SequencesExt

CONSTANTS Procs, Groups, None,
          Ram,        \* the pages of addrampages()
          Io,         \* the pages of addiopages(), which are shared, never copied
          PageBytes,  \* PAGE_SIZE
          StackTop,   \* the page on which a stack begins
          MaxVa,      \* bound: no call maps a page beyond this one
          MaxLen,     \* bound on the pages of one mapping
          MaxStack,   \* bound on the pages of a stack
          Segments    \* the segments of files that can be executed: <<page, pages>>

MemoryAssumption == /\ Ram \cap Io = {} /\ None \notin Groups /\ PageBytes > 1
                    /\ StackTop > MaxVa + MaxStack

VARIABLES refs,    \* refs of every page
          ram, io, \* rampages and iopages, first to last
          pages,   \* the page list of every memory group
          grefs,   \* refs of every memory group; 0: not allocated
          mgroup,  \* the group of each process
          ustack,  \* the stack pages of each process, from the top down
          exec,    \* the group that kexec() of a process is filling
          astray   \* pages were freed that a process still reaches

vars == <<refs, ram, io, pages, grefs, mgroup, ustack, exec, astray>>

Pagel == [va : Nat, p : Ram \cup Io, rw : BOOLEAN]

Alive == {q \in Procs : mgroup[q] # None}
Count(l, f) == Cardinality({i \in DOMAIN l : l[i].p = f})

(* initpages(), and the first process as am335x/init.c makes it. *)
Init == \E first \in Procs, g \in Groups : LET l == SetToSeq(Ram) IN
          /\ io = SetToSeq(Io)
          /\ ram = SubSeq(l, 3, Len(l))
          /\ refs = [f \in Ram \cup Io |-> IF f \in {l[1], l[2]} THEN 1 ELSE 0]
          /\ mgroup = [q \in Procs |-> IF q = first THEN g ELSE None]
          /\ grefs = [h \in Groups |-> IF h = g THEN 1 ELSE 0]
          /\ ustack = [q \in Procs |-> IF q = first THEN <<[va |-> StackTop, p |-> l[1], rw |-> TRUE]>> ELSE <<>>]
          /\ exec = [q \in Procs |-> None] /\ astray = FALSE
          /\ pages = [h \in Groups |-> IF h = g THEN <<[va |-> 1, p |-> l[2], rw |-> TRUE]>> ELSE <<>>]

(* The first n pages of rampages are taken, and every page of l is freed:  *)
(* the last reference puts it in front of its list.                        *)
FreePages(l, n) ==
  LET left == [f \in DOMAIN refs |-> IF \E i \in 1..n : ram[i] = f THEN 1 ELSE refs[f] - Count(l, f)]
      freed(S) == SelectSeq([i \in DOMAIN l |-> l[i].p], LAMBDA f : f \in S /\ left[f] = 0)
  IN  /\ n <= Len(ram)
      /\ refs' = left
      /\ ram' = Reverse(freed(Ram)) \o SubSeq(ram, n + 1, Len(ram))
      /\ io' = Reverse(freed(Io)) \o io

(* wrappage() of n pages of rampages, not placed yet. *)
RamPages(n, rw) == [i \in 1..n |-> [va |-> 0, p |-> ram[i], rw |-> rw]]
TakeRam(n) == /\ n <= Len(ram)
              /\ ram' = SubSeq(ram, n + 1, Len(ram))
              /\ UNCHANGED io

(* fixaddresses() *)
Placed(pn, addr) == [i \in DOMAIN pn |-> [pn[i] EXCEPT !.va = addr + i - 1]]

(* insertpages(): behind the first page with room for all of them. *)
Room(l, n) == {i \in DOMAIN l : i = Len(l) \/ l[i].va + 1 + n <= l[i + 1].va}

InsertPages(l, pn) ==
  IF l = <<>> THEN Placed(pn, 0)
  ELSE LET i == CHOOSE i \in Room(l, Len(pn)) : \A j \in Room(l, Len(pn)) : i <= j
       IN  SubSeq(l, 1, i) \o Placed(pn, l[i].va + 1) \o SubSeq(l, i + 1, Len(l))

MmapRam(q, n, rw) ==
  LET g == mgroup[q]
      l == InsertPages(pages[g], RamPages(n, rw))
  IN  /\ TakeRam(n)
      /\ Last(l).va <= MaxVa
      /\ pages' = [pages EXCEPT ![g] = l]
      /\ refs' = [f \in DOMAIN refs |-> IF \E i \in 1..n : ram[i] = f THEN 1 ELSE refs[f]]
      /\ UNCHANGED <<grefs, mgroup, ustack, exec, astray>>

(* getiopage() takes the page of that address off the list; nobody else gets it. *)
MmapIo(q, f, rw) ==
  LET g == mgroup[q]
      l == InsertPages(pages[g], <<[va |-> 0, p |-> f, rw |-> rw]>>)
  IN  /\ f \in ToSet(io) /\ Last(l).va <= MaxVa
      /\ io' = SelectSeq(io, LAMBDA e : e # f)
      /\ pages' = [pages EXCEPT ![g] = l]
      /\ refs' = [refs EXCEPT ![f] = 1]
      /\ UNCHANGED <<ram, grefs, mgroup, ustack, exec, astray>>

(* sysmunmap() compares with the first page of the group only; a length    *)
(* that is no multiple of the page size passes zero and does not end it.   *)
Unmapped(l, addr, bytes) ==
  CHOOSE k \in 0..Len(l) :
    /\ \A i \in 1..k : l[i].va = addr + i - 1
    /\ \/ bytes % PageBytes = 0 /\ k = bytes \div PageBytes
       \/ (bytes % PageBytes # 0 \/ k < bytes \div PageBytes) /\ (k = Len(l) \/ l[k + 1].va # addr + k)

(* A page that a process with the group has touched stays in its table:    *)
(* munmap clears no entry, and the next page mapped there never faults.    *)
Munmap(q, addr, bytes) ==
  LET l == pages[mgroup[q]]
      k == Unmapped(l, addr, bytes)
  IN  /\ k > 0
      /\ FreePages(SubSeq(l, 1, k), 0)
      /\ pages' = [pages EXCEPT ![mgroup[q]] = SubSeq(l, k + 1, Len(l))]
      /\ astray' \in BOOLEAN
      /\ UNCHANGED <<grefs, mgroup, ustack, exec>>

(* Mutant: writable ram is shared with the child. *)
SharesRam(e) == e.p \in Ram \/ ~e.rw

(* pagelcopy(): the pages that may be written and are ram are copied. *)
Shares(e) == e.p \in Io \/ ~e.rw

NewPages(l) == SelectSeq(l, LAMBDA e : ~Shares(e))
Copy(l, from) == [i \in DOMAIN l |-> IF Shares(l[i]) THEN l[i]
                                     ELSE [l[i] EXCEPT !.p = ram[from + Len(NewPages(SubSeq(l, 1, i)))]]]

(* sysfork(): the stack is copied, the group is shared or, with FORK_cmem, copied. *)
Fork(q, c, cmem, g) ==
  LET s == ustack[q]
      l == IF cmem THEN pages[mgroup[q]] ELSE <<>>
      n == Len(NewPages(s)) + Len(NewPages(l))
      copied == Copy(l, Len(NewPages(s)))
  IN  /\ mgroup[c] = None /\ (IF cmem THEN grefs[g] = 0 ELSE g = mgroup[q])
      /\ TakeRam(n)
      /\ ustack' = [ustack EXCEPT ![c] = Copy(s, 0)]
      /\ pages' = IF cmem THEN [pages EXCEPT ![g] = copied] ELSE pages
      /\ refs' = [f \in DOMAIN refs |-> refs[f] + Count(Copy(s, 0), f) + Count(copied, f)]
      /\ grefs' = [grefs EXCEPT ![g] = @ + 1]
      /\ mgroup' = [mgroup EXCEPT ![c] = g]
      /\ UNCHANGED <<exec, astray>>

(* mgroupfree() frees the pages with the last reference. *)
GroupPages(g) == IF grefs[g] > 1 THEN <<>> ELSE pages[g]

Exit(q) == LET g == mgroup[q]
           IN  /\ FreePages(ustack[q] \o GroupPages(g), 0)
               /\ grefs' = [grefs EXCEPT ![g] = @ - 1]
               /\ pages' = [pages EXCEPT ![g] = IF grefs[g] > 1 THEN @ ELSE <<>>]
               /\ mgroup' = [mgroup EXCEPT ![q] = None]
               /\ ustack' = [ustack EXCEPT ![q] = <<>>]
               /\ UNCHANGED <<exec, astray>>

(* fixfault() of the page below the stack: the stack grows by one page. *)
GrowStack(q) == /\ Len(ustack[q]) < MaxStack
                /\ TakeRam(1)
                /\ refs' = [refs EXCEPT ![ram[1]] = 1]
                /\ ustack' = [ustack EXCEPT ![q] =
                                Append(@, [va |-> Last(@).va - 1, p |-> ram[1], rw |-> TRUE])]
                /\ UNCHANGED <<pages, grefs, mgroup, exec, astray>>

(* kexec(): a new group, which no process has yet. *)
ExecBegin(q, g) == /\ exec[q] = None /\ grefs[g] = 0
                   /\ grefs' = [grefs EXCEPT ![g] = 1]
                   /\ exec' = [exec EXCEPT ![q] = g]
                   /\ UNCHANGED <<refs, ram, io, pages, mgroup, ustack, astray>>

(* readpheader(): n pages at address a.  insertpagesfixed() looks for the  *)
(* first new page only: where the group has that address it frees the old  *)
(* pages from there on, which the new ones replace, and links the new ones *)
(* to the group at its head, as it does when it finds nothing.  What the   *)
(* group had else is not linked any more and not freed.  When all new pages*)
(* have replaced one and old ones follow, it reads through a nil pn.       *)
Replaced(l, a) == IF \E e \in ToSet(l) : e.va = a THEN SelectSeq(l, LAMBDA e : e.va >= a) ELSE <<>>

ExecSegment(q, a, n) ==
  LET g == exec[q]
      old == Replaced(pages[g], a)
  IN  /\ g # None
      /\ Len(old) <= n
      /\ FreePages(old, n)
      /\ pages' = [pages EXCEPT ![g] = Placed(RamPages(n, TRUE), a)]
      /\ UNCHANGED <<grefs, mgroup, ustack, exec, astray>>

(* A read of a header fails: the new group and its pages are left as they are. *)
ExecFails(q) == /\ exec[q] # None
                /\ exec' = [exec EXCEPT ![q] = None]
                /\ UNCHANGED <<refs, ram, io, pages, grefs, mgroup, ustack, astray>>

(* readpheader() fails, or mmunew(): mgroupfree() of the new group. *)
ExecGivesUp(q) == LET g == exec[q]
                  IN  /\ g # None
                      /\ FreePages(pages[g], 0)
                      /\ grefs' = [grefs EXCEPT ![g] = 0]
                      /\ pages' = [pages EXCEPT ![g] = <<>>]
                      /\ exec' = [exec EXCEPT ![q] = None]
                      /\ UNCHANGED <<mgroup, ustack, astray>>

(* The old group goes before readyexec() reads the arguments in it, and    *)
(* another process may have its pages by then.                             *)
ExecEnd(q) == LET g == mgroup[q]
              IN  /\ exec[q] # None
                  /\ mgroup' = [mgroup EXCEPT ![q] = exec[q]]
                  /\ exec' = [exec EXCEPT ![q] = None]
                  /\ FreePages(GroupPages(g), 0)
                  /\ grefs' = [grefs EXCEPT ![g] = @ - 1]
                  /\ pages' = [pages EXCEPT ![g] = IF grefs[g] > 1 THEN @ ELSE <<>>]
                  /\ astray' \in {FALSE, GroupPages(g) # <<>>}
                  /\ UNCHANGED ustack

(* Nothing is said after astray, and the model stops there. *)
Next == ~astray /\
        \E q \in Alive :
          IF exec[q] # None
          THEN \/ \E s \in Segments : ExecSegment(q, s[1], s[2])
               \/ ExecFails(q) \/ ExecGivesUp(q) \/ ExecEnd(q)
          ELSE \/ \E n \in 1..MaxLen, rw \in BOOLEAN : MmapRam(q, n, rw)
               \/ \E f \in Io, rw \in BOOLEAN : MmapIo(q, f, rw)
               \/ \E a \in 0..MaxVa, b \in 1..MaxLen * PageBytes : Munmap(q, a, b)
               \/ \E c \in Procs, cmem \in BOOLEAN, g \in Groups : Fork(q, c, cmem, g)
               \/ \E g \in Groups : ExecBegin(q, g)
               \/ Exit(q) \/ GrowStack(q)

Spec == Init /\ [][Next]_vars
-----------------------------------------------------------------------------
TypeOK == /\ refs \in [Ram \cup Io -> Nat] /\ grefs \in [Groups -> Nat]
          /\ \A g \in Groups : ToSet(pages[g]) \subseteq Pagel
          /\ \A q \in Procs : ToSet(ustack[q]) \subseteq Pagel
          /\ mgroup \in [Procs -> Groups \cup {None}] /\ exec \in [Procs -> Groups \cup {None}]
          /\ astray \in BOOLEAN

(* A page is on its free list exactly when it has no reference, once, and  *)
(* it has at least as many references as there are page lists with it:     *)
(* what a process can still reach is not handed out again.                 *)
References(f) == FoldFunctionOnSet(LAMBDA l, n : Count(l, f) + n, 0, pages, Groups)
                 + FoldFunctionOnSet(LAMBDA l, n : Count(l, f) + n, 0, ustack, Procs)
PagesKept == /\ IsInjective(ram) /\ IsInjective(io)
             /\ ToSet(ram) = {f \in Ram : refs[f] = 0} /\ ToSet(io) = {f \in Io : refs[f] = 0}
             /\ \A f \in DOMAIN refs : References(f) <= refs[f]

(* The pages of a group stay in the order of their addresses, no two at    *)
(* one address, which is what insertpages() takes a gap between two for.   *)
InOrder == \A g \in Groups : \A i \in 1..Len(pages[g]) - 1 : pages[g][i].va < pages[g][i + 1].va

(* Two processes see one writable page of ram only through a group that    *)
(* both have: a copy does not share what it may write.                     *)
WritesApart ==
  \A g \in Groups : \A h \in Groups \ {g} :
    \A e \in ToSet(pages[g]), d \in ToSet(pages[h]) : e.p = d.p => e.p \in Io \/ ~(e.rw \/ d.rw)

(* Until pages are freed that a process still reaches, by munmap of a page *)
(* it has touched or under exec: memory stays with who reaches it, counted,*)
(* in order, and not writable by two.                                      *)
MemoryKept == astray \/ (PagesKept /\ InOrder /\ WritesApart)
=============================================================================
