-------------------------------- MODULE Mmu ---------------------------------
(***************************************************************************)
(* am335x/mmu.c: the first-level table ttb, of which each address space    *)
(* fills in the sections it has second-level tables for.  The sections of  *)
(* the kernel, which imap() fills in at the start, are left out: no        *)
(* address space touches them.  Interrupts are off in mmuswitch(), and     *)
(* mmuputpage() is called for the process that runs.                       *)
(***************************************************************************)
EXTENDS Naturals, FiniteSets, SequencesExt

CONSTANTS Spaces,   \* the struct mmu of the processes
          Tables,   \* pages that second-level tables are made of
          Sections, \* the sections of user addresses: 0..n
          Fault,    \* L1_FAULT
          None

MmuAssumption == Fault \notin Tables /\ None \notin Spaces /\ Sections = 0 .. Cardinality(Sections) - 1

VARIABLES ttb, loaded,
          own,       \* up->mmu: the space of the process that runs, None when it has freed it
          low, high, \* the sections that mmuempty1() clears
          pages      \* the second-level tables of each space: sequences of [va, p]

vars == <<ttb, loaded, own, low, high, pages>>

UINT_MAX == Cardinality(Sections)

Init == /\ ttb = [x \in Sections |-> Fault]
        /\ loaded \in Spaces /\ own = loaded
        /\ low = UINT_MAX /\ high = 0
        /\ pages = [m \in Spaces |-> <<>>]

Widened(range, x) == IF x > range[2] THEN <<range[1], x>>
                     ELSE IF x < range[1] THEN <<x, range[2]>> ELSE range

(* mmuempty1() *)
Emptied == [x \in Sections |-> IF x \in low..high THEN Fault ELSE ttb[x]]

TableAt(l, x, else) == IF \E i \in DOMAIN l : l[i].va = x
                       THEN l[CHOOSE i \in DOMAIN l : l[i].va = x].p ELSE else

(* mmuswitch() to a space that is not loaded: of another process, or the   *)
(* new one of kexec().                                                     *)
Switch(m) ==
  LET l == pages[m]
      range == FoldLeft(LAMBDA r, e : Widened(r, e.va),
                        <<IF l = <<>> THEN UINT_MAX ELSE l[1].va, 0>>, l)
  IN  /\ m # loaded /\ loaded' = m /\ own' = m
      /\ ttb' = [x \in Sections |-> TableAt(l, x, Emptied[x])]
      /\ low' = range[1] /\ high' = range[2]
      /\ UNCHANGED pages

(* mmuputpage() of a page in a section that has a table, its own or one    *)
(* that is left of a space before it.                                      *)
PutPage(x) == ttb[x] # Fault /\ UNCHANGED vars

InUse == {e.p : e \in UNION {ToSet(pages[m]) : m \in Spaces}}

(* mmuputpage() of the first page in a section: up->mmu gets the table.    *)
PutTable(x) == /\ ttb[x] = Fault /\ own # None
               /\ \E t \in Tables \ InUse :
                    /\ ttb' = [ttb EXCEPT ![x] = t]
                    /\ pages' = [pages EXCEPT ![own] = <<[va |-> x, p |-> t]>> \o @]
               /\ low' = Widened(<<low, high>>, x)[1]
               /\ high' = Widened(<<low, high>>, x)[2]
               /\ UNCHANGED <<loaded, own>>

(* mmufree() of the space of a process that is gone, and mmunew().         *)
Renew(m) == /\ m \notin {loaded, own} /\ pages[m] # <<>>
            /\ pages' = [pages EXCEPT ![m] = <<>>]
            /\ UNCHANGED <<ttb, loaded, own, low, high>>

(* The running process frees the space that is loaded: kexec() for a new   *)
(* one, procfree() for none.  ttb keeps the tables until the next switch.  *)
Drop(m) == /\ own = loaded
           /\ m = None \/ (m \in Spaces \ {loaded} /\ pages[m] = <<>>)
           /\ own' = m
           /\ pages' = [pages EXCEPT ![loaded] = <<>>]
           /\ UNCHANGED <<ttb, loaded, low, high>>

Next == \/ \E m \in Spaces : Switch(m) \/ Renew(m)
        \/ \E m \in Spaces \cup {None} : Drop(m)
        \/ \E x \in Sections : PutPage(x) \/ PutTable(x)

Spec == Init /\ [][Next]_vars
-----------------------------------------------------------------------------
TypeOK == /\ ttb \in [Sections -> Tables \cup {Fault}] /\ loaded \in Spaces /\ own \in Spaces \cup {None}
          /\ low \in 0..UINT_MAX /\ high \in 0..UINT_MAX
          /\ \A m \in Spaces : ToSet(pages[m]) \subseteq [va : Sections, p : Tables]

(* Every table of the space of the process that runs is in ttb, in its own *)
(* section, however the spaces were switched, whatever mmuempty1() cleared *)
(* and although kexec() goes on for a while on the tables it has freed.    *)
OwnPresent == own # None => \A i \in DOMAIN pages[own] : ttb[pages[own][i].va] = pages[own][i].p
=============================================================================
