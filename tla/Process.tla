------------------------------ MODULE Process -------------------------------
(***************************************************************************)
(* The life of processes: sysfork(), sysexit(), syswait() of kern/sysproc.c*)
(* with procnew(), procexit(), procfree() and waitchild() of kern/proc.c,  *)
(* and the references to the groups that processes share.  Processes are   *)
(* preempted between any two steps; the second half of procexit() runs     *)
(* with interrupts off.  Lists are sequences, first to last; the pushes of *)
(* sysfork() and the pops of waitchild() repeat their cas until it         *)
(* succeeds and are one step.  malloc() and getrampage() do not return     *)
(* nil (they panic or abort), so the error exits of sysfork() do not       *)
(* happen; the one that does is FORK_nmem, which forgets the new process.  *)
(***************************************************************************)
EXTENDS Naturals, FiniteSets, SequencesExt

CONSTANTS Procs, None,
          First,   \* the process made at start-up, which has no parent
          Kinds,   \* mgroup, fgroup, ngroup and agroup
          Objects, \* what a group of any kind can be
          MaxForks \* bound on the calls of fork

ProcessAssumption == /\ None \notin Procs \cup Objects /\ First \in Procs
                     /\ MaxForks \in Nat /\ IsFiniteSet(Procs) /\ IsFiniteSet(Objects)

VARIABLES state,    \* "free", "suspend", "run" (ready or on the cpu), "waitchild", "dead"
          pc,       \* where a process is inside a call, "user" outside
          new,      \* p of sysfork()
          parent, children, deadchildren,
          group,    \* the group of each kind that a process refers to, or None
          refs,     \* refs of each group; 0: free
          nforks

vars == <<state, pc, new, parent, children, deadchildren, group, refs, nforks>>

NoGroups == [k \in Kinds |-> None]

Init == \E own \in [Kinds -> Objects] :
          /\ \A j, k \in Kinds : j # k => own[j] # own[k]
          /\ state = [q \in Procs |-> IF q = First THEN "run" ELSE "free"]
          /\ pc = [q \in Procs |-> "user"]
          /\ new = [q \in Procs |-> None]
          /\ parent = [q \in Procs |-> None]
          /\ children = [q \in Procs |-> <<>>] /\ deadchildren = [q \in Procs |-> <<>>]
          /\ group = [q \in Procs |-> IF q = First THEN own ELSE NoGroups]
          /\ refs = [o \in Objects |-> IF \E k \in Kinds : own[k] = o THEN 1 ELSE 0]
          /\ nforks = 0

At(q, label) == state[q] = "run" /\ pc[q] = label
Goto(q, label) == pc' = [pc EXCEPT ![q] = label]

(* sysfork(): procnew() *)
ForkNew(q) == /\ At(q, "user") /\ nforks < MaxForks
              /\ \E c \in Procs : /\ state[c] = "free"
                                  /\ state' = [state EXCEPT ![c] = "suspend"]
                                  /\ new' = [new EXCEPT ![q] = c]
              /\ nforks' = nforks + 1
              /\ Goto(q, "groups")
              /\ UNCHANGED <<parent, children, deadchildren, group, refs>>

(* Mutant: a group that is shared is not counted. *)
ForkForgets(q, k) == /\ At(q, "groups") /\ group[new[q]][k] = None
                     /\ \E o \in Objects :
                          /\ o = group[q][k] \/ refs[o] = 0
                          /\ refs' = [refs EXCEPT ![o] = 1]
                          /\ group' = [group EXCEPT ![new[q]][k] = o]
                     /\ UNCHANGED <<state, pc, new, parent, children, deadchildren, nforks>>

(* One kind of group: shared with the child, or a new or copied one. *)
ForkGroup(q, k) == /\ At(q, "groups") /\ group[new[q]][k] = None
                   /\ \E o \in Objects :
                        /\ o = group[q][k] \/ refs[o] = 0
                        /\ refs' = [refs EXCEPT ![o] = @ + 1]
                        /\ group' = [group EXCEPT ![new[q]][k] = o]
                   /\ UNCHANGED <<state, pc, new, parent, children, deadchildren, nforks>>

(* FORK_nmem: sysfork() returns ERR, and the new process stays suspended. *)
ForkRefused(q) == /\ At(q, "groups") /\ group[new[q]] = NoGroups
                  /\ new' = [new EXCEPT ![q] = None]
                  /\ Goto(q, "user")
                  /\ UNCHANGED <<state, parent, children, deadchildren, group, refs, nforks>>

(* p->parent = up, and the push on up->children *)
ForkLink(q) == LET c == new[q]
               IN  /\ At(q, "groups") /\ \A k \in Kinds : group[c][k] # None
                   /\ parent' = [parent EXCEPT ![c] = q]
                   /\ children' = [children EXCEPT ![q] = <<c>> \o @]
                   /\ Goto(q, "start")
                   /\ UNCHANGED <<state, new, deadchildren, group, refs, nforks>>

(* forkchild() makes the child ready. *)
ForkStart(q) == /\ At(q, "start")
                /\ state' = [state EXCEPT ![new[q]] = "run"]
                /\ new' = [new EXCEPT ![q] = None]
                /\ Goto(q, "user")
                /\ UNCHANGED <<parent, children, deadchildren, group, refs, nforks>>

(* Mutant: a group that is given up is not forgotten. *)
ExitGroupKeeps(q, k) == /\ At(q, "user") \/ At(q, "exit")
                        /\ group[q][k] # None
                        /\ refs' = [refs EXCEPT ![group[q][k]] = @ - 1]
                        /\ Goto(q, "exit")
                        /\ UNCHANGED <<state, new, parent, children, deadchildren, group, nforks>>

(* procexit(): the groups are given up one after the other. *)
ExitGroup(q, k) == /\ At(q, "user") \/ At(q, "exit")
                   /\ group[q][k] # None
                   /\ refs' = [refs EXCEPT ![group[q][k]] = @ - 1]
                   /\ group' = [group EXCEPT ![q][k] = None]
                   /\ Goto(q, "exit")
                   /\ UNCHANGED <<state, new, parent, children, deadchildren, nforks>>

Adopted(q, par) == [c \in Procs |-> IF Contains(children[q], c) THEN par ELSE parent[c]]

ChildrenGiven(q, par) == [children EXCEPT ![q] = <<>>,
                                          ![par] = RemoveFirst(@ \o children[q], q)]

(* The children go to the end of the parent's list, up leaves it, and the  *)
(* parent is woken if it waits.                                            *)
ExitDead(q) == LET par == parent[q]
               IN  /\ At(q, "exit") /\ group[q] = NoGroups /\ par # None
                   /\ parent' = Adopted(q, par)
                   /\ children' = ChildrenGiven(q, par)
                   /\ deadchildren' = [deadchildren EXCEPT ![par] = <<q>> \o @]
                   /\ state' = [state EXCEPT ![q] = "dead",
                                             ![par] = IF @ = "waitchild" THEN "run" ELSE @]
                   /\ Goto(q, "user")
                   /\ UNCHANGED <<new, group, refs, nforks>>

(* A process that is freed leaves its dead children without a parent. *)
Orphaned(q, par) == [c \in Procs |-> IF c = q \/ par[c] = q THEN None ELSE par[c]]

(* Without a parent the process is freed; its children have none after it, *)
(* and nobody is left to wait for its dead children.                       *)
ExitFree(q) == /\ At(q, "exit") /\ group[q] = NoGroups /\ parent[q] = None
               /\ parent' = Orphaned(q, Adopted(q, None))
               /\ children' = [children EXCEPT ![q] = <<>>]
               /\ deadchildren' = [deadchildren EXCEPT ![q] = <<>>]
               /\ state' = [state EXCEPT ![q] = "free"]
               /\ Goto(q, "user")
               /\ UNCHANGED <<new, group, refs, nforks>>

(* waitchild(): the tests of the two lists are two accesses. *)
WaitDead(q) == /\ At(q, "user")
               /\ Goto(q, IF deadchildren[q] = <<>> THEN "children?" ELSE "pop")
               /\ UNCHANGED <<state, new, parent, children, deadchildren, group, refs, nforks>>

WaitNone(q) == /\ At(q, "children?")
               /\ Goto(q, IF children[q] = <<>> THEN "user" ELSE "sleep")
               /\ UNCHANGED <<state, new, parent, children, deadchildren, group, refs, nforks>>

WaitSleep(q) == /\ At(q, "sleep")
                /\ state' = [state EXCEPT ![q] = "waitchild"]
                /\ Goto(q, "pop")
                /\ UNCHANGED <<new, parent, children, deadchildren, group, refs, nforks>>

(* The first dead child is taken off the list; procfree() frees it. *)
WaitPop(q) == LET c == Head(deadchildren[q])
              IN  /\ At(q, "pop") /\ deadchildren[q] # <<>>
                  /\ deadchildren' = [deadchildren EXCEPT ![q] = Tail(@), ![c] = <<>>]
                  /\ state' = [state EXCEPT ![c] = "free"]
                  /\ parent' = Orphaned(c, parent)
                  /\ Goto(q, "user")
                  /\ UNCHANGED <<new, children, group, refs, nforks>>

Next == \E q \in Procs : \/ ForkNew(q) \/ ForkRefused(q) \/ ForkLink(q) \/ ForkStart(q)
                         \/ \E k \in Kinds : ForkGroup(q, k) \/ ExitGroup(q, k)
                         \/ ExitDead(q) \/ ExitFree(q)
                         \/ WaitDead(q) \/ WaitNone(q) \/ WaitSleep(q) \/ WaitPop(q)

Spec == Init /\ [][Next]_vars
-----------------------------------------------------------------------------
States == {"free", "suspend", "run", "waitchild", "dead"}
TypeOK == /\ state \in [Procs -> States] /\ refs \in [Objects -> Nat] /\ nforks \in 0..MaxForks
          /\ new \in [Procs -> Procs \cup {None}] /\ parent \in [Procs -> Procs \cup {None}]
          /\ group \in [Procs -> [Kinds -> Objects \cup {None}]]
          /\ \A q \in Procs : children[q] \in Seq(Procs) /\ deadchildren[q] \in Seq(Procs)

(* A group has exactly as many references as processes have it: it is not  *)
(* freed under one that still runs, and it is freed with the last one.     *)
Holders(o) == {q \in Procs : \E k \in Kinds : group[q][k] = o}
RefsExact == \A o \in Objects : refs[o] = Cardinality(Holders(o))

(* parent and the two lists agree, through forks, exits of parents and     *)
(* exits of children: a process that has a parent is on exactly one of the *)
(* lists of that parent, on no other, and once.                            *)
Listed(q) == children[q] \o deadchildren[q]
FamilySound == /\ \A q \in Procs : IsInjective(Listed(q))
               /\ \A q, c \in Procs :
                    /\ Contains(children[q], c) => parent[c] = q /\ state[c] \notin {"free", "dead"}
                    /\ Contains(deadchildren[q], c) => parent[c] = q /\ state[c] = "dead"
                    /\ parent[c] = q => Contains(Listed(q), c)

(* Groups and families together: a process that can run has its groups,    *)
(* and its parent can find it, through every fork, exit and wait.          *)
ProcessesSound == RefsExact /\ FamilySound
=============================================================================
