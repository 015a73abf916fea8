-------------------------------- MODULE Names --------------------------------
(***************************************************************************)
(* Name spaces: kern/ngroup.c, findfile() of kern/file.c over it, and the  *)
(* mount, bind and unbind calls of kern/sysfile.c.  An entry of a group    *)
(* binds a fid to the root fid of a mount.  Each mount has its root fid    *)
(* and one directory in it; a path is a number of directories to enter.    *)
(* What a call gives up is released one object at a time, other processes  *)
(* running in between; the lock of a group makes its walks atomic.         *)
(***************************************************************************)
EXTENDS Naturals, FiniteSets, SequencesExt

CONSTANTS Procs, Groups, Bindings, None,
          MaxEntries, MaxPath, \* bounds on the entries of a group and on a path
          MaxLost \* bound on the count a fid may have when a failing lookup forgets it

NamesAssumption == /\ None \notin Procs \cup Groups \cup Bindings
                   /\ MaxEntries \in Nat /\ MaxPath \in Nat /\ MaxLost \in Nat

Null == <<None, "root">>    \* root of the first process: no mount, no attributes
Root(b) == <<b, "root">>
Dir(b) == <<b, "dir">>
Fids == {Null} \cup {<<b, k>> : b \in Bindings, k \in {"root", "dir"}}

VARIABLES grp,     \* the group of each process, None for one that does not exist
          entries, \* bindings of a group: the newest entry first
          fidrefs, refs,  \* refs of fids and of bindings
          srv,     \* the bindings whose mountproc() runs
          open,    \* the bindings whose pipes are open
          call,    \* findfile() and its caller: where it is, what for, the fid it is at,
                   \* what is left of the path, the entry it has found (its number from the
                   \* oldest, 0 when there is none), the first fid of bind
          todo,    \* the fids and bindings a process has still to release
          stale    \* a lookup has used an entry that was removed after it was found

vars == <<grp, entries, fidrefs, refs, srv, open, call, todo, stale>>
mounts == <<srv, open>>

User == [pc |-> "user", op |-> "stat", at |-> Null, left |-> 0, hit |-> 0, held |-> None]

Init == /\ \E first \in Procs, g \in Groups : grp = [q \in Procs |-> IF q = first THEN g ELSE None]
        /\ entries = [g \in Groups |-> <<>>]
        /\ fidrefs = [f \in Fids |-> IF f = Null THEN 1 ELSE 0]
        /\ refs = [b \in Bindings |-> 0] /\ srv = {} /\ open = {}
        /\ call = [q \in Procs |-> User]
        /\ todo = [q \in Procs \cup Bindings |-> <<>>]
        /\ stale = FALSE

At(q, label) == grp[q] # None /\ todo[q] = <<>> /\ call[q].pc = label
Return(q) == call' = [call EXCEPT ![q] = User]
Gives(q, objects) == todo' = [todo EXCEPT ![q] = objects]
Fid(f) == <<"fid", f>>
Binding(b) == <<"binding", b>>
Plus(f) == fidrefs' = [fidrefs EXCEPT ![f] = @ + 1]

(* strtopath() and findfile(): at the root of the process.  bindto is the  *)
(* second lookup of bind.                                                  *)
Call(q, o, n) == /\ At(q, IF o = "bindto" THEN "bind2" ELSE "user")
                 /\ call' = [call EXCEPT ![q].pc = "look", ![q].op = o, ![q].left = n, ![q].at = Null]
                 /\ UNCHANGED <<grp, entries, fidrefs, refs, mounts, todo, stale>>

(* ngroupfindbindingl(): the first entry for the fid.  What it returns is a*)
(* pointer to the entry, which the lock of the group no longer protects.   *)
Found(q) == {i \in DOMAIN entries[grp[q]] : entries[grp[q]][i].bound = call[q].at}
Entry(q) == entries[grp[q]][Len(entries[grp[q]]) + 1 - call[q].hit]

LookHit(q) == /\ At(q, "look") /\ Found(q) # {}
              /\ call' = [call EXCEPT ![q].pc = "take",
                                      ![q].hit = Len(entries[grp[q]]) + 1 - Min(Found(q))]
              /\ Gives(q, IF call[q].at = Null THEN <<>> ELSE <<Fid(call[q].at)>>)
              /\ UNCHANGED <<grp, entries, fidrefs, refs, mounts, stale>>

(* Mutant: the entry is used without a reference of its own. *)
TakeNot(q) == /\ At(q, "take") /\ call[q].hit # 0
              /\ call' = [call EXCEPT ![q].pc = "walk", ![q].at = Entry(q).root, ![q].hit = 0]
              /\ UNCHANGED <<grp, entries, fidrefs, refs, mounts, todo, stale>>

(* b->rootfid is read, and counted, after what was looked up is given up.  *)
Take(q) == /\ At(q, "take") /\ call[q].hit # 0
           /\ Plus(Entry(q).root)
           /\ call' = [call EXCEPT ![q].pc = "walk", ![q].at = Entry(q).root, ![q].hit = 0]
           /\ UNCHANGED <<grp, entries, refs, mounts, todo, stale>>

(* The entry was removed meanwhile: it is freed, or is about to be.        *)
TakeRemoved(q) == /\ At(q, "take") /\ call[q].hit = 0
                  /\ stale' = TRUE
                  /\ UNCHANGED <<grp, entries, fidrefs, refs, mounts, call, todo>>

(* With nothing mounted every path is the empty root. *)
LookNone(q) == /\ At(q, "look") /\ Found(q) = {}
               /\ IF call[q].at = Null THEN Plus(Null) ELSE UNCHANGED fidrefs
               /\ call' = [call EXCEPT ![q].pc = "walk", ![q].left = IF call[q].at = Null THEN 0 ELSE @]
               /\ UNCHANGED <<grp, entries, refs, mounts, todo, stale>>

(* findfileindir(): a new fid counts its parent; the fid before is given up.*)
Walk(q) == LET b == call[q].at[1]
           IN  /\ At(q, "walk") /\ call[q].left > 0 /\ call[q].at = Root(b)
               /\ fidrefs' = [fidrefs EXCEPT ![Dir(b)] = @ + 1,
                                             ![Root(b)] = IF fidrefs[Dir(b)] = 0 THEN @ + 1 ELSE @]
               /\ call' = [call EXCEPT ![q].pc = "look", ![q].at = Dir(b), ![q].left = @ - 1]
               /\ Gives(q, <<Fid(Root(b))>>)
               /\ UNCHANGED <<grp, entries, refs, mounts, stale>>

(* findfile() fails: bind gives its first fid up too.  When only the last  *)
(* name is not there the fid comes back with the error, and no caller here *)
(* gives it up.                                                            *)
WalkFails(q) == LET c == call[q]
                    kept == IF c.held = None THEN <<>> ELSE <<Fid(c.held)>>
                IN  /\ At(q, "walk") /\ c.left > 0
                    /\ \/ Gives(q, <<Fid(c.at)>> \o kept)
                       \/ c.left = 1 /\ fidrefs[c.at] <= MaxLost /\ Gives(q, kept)
                    /\ Return(q)
                    /\ UNCHANGED <<grp, entries, fidrefs, refs, mounts, stale>>

Done(q, o) == At(q, "walk") /\ call[q].left = 0 /\ call[q].op = o

Stat(q) == /\ Done(q, "stat") /\ Gives(q, <<Fid(call[q].at)>>) /\ Return(q)
           /\ UNCHANGED <<grp, entries, fidrefs, refs, mounts, stale>>

(* ngroupaddbinding(): at the front; it counts the binding, and the fids   *)
(* come with the references their caller had.                              *)
Add(q, b, bound, root) ==
    /\ Len(entries[grp[q]]) < MaxEntries
    /\ entries' = [entries EXCEPT ![grp[q]] =
                     <<[binding |-> b, bound |-> bound, root |-> root]>> \o @]

Fresh(b) == /\ refs[b] = 0 /\ b \notin srv /\ todo[b] = <<>>
            /\ fidrefs[Root(b)] = 0 /\ fidrefs[Dir(b)] = 0

(* sysmount(): bindingnew() counts the root fid and mountproc(). *)
Mount(q, b) == /\ Done(q, "mount") /\ Fresh(b)
               /\ Add(q, b, call[q].at, Root(b))
               /\ refs' = [refs EXCEPT ![b] = 3] /\ fidrefs' = [fidrefs EXCEPT ![Root(b)] = 1]
               /\ srv' = srv \cup {b} /\ open' = open \cup {b}
               /\ Return(q)
               /\ UNCHANGED <<grp, todo, stale>>

(* sysbind(): the fid bound is looked up first, the place second. *)
BindOld(q) == /\ Done(q, "bind") /\ call[q].at # Null
              /\ call' = [call EXCEPT ![q].pc = "bind2", ![q].held = call[q].at]
              /\ UNCHANGED <<grp, entries, fidrefs, refs, mounts, todo, stale>>
BindNew(q) == LET b == call[q].held[1]
              IN  /\ Done(q, "bindto")
                  /\ Add(q, b, call[q].at, call[q].held)
                  /\ refs' = [refs EXCEPT ![b] = @ + 1]
                  /\ Return(q)
                  /\ UNCHANGED <<grp, fidrefs, mounts, todo, stale>>

(* sysunbind(): the first entry that has the fid as its root.  A lookup    *)
(* that holds it has no entry any more, one that holds a newer one counts  *)
(* one less to it.                                                         *)
Without(k, q, c) == IF grp[q] # k[1] \/ c.hit < k[2] THEN c
                    ELSE [c EXCEPT !.hit = IF @ = k[2] THEN 0 ELSE @ - 1]
Unbind(q) == LET E == entries[grp[q]]
                 mine == {i \in DOMAIN E : E[i].root = call[q].at}
                 i == Min(mine)
             IN  /\ Done(q, "unbind")
                 /\ IF mine = {} THEN UNCHANGED entries /\ Gives(q, <<Fid(call[q].at)>>) /\ Return(q)
                    ELSE /\ entries' = [entries EXCEPT ![grp[q]] = RemoveAt(@, i)]
                         /\ Gives(q, <<Fid(E[i].bound), Fid(E[i].root), Binding(E[i].binding),
                                       Fid(call[q].at)>>)
                         /\ call' = [p \in Procs |-> IF p = q THEN User
                                       ELSE Without(<<grp[q], Len(E) + 1 - i>>, p, call[p])]
                 /\ UNCHANGED <<grp, fidrefs, refs, mounts, stale>>

(* atomicdec() in bindingfidfree() and bindingfree(): the last reference to*)
(* a fid releases its parent, or for a root its binding; the pipes are     *)
(* closed when only one reference to the binding is left.                  *)
ReleaseFid(q) == LET f == Head(todo[q])[2]
                     next == IF fidrefs[f] > 1 \/ f = Null THEN <<>>
                             ELSE IF f = Root(f[1]) THEN <<Binding(f[1])>> ELSE <<Fid(Root(f[1]))>>
                 IN  /\ todo[q] # <<>> /\ Head(todo[q])[1] = "fid" /\ fidrefs[f] > 0
                     /\ fidrefs' = [fidrefs EXCEPT ![f] = @ - 1]
                     /\ todo' = [todo EXCEPT ![q] = next \o Tail(@)]
                     /\ UNCHANGED <<grp, entries, refs, mounts, call, stale>>
ReleaseBinding(q) == LET b == Head(todo[q])[2]
                     IN  /\ todo[q] # <<>> /\ Head(todo[q])[1] = "binding" /\ refs[b] > 0
                         /\ refs' = [refs EXCEPT ![b] = @ - 1]
                         /\ open' = IF refs[b] > 2 THEN open ELSE open \ {b}
                         /\ todo' = [todo EXCEPT ![q] = Tail(@)]
                         /\ UNCHANGED <<grp, entries, fidrefs, srv, call, stale>>

(* The end of mountproc(), when a read fails or the binding is given up    *)
MountprocEnd(b) == /\ b \in srv
                   /\ srv' = srv \ {b} /\ open' = open \ {b}
                   /\ todo' = [todo EXCEPT ![b] = <<Binding(b)>>]
                   /\ UNCHANGED <<grp, entries, fidrefs, refs, call, stale>>

(* sysfork() with the group shared, copied or new, and procexit().  The    *)
(* references that processes have to the root are never given up, and not  *)
(* counted here.                                                           *)
Members(g) == {q \in Procs : grp[q] = g}
Entries(g, field, x) == Cardinality({i \in DOMAIN entries[g] : entries[g][i][field] = x})
Join(q, c) == /\ At(q, "user") /\ grp[c] = None /\ todo[c] = <<>>
              /\ grp' = [grp EXCEPT ![c] = grp[q]]
              /\ UNCHANGED <<entries, fidrefs, refs, mounts, call, todo, stale>>
NgroupNew(q, c, g) == /\ At(q, "user") /\ grp[c] = None /\ todo[c] = <<>> /\ Members(g) = {}
                      /\ grp' = [grp EXCEPT ![c] = g]
                      /\ entries' = [entries EXCEPT ![g] = <<>>]
                      /\ UNCHANGED <<fidrefs, refs, mounts, call, todo, stale>>
NgroupCopy(q, c, g) ==
    LET o == grp[q]
    IN  /\ At(q, "user") /\ grp[c] = None /\ todo[c] = <<>> /\ Members(g) = {}
        /\ grp' = [grp EXCEPT ![c] = g]
        /\ entries' = [entries EXCEPT ![g] = entries[o]]
        /\ refs' = [b \in Bindings |-> refs[b] + Entries(o, "binding", b)]
        /\ fidrefs' = [f \in Fids |-> fidrefs[f] + Entries(o, "bound", f) + Entries(o, "root", f)]
        /\ UNCHANGED <<mounts, call, todo, stale>>
Exit(q) == LET g == grp[q]
           IN  /\ At(q, "user")
               /\ grp' = [grp EXCEPT ![q] = None]
               /\ IF Members(g) # {q} THEN UNCHANGED <<entries, todo>>
                  ELSE /\ entries' = [entries EXCEPT ![g] = <<>>]
                       /\ Gives(q, FlattenSeq([i \in DOMAIN entries[g] |->
                              LET e == entries[g][i]
                              IN  <<Binding(e.binding), Fid(e.bound), Fid(e.root)>>]))
               /\ UNCHANGED <<fidrefs, refs, mounts, call, stale>>

(* Nothing is said after stale, and the model stops there. *)
Next == ~stale /\
        \/ \E q \in Procs :
             \/ \E n \in 0..MaxPath, o \in {"stat", "mount", "bind", "bindto", "unbind"} : Call(q, o, n)
             \/ LookHit(q) \/ Take(q) \/ TakeRemoved(q) \/ LookNone(q) \/ Walk(q) \/ WalkFails(q)
             \/ Stat(q) \/ BindOld(q) \/ BindNew(q) \/ Unbind(q) \/ Exit(q)
             \/ \E b \in Bindings : Mount(q, b)
             \/ \E c \in Procs : Join(q, c) \/ \E g \in Groups : NgroupNew(q, c, g) \/ NgroupCopy(q, c, g)
        \/ \E q \in Procs \cup Bindings : ReleaseFid(q) \/ ReleaseBinding(q)
        \/ \E b \in Bindings : MountprocEnd(b)

Spec == Init /\ [][Next]_vars
-----------------------------------------------------------------------------
TypeOK == /\ grp \in [Procs -> Groups \cup {None}] /\ \A q \in Procs : call[q].at \in Fids
          /\ fidrefs \in [Fids -> Nat] /\ refs \in [Bindings -> Nat] /\ stale \in BOOLEAN
          /\ srv \subseteq Bindings /\ open \subseteq Bindings
          /\ \A g \in Groups : Len(entries[g]) <= MaxEntries

(* Until a lookup uses an entry that was removed after it was found: a     *)
(* mount is counted by the entries of all name spaces, by its root fid     *)
(* while that lives, by its server process and by releases under way; it is*)
(* freed with the last of them, and every entry leads to fids not freed.   *)
InAll(field, x) == Cardinality({e \in Groups \X (1..MaxEntries) :
                     e[2] <= Len(entries[e[1]]) /\ entries[e[1]][e[2]][field] = x})
Pending(x) == Cardinality({r \in (Procs \cup Bindings) \X (1..3 * MaxEntries + 1) :
                r[2] <= Len(todo[r[1]]) /\ todo[r[1]][r[2]] = x})
Bool(p) == IF p THEN 1 ELSE 0
MountsCounted ==
    stale \/
    /\ \A b \in Bindings :
         refs[b] = InAll("binding", b) + Bool(fidrefs[Root(b)] > 0) + Bool(b \in srv) + Pending(Binding(b))
    /\ \A g \in Groups : \A i \in DOMAIN entries[g] :
         LET e == entries[g][i] IN fidrefs[e.bound] > 0 /\ fidrefs[e.root] > 0 /\ refs[e.binding] > 1

(* Requests can reach a mount for as long as a name leads to it: its pipes *)
(* are closed before only when its server process has ended.               *)
ReachableOpen ==
    stale \/ \A g \in Groups : \A i \in DOMAIN entries[g] :
                 entries[g][i].binding \in srv => entries[g][i].binding \in open

(* A mount lasts, and answers, for as long as a name leads to it. *)
MountsKept == MountsCounted /\ ReachableOpen
=============================================================================
