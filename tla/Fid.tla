-------------------------------- MODULE Fid --------------------------------
(***************************************************************************)
(* kern/file.c: the fids of one mount.  findfile() walks a path from the   *)
(* root, taking a reference of each fid and giving up that of its parent;  *)
(* findfileindir() looks among the children and else asks the server;      *)
(* fileopen() creates a file; bindingfidfree() gives up a reference and,   *)
(* with the last one, clunks the fid, takes it off its parent's list and   *)
(* gives up the reference it held of the parent.  One action per access to *)
(* a fid that another process can see (see Lock for the execution model);  *)
(* makereq() is one step, as Exchange promises for a link that works, and  *)
(* may fail.  An access to a fid that has been freed sets ub, and the      *)
(* system stops there; malloc() never returns the same memory again.       *)
(***************************************************************************)
EXTENDS Integers, Sequences, FiniteSets

CONSTANTS Procs,    \* processes that use files of the mount
          Objs,     \* memory for fids
          root,     \* the fid of the root, which the name space keeps
          Files,    \* files the server may have
          Dirs,     \* those that are directories
          Root,     \* the root directory
          Child,    \* Child[<<d, s>>]: the file named s in d, where there may be one
          Paths,    \* paths that are looked up: sequences of names
          Made,     \* the files the server starts with
          MaxCalls, \* calls a process makes, at most (a bound)
          None

Names == UNION {{path[i] : i \in DOMAIN path} : path \in Paths}
MaxCount == 65535  \* 2^16 - 1 stands for 2^32 - 1, the largest unsigned count

ASSUME FidAssumption == /\ root \in Objs /\ Root \in Dirs /\ Dirs \subseteq Files
                        /\ None \notin Objs \cup Files
                        /\ Root \in Made /\ Made \subseteq Files
                        /\ \A path \in Paths : path \in Seq(Names) /\ path # <<>>
                        /\ Child \in [Dirs \X Names -> Files]
                        /\ MaxCalls \in Nat

(* There are fewer references than can be counted: a process has three at  *)
(* most, a fid one of its parent, and a call may leave one behind.         *)
ASSUME FewReferences == /\ IsFiniteSet(Procs) /\ IsFiniteSet(Objs)
                        /\ 3 * Cardinality(Procs) + Cardinality(Objs)
                             + Cardinality(Procs \X (1..MaxCalls)) + 1 < MaxCount

VARIABLES fids,   \* fids[o]: mem ("new", "used" or "freed"), refs, file, name, parent, children, cnext
          l,      \* l[q]: the locals of q: path, create, fid, new, c, p, n, stack, then
          pc,     \* where a process is
          calls,  \* calls[q]: calls q has made
          made,   \* the files the server has
          served, \* served[f]: fids of f the server has given out and that were not clunked
          leaked, \* leaked[o]: the calls that left a reference of o which nobody gives up (history)
          raised, \* a reference was taken of a fid that had none (history)
          ub

vars == <<fids, l, pc, calls, made, served, leaked, raised, ub>>

Unused == [mem |-> "new", refs |-> 0, file |-> None, name |-> None, parent |-> None,
           children |-> None, cnext |-> None]

(* What findfile() and fileopen() make of a new fid. *)
NewFid(file, name, parent) == [mem |-> "used", refs |-> 1, file |-> file, name |-> name, parent |-> parent,
                               children |-> None, cnext |-> None]

Locals(path, create, fid) == [path |-> path, create |-> create, fid |-> fid, new |-> None, c |-> None,
                              p |-> None, n |-> None, stack |-> <<>>, then |-> "idle"]
Clear == Locals(<<>>, FALSE, None)

Init == /\ fids = [o \in Objs |-> IF o = root THEN NewFid(Root, None, None) ELSE Unused]
        /\ l = [q \in Procs |-> Clear]
        /\ pc = [q \in Procs |-> "idle"]
        /\ calls = [q \in Procs |-> 0]
        /\ made = Made
        /\ served = [f \in Files |-> IF f = Root THEN 1 ELSE 0]
        /\ leaked = [o \in Objs |-> {}]
        /\ raised = FALSE /\ ub = FALSE

Inc(n) == IF n = MaxCount THEN 0 ELSE n + 1
Less(n) == IF n = 0 THEN MaxCount ELSE n - 1

At(q, label) == pc[q] = label /\ ~ub
Goto(q, label) == pc' = [pc EXCEPT ![q] = label]
Live(o) == o # None /\ fids[o].mem = "used"
Top(q) == Head(l[q].stack)

(* The fids whose memory the next step of q reads or writes. *)
Touches(q) == CASE pc[q] \in {"dir", "grow", "load", "push"} -> {l[q].fid}
                [] pc[q] \in {"scan", "take"} -> {l[q].c}
                [] pc[q] \in {"dec", "clunk", "free"} -> {Top(q)}
                [] pc[q] = "find" -> {Top(q), fids[Top(q)].parent}
                [] pc[q] = "walk" -> {l[q].c}
                [] pc[q] = "cas" -> {Top(q), IF l[q].p = None THEN fids[Top(q)].parent ELSE l[q].p}
                [] OTHER -> {}

Undefined(q) == /\ ~ub /\ \E o \in Touches(q) \ {None} : ~Live(o)
                /\ ub' = TRUE
                /\ UNCHANGED <<fids, l, pc, calls, made, served, leaked, raised>>

Defined(q, label) == At(q, label) /\ \A o \in Touches(q) \ {None} : Live(o)

(* Give up o, and go on at then; the reference in l[q].fid is used up. *)
GiveUp(q, o, then, new) ==
  /\ l' = [l EXCEPT ![q].stack = <<o>>, ![q].then = then, ![q].fid = None, ![q].new = new,
                    ![q].c = None]
  /\ Goto(q, "dec")

(* A call that failed: with create set, fileopen() reads fid->attr through  *)
(* nil, and trap() ends the process.                                       *)
Failed(q) == IF l[q].create THEN "dead" ELSE "idle"
-----------------------------------------------------------------------------
(* findfile() *)

(* Take a reference of the root. *)
Call(q, path, create) ==
  /\ At(q, "idle") /\ calls[q] < MaxCalls
  /\ calls' = [calls EXCEPT ![q] = @ + 1]
  /\ l' = [l EXCEPT ![q] = Locals(path, create, root)]
  /\ fids' = [fids EXCEPT ![root].refs = Inc(@)]
  /\ Goto(q, "dir")
  /\ UNCHANGED <<made, served, leaked, raised, ub>>

(* A file is no directory: give it up and fail.  Else load fid->children.  *)
Enter(q) ==
  /\ Defined(q, "dir")
  /\ LET fid == l[q].fid IN
     \/ /\ fids[fid].file \notin Dirs
        /\ GiveUp(q, fid, Failed(q), None)
     \/ /\ fids[fid].file \in Dirs
        /\ l' = [l EXCEPT ![q].c = fids[fid].children]
        /\ Goto(q, "scan")
  /\ UNCHANGED <<fids, calls, made, served, leaked, raised, ub>>

Scan(q) ==
  /\ Defined(q, "scan") /\ l[q].c # None
  /\ LET c == l[q].c IN
     \/ /\ fids[c].name = Head(l[q].path) /\ Goto(q, "take") /\ UNCHANGED l
     \/ /\ fids[c].name # Head(l[q].path)
        /\ l' = [l EXCEPT ![q].c = fids[c].cnext] /\ UNCHANGED pc
  /\ UNCHANGED <<fids, calls, made, served, leaked, raised, ub>>

(* Mutant: the child is returned without a reference. *)
TakeBare(q) ==
  /\ Defined(q, "take")
  /\ GiveUp(q, l[q].fid, "next", l[q].c)
  /\ UNCHANGED <<fids, calls, made, served, leaked, raised, ub>>

(* atomicinc(&nfid->refs), and the parent is given up. *)
Take(q) ==
  /\ Defined(q, "take")
  /\ LET c == l[q].c IN
     /\ fids' = [fids EXCEPT ![c].refs = Inc(@)]
     /\ raised' = (raised \/ fids[c].refs = 0)
     /\ GiveUp(q, l[q].fid, "next", c)
  /\ UNCHANGED <<calls, made, served, leaked, ub>>

File(q) == Child[<<fids[l[q].fid].file, Head(l[q].path)>>]
Ask(q) == At(q, "scan") /\ l[q].c = None

(* The link is broken, or the server refuses. *)
AskFails(q) ==
  /\ Ask(q) \/ At(q, "create")
  /\ GiveUp(q, l[q].fid, IF Ask(q) THEN Failed(q) ELSE "idle", None)
  /\ UNCHANGED <<fids, calls, made, served, leaked, raised, ub>>

(* ENOCHILD: for the last name findfile() returns the directory, with its  *)
(* reference.  fileopen() creates a file there, or forgets the reference,  *)
(* as the other callers do.                                                *)
NoChild(q) ==
  /\ Ask(q) /\ File(q) \notin made
  /\ LET fid == l[q].fid IN
     \/ /\ Len(l[q].path) > 1 /\ GiveUp(q, fid, Failed(q), None) /\ UNCHANGED leaked
     \/ /\ Len(l[q].path) = 1 /\ l[q].create
        /\ Goto(q, "create") /\ UNCHANGED <<l, leaked>>
     \/ /\ Len(l[q].path) = 1 /\ ~l[q].create
        /\ leaked' = [leaked EXCEPT ![fid] = @ \cup {<<q, calls[q]>>}]
        /\ l' = [l EXCEPT ![q] = Clear]
        /\ Goto(q, "idle")
  /\ UNCHANGED <<fids, calls, made, served, raised, ub>>

(* The server gives out a fid, or makes a file; malloc() returns memory for *)
(* it.  The new fid refers to its parent, but has not yet counted itself.  *)
Answer(q, o) ==
  /\ (Ask(q) /\ File(q) \in made) \/ At(q, "create")
  /\ fids[o].mem = "new"
  /\ made' = made \cup {File(q)}
  /\ served' = [served EXCEPT ![File(q)] = @ + 1]
  /\ fids' = [fids EXCEPT ![o] = NewFid(File(q), Head(l[q].path), l[q].fid)]
  /\ l' = [l EXCEPT ![q].new = o]
  /\ Goto(q, "grow")
  /\ UNCHANGED <<calls, leaked, raised, ub>>

(* Mutant: the result of malloc() is not tested. *)
NoMemoryMissed(q) ==
  /\ (Ask(q) /\ File(q) \in made) \/ At(q, "create")
  /\ made' = made \cup {File(q)}
  /\ served' = [served EXCEPT ![File(q)] = @ + 1]
  /\ GiveUp(q, l[q].fid, "next", None)
  /\ UNCHANGED <<fids, calls, leaked, raised, ub>>

(* ENOMEM: the fid the server gave out is never clunked. *)
NoMemory(q) ==
  /\ (Ask(q) /\ File(q) \in made) \/ At(q, "create")
  /\ made' = made \cup {File(q)}
  /\ served' = [served EXCEPT ![File(q)] = @ + 1]
  /\ GiveUp(q, l[q].fid, IF Ask(q) THEN Failed(q) ELSE "idle", None)
  /\ UNCHANGED <<fids, calls, leaked, raised, ub>>

(* Mutant: a new fid does not count as a reference of its parent. *)
GrowNot(q) == /\ Defined(q, "grow")
              /\ Goto(q, "load")
              /\ UNCHANGED <<fids, l, calls, made, served, leaked, raised, ub>>

(* atomicinc(&fid->refs) *)
Grow(q) == /\ Defined(q, "grow")
           /\ fids' = [fids EXCEPT ![l[q].fid].refs = Inc(@)]
           /\ Goto(q, "load")
           /\ UNCHANGED <<l, calls, made, served, leaked, raised, ub>>

LoadChildren(q) ==
  /\ Defined(q, "load")
  /\ fids' = [fids EXCEPT ![l[q].new].cnext = fids[l[q].fid].children]
  /\ Goto(q, "push")
  /\ UNCHANGED <<l, calls, made, served, leaked, raised, ub>>

(* Mutant: the push is a plain store. *)
PushBlind(q) ==
  /\ Defined(q, "push")
  /\ LET fid == l[q].fid new == l[q].new IN
     /\ fids' = [fids EXCEPT ![fid].children = new]
     /\ GiveUp(q, fid, "next", new)
  /\ UNCHANGED <<calls, made, served, leaked, raised, ub>>

Push(q) ==
  /\ Defined(q, "push")
  /\ LET fid == l[q].fid new == l[q].new IN
     /\ fids[fid].children = fids[new].cnext
     /\ fids' = [fids EXCEPT ![fid].children = new]
     /\ GiveUp(q, fid, "next", new)
  /\ UNCHANGED <<calls, made, served, leaked, raised, ub>>

PushFails(q) == /\ Defined(q, "push")
                /\ Goto(q, "load")
                /\ UNCHANGED <<fids, l, calls, made, served, leaked, raised, ub>>

(* A caller that is done with the file: filestat(), fileclose(). *)
Drop(q) == /\ At(q, "hold")
           /\ GiveUp(q, l[q].fid, "idle", None)
           /\ UNCHANGED <<fids, calls, made, served, leaked, raised, ub>>
-----------------------------------------------------------------------------
(* bindingfidfree() *)

(* A call of bindingfidfree() returns: to the one that freed a child, or    *)
(* to findfile(), which goes on with the child, or to the end of the call. *)
Back(q) ==
  LET s == l[q].stack IN
  IF Len(s) > 1
  THEN l' = [l EXCEPT ![q].stack = Tail(s)] /\ Goto(q, "free")
  ELSE IF l[q].then = "next"
  THEN /\ l' = [l EXCEPT ![q].path = Tail(@), ![q].fid = l[q].new, ![q].new = None, ![q].stack = <<>>]
       /\ Goto(q, IF Len(l[q].path) > 1 THEN "dir" ELSE "hold")
  ELSE /\ l' = [l EXCEPT ![q] = Clear]
       /\ Goto(q, l[q].then)

Dec(q) ==
  /\ Defined(q, "dec")
  /\ LET o == Top(q) IN
     /\ fids' = [fids EXCEPT ![o].refs = Less(@)]
     /\ IF Less(fids[o].refs) > 0 THEN Back(q) ELSE Goto(q, "clunk") /\ UNCHANGED l
  /\ UNCHANGED <<calls, made, served, leaked, raised, ub>>

(* makereq(): with a broken link the server never hears of it.  The root,   *)
(* which has no parent, is followed by bindingfree() (see Mount).          *)
Clunk(q) ==
  /\ Defined(q, "clunk")
  /\ \/ served' = [served EXCEPT ![fids[Top(q)].file] = @ - 1]
     \/ UNCHANGED served
  /\ Goto(q, IF fids[Top(q)].parent = None THEN "free" ELSE "find")
  /\ UNCHANGED <<fids, l, calls, made, leaked, raised, ub>>

FindChild(q) ==
  /\ Defined(q, "find")
  /\ l' = [l EXCEPT ![q].c = fids[fids[Top(q)].parent].children, ![q].p = None]
  /\ Goto(q, "walk")
  /\ UNCHANGED <<fids, calls, made, served, leaked, raised, ub>>

(* The argument fid->cnext of the cas is loaded when o is found. *)
WalkChild(q) ==
  /\ Defined(q, "walk")
  /\ LET c == l[q].c IN
     \/ /\ c = Top(q)
        /\ l' = [l EXCEPT ![q].n = fids[c].cnext] /\ Goto(q, "cas")
     \/ /\ c \notin {Top(q), None}
        /\ l' = [l EXCEPT ![q].p = c, ![q].c = fids[c].cnext] /\ UNCHANGED pc
  /\ UNCHANGED <<fids, calls, made, served, leaked, raised, ub>>

(* The parent is next to be given up. *)
Up(q) == /\ l' = [l EXCEPT ![q].stack = <<fids[Top(q)].parent>> \o @,
                           ![q].c = None, ![q].p = None, ![q].n = None]
         /\ Goto(q, "dec")

(* Another process has taken it off the list. *)
NotFound(q) == /\ At(q, "walk") /\ l[q].c = None
               /\ Up(q)
               /\ UNCHANGED <<fids, calls, made, served, leaked, raised, ub>>

Remove(q) ==
  /\ Defined(q, "cas")
  /\ LET o == Top(q) p == l[q].p IN
     \/ /\ p = None /\ fids[fids[o].parent].children = o
        /\ fids' = [fids EXCEPT ![fids[o].parent].children = l[q].n]
     \/ /\ p # None /\ fids[p].cnext = o
        /\ fids' = [fids EXCEPT ![p].cnext = l[q].n]
  /\ Up(q)
  /\ UNCHANGED <<calls, made, served, leaked, raised, ub>>

RemoveFails(q) == /\ Defined(q, "cas")
                  /\ l' = [l EXCEPT ![q].c = None, ![q].p = None, ![q].n = None]
                  /\ Goto(q, "find")
                  /\ UNCHANGED <<fids, calls, made, served, leaked, raised, ub>>

Free(q) == /\ Defined(q, "free")
           /\ fids' = [fids EXCEPT ![Top(q)].mem = "freed"]
           /\ Back(q)
           /\ UNCHANGED <<calls, made, served, leaked, raised, ub>>
-----------------------------------------------------------------------------
Finds(q) == \/ \E path \in Paths, create \in BOOLEAN : Call(q, path, create)
            \/ Enter(q) \/ Scan(q) \/ Take(q) \/ AskFails(q) \/ NoChild(q)
            \/ \E o \in Objs : Answer(q, o)
            \/ NoMemory(q) \/ Grow(q) \/ LoadChildren(q) \/ Push(q) \/ PushFails(q) \/ Drop(q)

Frees(q) == \/ Dec(q) \/ Clunk(q) \/ FindChild(q) \/ WalkChild(q) \/ NotFound(q)
            \/ Remove(q) \/ RemoveFails(q) \/ Free(q)

Next == \E q \in Procs : Finds(q) \/ Frees(q) \/ Undefined(q)

Spec == Init /\ [][Next]_vars
-----------------------------------------------------------------------------
(* Type invariant: the fids, and no fid that is used is nil. *)
TypeOK == /\ fids \in [Objs -> [mem : {"new", "used", "freed"}, refs : 0..MaxCount, file : Files \cup {None},
                                name : Names \cup {None},
                                parent : Objs \cup {None}, children : Objs \cup {None},
                                cnext : Objs \cup {None}]]
          /\ made \subseteq Files
          /\ \A q \in Procs : l[q].fid \in
               IF pc[q] \in {"dir", "scan", "take", "create", "grow", "load", "push", "hold"}
               THEN Objs ELSE {None}

(* x is being freed by q, and has given up its reference of the parent. *)
LetGo(q, x) == \E i \in DOMAIN l[q].stack : l[q].stack[i] = x /\ (i > 1 \/ pc[q] = "free")
Growing(q, x) == pc[q] = "grow" /\ l[q].new = x

(* x is counted as a reference of its parent o. *)
Counted(x, o) == /\ fids[x].mem = "used" /\ fids[x].parent = o
                 /\ \A q \in Procs : ~LetGo(q, x) /\ ~Growing(q, x)

(* The references of o: of processes, of children, those for ever, and for *)
(* the root that of the name space.                                        *)
Holders(o) ==
  Cardinality({q \in Procs : l[q].fid = o}) + Cardinality({q \in Procs : l[q].new = o})
  + Cardinality({q \in Procs : pc[q] = "dec" /\ Top(q) = o})
  + Cardinality({x \in Objs : Counted(x, o)})
  + Cardinality(leaked[o]) + (IF o = root THEN 1 ELSE 0)

(* As long as no reference was taken of a fid that had none, the count of   *)
(* each fid is the number of its references, on every path through         *)
(* findfile() and bindingfidfree(), failures included.                     *)
CountsExact == ~raised => \A o \in Objs : fids[o].mem = "used" => fids[o].refs = Holders(o)

(* "Free parent binding, should not clunk it as we have a reference to its  *)
(* child" (findfile()): the reference of the parent given up on the way is *)
(* not the last one, as long as no fid without references was taken.       *)
ParentKept == ~raised => \A q \in Procs :
  pc[q] = "dec" /\ l[q].then = "next" /\ Len(l[q].stack) = 1 => fids[Top(q)].refs > 1

(* The children the list of d leads to, through whatever memory: they are  *)
(* in every set that has the first one and is closed under cnext.          *)
Closed(X) == \A x \in X : fids[x].cnext \in X \cup {None}
Listed(d) == {x \in Objs : \A X \in SUBSET Objs :
                Closed(X) /\ fids[d].children \in X \cup {None} => x \in X}

(* A fid in use is found by the next lookup of its name: neither a push nor *)
(* a removal nearby takes it off its parent's list.                        *)
InUseIsListed ==
  ~raised => \A x \in Objs \ {root} :
    fids[x].mem = "used" /\ fids[x].refs > 0 =>
      \/ x \in Listed(fids[x].parent)
      \/ \E q \in Procs : pc[q] \in {"grow", "load", "push"} /\ l[q].new = x

(* The server has not been told to forget a file that a fid in use names:   *)
(* each fid it gave out is clunked once, and not before its last reference *)
(* is given up.                                                            *)
ServerKeepsInUse ==
  ~raised => \A f \in Files :
    served[f] >= Cardinality({x \in Objs : fids[x].mem = "used" /\ fids[x].file = f
                                           /\ fids[x].refs > 0})

(* A file in use stays known on both sides: to the next lookup in the      *)
(* kernel and to its server.                                               *)
InUseKept == InUseIsListed /\ ServerKeepsInUse
=============================================================================
