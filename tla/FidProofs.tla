------------------------------ MODULE FidProofs ------------------------------
(***************************************************************************)
(* The reference counts of the fids of one mount (kern/file.c), for any    *)
(* number of processes and fids and any tree of names.  BaseInv is what    *)
(* holds whatever happens: types, no pointer to memory that was never a    *)
(* fid, and the locals each step of a lookup relies on.  CoreInv holds     *)
(* until a reference is taken of a fid without references (raised):        *)
(*   - RefInv: the count of a fid is the number of its references;         *)
(*   - FreeInv: a fid whose last reference was given up is freed by one    *)
(*     process, once, and nobody counts on it;                             *)
(*   - PushInv: nobody else knows of a fid that is not on a list yet;      *)
(*   - ListInv: the links lead among the children of one fid;              *)
(*   - KeepInv: who gives up a directory on the way has a child of it;     *)
(*   - UseInv: the lists are in the order in which fids were put on them,  *)
(*     a removal misses nobody in use (OrderInv), and the server has given *)
(*     out a fid for each that it was not told to forget (ServeInv).       *)
(* One lemma for each action says what it does (CallHere ... FreeHere),    *)
(* one for each part of the invariants that every action keeps it.         *)
(***************************************************************************)
EXTENDS Fid, FiniteSetTheorems, SequenceTheorems, WellFoundedInduction, TLAPS

Labels == {"idle", "dead", "dir", "scan", "take", "create", "grow", "load", "push", "hold",
           "dec", "clunk", "find", "walk", "cas", "free"}
FidPcs == {"dir", "scan", "take", "create", "grow", "load", "push", "hold"}
Pushing == {"grow", "load", "push"}
Ending == {"clunk", "find", "walk", "cas", "free"}
Giving == {"dec"} \cup Ending
Some == Objs \cup {None}

FidType == [mem : {"new", "used", "freed"}, refs : 0..MaxCount, file : Files \cup {None},
            name : Names \cup {None}, parent : Some, children : Some, cnext : Some]
LocalType == [path : Seq(Names), create : BOOLEAN, fid : Some, new : Some, c : Some, p : Some,
              n : Some, stack : Seq(Objs), then : {"idle", "dead", "next"}]
TypeInv ==
  /\ fids \in [Objs -> FidType] /\ l \in [Procs -> LocalType]
  /\ pc \in [Procs -> Labels] /\ calls \in [Procs -> 0..MaxCalls] /\ made \subseteq Files
  /\ leaked \in [Objs -> SUBSET (Procs \X (1..MaxCalls))]

(* No reference leads to memory that was never a fid. *)
Known(f, o) == o = None \/ (o \in Objs /\ f[o].mem # "new")
KnownInv ==
  /\ Known(fids, root)
  /\ \A o \in Objs : Known(fids, fids[o].parent) /\ Known(fids, fids[o].children) /\ Known(fids, fids[o].cnext)
  /\ \A q \in Procs : /\ Known(fids, l[q].fid) /\ Known(fids, l[q].new)
                      /\ Known(fids, l[q].c) /\ Known(fids, l[q].p) /\ Known(fids, l[q].n)
                      /\ \A i \in DOMAIN l[q].stack : Known(fids, l[q].stack[i])

(* What the locals of q are where it is. *)
Placed(q) ==
  /\ l[q].fid # None <=> pc[q] \in FidPcs
  /\ l[q].stack # <<>> <=> pc[q] \in Giving
  /\ l[q].new # None <=> pc[q] \in Pushing \/ (pc[q] \in Giving /\ l[q].then = "next")
  /\ pc[q] \in FidPcs \ {"hold"} \/ l[q].new # None => l[q].path # <<>>
  /\ pc[q] \in {"find", "walk", "cas"} => fids[Top(q)].parent # None
  /\ pc[q] = "take" => l[q].c # None
  /\ pc[q] \in {"scan", "create"} => fids[l[q].fid].file \in Dirs
  /\ pc[q] # "idle" => calls[q] > 0
PlaceInv == \A q \in Procs : Placed(q)

(* A call leaves at most one reference behind. *)
CallInv == \A o \in Objs : \A q \in Procs, k \in 1..MaxCalls : <<q, k>> \in leaked[o] =>
            k <= calls[q] /\ (pc[q] \notin {"idle", "dead"} => k < calls[q])

BaseInv == TypeInv /\ KnownInv /\ PlaceInv /\ CallInv

LEMMA InitBase == Init => BaseInv
<1> SUFFICES ASSUME Init PROVE BaseInv
  OBVIOUS
<1> USE FidAssumption DEF Init
<1>1. TypeInv
  <2>1. <<>> \in Seq(Names) /\ <<>> \in Seq(Objs)
    OBVIOUS
  <2>2. Clear \in LocalType
    BY <2>1 DEF Clear, Locals, Some, LocalType
  <2>3. Unused \in FidType
    BY DEF Unused, Some, FidType, MaxCount
  <2>4. NewFid(Root, None, None) \in FidType
    BY DEF NewFid, Some, FidType, MaxCount
  <2>5. fids \in [Objs -> FidType]
    BY <2>3, <2>4
  <2> QED BY <2>2, <2>5 DEF TypeInv, Labels
<1>2. KnownInv
  BY DEF KnownInv, Known, Clear, Locals, Unused, NewFid
<1>3. PlaceInv
  BY DEF PlaceInv, Placed, Clear, Locals, FidPcs, Giving, Ending, Pushing
<1>4. CallInv
  BY DEF CallInv
<1> QED BY <1>1, <1>2, <1>3, <1>4 DEF BaseInv

(* The head of a stack that is not empty, and the rest. *)
LEMMA StackHead ==
  ASSUME NEW s \in Seq(Objs), s # <<>>
  PROVE  /\ (Len(s) = 1 /\ ~(Len(s) > 1)) \/ Len(s) > 1
         /\ Len(s) \in Nat /\ Len(s) > 0 /\ 1 \in DOMAIN s /\ DOMAIN s = 1..Len(s)
         /\ Head(s) = s[1] /\ Head(s) \in Objs
         /\ Tail(s) \in Seq(Objs) /\ Len(Tail(s)) = Len(s) - 1
         /\ DOMAIN Tail(s) = 1..Len(s) - 1
         /\ \A i \in 1..Len(s) - 1 : Tail(s)[i] = s[i + 1]
<1>1. Len(s) \in Nat /\ Len(s) > 0 /\ DOMAIN s = 1..Len(s) /\ Head(s) = s[1] /\ s[1] \in Objs
  OBVIOUS
<1> QED BY <1>1, HeadTailProperties

(* Where a process is, its locals are defined. *)
LEMMA Here ==
  ASSUME BaseInv, NEW q \in Procs
  PROVE  /\ l[q] \in LocalType /\ pc[q] \in Labels
         /\ pc[q] \in FidPcs => l[q].fid \in Objs /\ fids[l[q].fid] \in FidType
         /\ pc[q] \in Pushing => l[q].new \in Objs /\ fids[l[q].new] \in FidType
         /\ pc[q] \in Giving => Top(q) \in Objs /\ fids[Top(q)] \in FidType /\ l[q].stack # <<>>
         /\ pc[q] \in {"find", "walk", "cas"} => fids[Top(q)].parent \in Objs
         /\ l[q].c # None => l[q].c \in Objs /\ fids[l[q].c] \in FidType
         /\ l[q].p # None => l[q].p \in Objs /\ fids[l[q].p] \in FidType
<1>1. l[q] \in LocalType /\ pc[q] \in Labels /\ Placed(q)
  BY DEF BaseInv, TypeInv, PlaceInv
<1>2. pc[q] \in Giving => Top(q) \in Objs /\ l[q].stack # <<>>
  BY <1>1, StackHead DEF Placed, LocalType, Top
<1>3. \A o \in Objs : fids[o] \in FidType
  BY DEF BaseInv, TypeInv
<1>4. pc[q] \in {"find", "walk", "cas"} => fids[Top(q)].parent \in Objs
  BY <1>1, <1>2, <1>3 DEF Placed, FidType, Some, Giving, Ending
<1> QED BY <1>1, <1>2, <1>3, <1>4 DEF Placed, LocalType, Some, FidPcs, Pushing

LEMMA GiveUpType ==
  ASSUME BaseInv, NEW q \in Procs, NEW o \in Objs, NEW then \in {"idle", "dead", "next"},
         NEW new \in Some, GiveUp(q, o, then, new)
  PROVE  l' \in [Procs -> LocalType] /\ pc' \in [Procs -> Labels]
<1>1. <<o>> \in Seq(Objs) /\ l[q] \in LocalType /\ l \in [Procs -> LocalType] /\ pc \in [Procs -> Labels]
  BY DEF BaseInv, TypeInv
<1>2. [l[q] EXCEPT !.stack = <<o>>, !.then = then, !.fid = None, !.new = new, !.c = None] \in LocalType
  BY <1>1 DEF LocalType, Some
<1> QED BY <1>1, <1>2 DEF GiveUp, Goto, Labels

LEMMA BackType ==
  ASSUME BaseInv, NEW q \in Procs, pc[q] \in Giving, Back(q)
  PROVE  l' \in [Procs -> LocalType] /\ pc' \in [Procs -> Labels]
<1>1. l[q] \in LocalType /\ l \in [Procs -> LocalType] /\ pc \in [Procs -> Labels] /\ Placed(q)
  BY DEF BaseInv, TypeInv, PlaceInv
<1>2. Tail(l[q].stack) \in Seq(Objs) /\ Len(l[q].stack) \in Nat
  BY <1>1, Here, StackHead DEF LocalType
<1>4. CASE Len(l[q].stack) > 1
  <2>1. [l[q] EXCEPT !.stack = Tail(l[q].stack)] \in LocalType
    BY <1>1, <1>2 DEF LocalType
  <2> QED BY <1>1, <1>4, <2>1 DEF Back, Goto, Labels
<1>5. CASE ~(Len(l[q].stack) > 1) /\ l[q].then = "next"
  <2>1. l[q].path # <<>> /\ l[q].path \in Seq(Names)
    BY <1>1, <1>5 DEF Placed, LocalType
  <2>2. Tail(l[q].path) \in Seq(Names) /\ <<>> \in Seq(Objs) /\ l[q].new \in Some /\ None \in Some
    BY <1>1, <2>1 DEF LocalType, Some
  <2>3. [l[q] EXCEPT !.path = Tail(l[q].path), !.fid = l[q].new, !.new = None, !.stack = <<>>] \in LocalType
    BY <1>1, <2>2 DEF LocalType
  <2> QED BY <1>1, <1>5, <2>3 DEF Back, Goto, Labels
<1>6. CASE ~(Len(l[q].stack) > 1) /\ l[q].then # "next"
  <2>1. l[q].then \in {"idle", "dead"}
    BY <1>1, <1>6 DEF LocalType
  <2>2. Clear \in LocalType
    BY DEF Clear, Locals, LocalType, Some
  <2> QED BY <1>1, <1>6, <2>1, <2>2 DEF Back, Goto, Labels
<1> QED BY <1>4, <1>5, <1>6

LEMMA UpType ==
  ASSUME BaseInv, NEW q \in Procs, pc[q] \in {"find", "walk", "cas"}, Up(q)
  PROVE  /\ l' \in [Procs -> LocalType] /\ pc' \in [Procs -> Labels]
         /\ l'[q].stack = <<fids[Top(q)].parent>> \o l[q].stack
         /\ l'[q].stack \in Seq(Objs)
<1>1. l[q] \in LocalType /\ l \in [Procs -> LocalType] /\ pc \in [Procs -> Labels]
  BY DEF BaseInv, TypeInv
<1>2. fids[Top(q)].parent \in Objs
  BY Here
<1> DEFINE s == <<fids[Top(q)].parent>> \o l[q].stack
<1>3. s \in Seq(Objs)
  BY <1>1, <1>2 DEF LocalType
<1> HIDE DEF s
<1>4. [l[q] EXCEPT !.stack = s, !.c = None, !.p = None, !.n = None] \in LocalType
  BY <1>1, <1>3 DEF LocalType, Some
<1>5. l' = [l EXCEPT ![q].stack = s, ![q].c = None, ![q].p = None, ![q].n = None]
  BY DEF Up, s
<1> QED BY <1>1, <1>3, <1>4, <1>5 DEF Up, Goto, Labels, s

(* An assignment to one field. *)
LEMMA FidSet ==
  ASSUME NEW f \in [Objs -> FidType], NEW o \in Objs
  PROVE  /\ \A r \in 0..MaxCount : [f EXCEPT ![o].refs = r] \in [Objs -> FidType]
         /\ \A x \in Some : [f EXCEPT ![o].children = x] \in [Objs -> FidType]
         /\ \A x \in Some : [f EXCEPT ![o].cnext = x] \in [Objs -> FidType]
         /\ [f EXCEPT ![o].mem = "freed"] \in [Objs -> FidType]
<1>1. f[o] \in FidType
  OBVIOUS
<1>2. \A r \in 0..MaxCount : [f[o] EXCEPT !.refs = r] \in FidType
  BY <1>1 DEF FidType
<1>3. \A x \in Some : [f[o] EXCEPT !.children = x] \in FidType /\ [f[o] EXCEPT !.cnext = x] \in FidType
  BY <1>1 DEF FidType
<1>4. [f[o] EXCEPT !.mem = "freed"] \in FidType
  BY <1>1 DEF FidType
<1> QED BY <1>2, <1>3, <1>4

LEMMA LocalSet ==
  ASSUME NEW f \in [Procs -> LocalType], NEW q \in Procs, NEW x \in Some, NEW y \in Some
  PROVE  /\ [f EXCEPT ![q].c = x] \in [Procs -> LocalType]
         /\ [f EXCEPT ![q].n = x] \in [Procs -> LocalType]
         /\ [f EXCEPT ![q].new = x] \in [Procs -> LocalType]
         /\ [f EXCEPT ![q].c = x, ![q].p = y] \in [Procs -> LocalType]
         /\ [f EXCEPT ![q].p = x, ![q].c = y] \in [Procs -> LocalType]
         /\ [f EXCEPT ![q].c = None, ![q].p = None, ![q].n = None] \in [Procs -> LocalType]
<1>1. f[q] \in LocalType /\ None \in Some
  BY DEF Some
<1>2. /\ [f[q] EXCEPT !.c = x] \in LocalType
      /\ [f[q] EXCEPT !.n = x] \in LocalType
      /\ [f[q] EXCEPT !.new = x] \in LocalType
      /\ [f[q] EXCEPT !.c = x, !.p = y] \in LocalType
      /\ [f[q] EXCEPT !.p = x, !.c = y] \in LocalType
      /\ [f[q] EXCEPT !.c = None, !.p = None, !.n = None] \in LocalType
  BY <1>1 DEF LocalType
<1> QED BY <1>2

LEMMA CountType ==
  ASSUME NEW n \in 0..MaxCount PROVE Inc(n) \in 0..MaxCount /\ Less(n) \in 0..MaxCount
<1>1. MaxCount \in Nat
  BY DEF MaxCount
<1> QED BY <1>1 DEF Inc, Less

LEMMA LocalsType ==
  ASSUME NEW path \in Seq(Names), NEW create \in BOOLEAN, NEW x \in Some
  PROVE  Locals(path, create, x) \in LocalType
<1>1. <<>> \in Seq(Objs) /\ None \in Some
  BY DEF Some
<1> QED BY <1>1 DEF Locals, LocalType

LEMMA ClearType == Clear \in LocalType
<1>1. <<>> \in Seq(Names) /\ None \in Some
  BY DEF Some
<1> QED BY <1>1, LocalsType DEF Clear

LEMMA AskType ==
  ASSUME BaseInv, NEW q \in Procs, pc[q] \in {"scan", "create"}
  PROVE  File(q) \in Files /\ Head(l[q].path) \in Names /\ l[q].fid \in Objs
<1>1. Placed(q) /\ l[q].path \in Seq(Names)
  BY DEF BaseInv, PlaceInv, TypeInv, LocalType
<1>2. l[q].fid \in Objs /\ fids[l[q].fid].file \in Dirs /\ l[q].path # <<>>
  BY <1>1, Here DEF Placed, FidPcs
<1>3. Head(l[q].path) \in Names
  BY <1>1, <1>2
<1>4. Child \in [Dirs \X Names -> Files]
  BY FidAssumption
<1> QED BY <1>2, <1>3, <1>4 DEF File

LEMMA TypeNext == BaseInv /\ [Next]_vars => TypeInv'
<1> SUFFICES ASSUME BaseInv, [Next]_vars PROVE TypeInv'
  OBVIOUS
<1>0. TypeInv
  BY DEF BaseInv
<1>1. CASE UNCHANGED vars
  BY <1>0, <1>1 DEF vars, TypeInv
<1>2. CASE Next
  <2>1. PICK q \in Procs : Finds(q) \/ Frees(q) \/ Undefined(q)
    BY <1>2 DEF Next
  <2>2. /\ l[q] \in LocalType /\ pc[q] \in Labels /\ calls[q] \in 0..MaxCalls /\ None \in Some
        /\ \A o \in Objs : /\ o \in Some /\ fids[o].refs \in 0..MaxCount
                           /\ fids[o].children \in Some /\ fids[o].cnext \in Some
        /\ \A label \in Labels : [pc EXCEPT ![q] = label] \in [Procs -> Labels]
    BY <1>0 DEF TypeInv, FidType, Some
  <2>3. ASSUME NEW path \in Paths, NEW create \in BOOLEAN, Call(q, path, create) PROVE TypeInv'
    <3>1. root \in Objs /\ path \in Seq(Names) /\ MaxCalls \in Nat
      BY FidAssumption
    <3>2. Locals(path, create, root) \in LocalType
      BY <3>1, <2>2, LocalsType
    <3>3. fids' \in [Objs -> FidType]
      BY <2>2, <2>3, <3>1, <1>0, FidSet, CountType DEF Call, TypeInv
    <3>4. calls' \in [Procs -> 0..MaxCalls]
      BY <1>0, <2>3, <2>2, <3>1 DEF Call, TypeInv
    <3> QED BY <1>0, <2>3, <3>2, <3>3, <3>4 DEF Call, TypeInv, Goto, Labels
  <2>4. CASE Enter(q)
    <3>1. l[q].fid \in Objs /\ fids[l[q].fid].children \in Some /\ Failed(q) \in {"idle", "dead", "next"}
      BY <2>2, <2>4, Here DEF Enter, At, Defined, FidPcs, Failed
    <3>2. CASE GiveUp(q, l[q].fid, Failed(q), None)
      BY <1>0, <2>2, <2>4, <3>1, <3>2, GiveUpType DEF Enter, TypeInv
    <3>3. CASE l' = [l EXCEPT ![q].c = fids[l[q].fid].children] /\ Goto(q, "scan")
      BY <1>0, <2>2, <2>4, <3>1, <3>3, LocalSet DEF Enter, TypeInv, Goto, Labels
    <3> QED BY <2>4, <3>2, <3>3 DEF Enter
  <2>5. CASE Scan(q)
    <3>1. fids[l[q].c].cnext \in Some
      BY <2>2, <2>5, Here DEF Scan
    <3>2. CASE Goto(q, "take") /\ UNCHANGED l
      BY <1>0, <2>2, <2>5, <3>2 DEF Scan, TypeInv, Goto, Labels
    <3>3. CASE l' = [l EXCEPT ![q].c = fids[l[q].c].cnext] /\ UNCHANGED pc
      BY <1>0, <2>2, <2>5, <3>1, <3>3, LocalSet DEF Scan, TypeInv
    <3> QED BY <2>5, <3>2, <3>3 DEF Scan
  <2>6. CASE Take(q)
    <3>1. l[q].c \in Objs /\ l[q].fid \in Objs
      BY <2>6, <1>0, Here DEF Take, Defined, At, FidPcs, Placed, BaseInv, PlaceInv
    <3>2. fids' \in [Objs -> FidType]
      BY <1>0, <2>2, <2>6, <3>1, FidSet, CountType DEF Take, TypeInv
    <3>3. l' \in [Procs -> LocalType] /\ pc' \in [Procs -> Labels]
      BY <2>2, <2>6, <3>1, GiveUpType DEF Take
    <3> QED BY <1>0, <2>6, <3>2, <3>3 DEF Take, TypeInv
  <2>7. CASE AskFails(q)
    <3>1. l[q].fid \in Objs /\ Failed(q) \in {"idle", "dead", "next"}
      BY <2>7, AskType DEF AskFails, Ask, At, Failed
    <3>2. l' \in [Procs -> LocalType] /\ pc' \in [Procs -> Labels]
      BY <2>2, <2>7, <3>1, GiveUpType DEF AskFails
    <3> QED BY <1>0, <2>7, <3>2 DEF AskFails, TypeInv
  <2>8. CASE NoChild(q)
    <3>1. l[q].fid \in Objs /\ Failed(q) \in {"idle", "dead", "next"}
      BY <2>8, AskType DEF NoChild, Ask, At, Failed
    <3>2. CASE GiveUp(q, l[q].fid, Failed(q), None) /\ UNCHANGED leaked
      BY <1>0, <2>2, <2>8, <3>1, <3>2, GiveUpType DEF NoChild, TypeInv
    <3>3. CASE Goto(q, "create") /\ UNCHANGED <<l, leaked>>
      BY <1>0, <2>2, <2>8, <3>3 DEF NoChild, TypeInv, Goto, Labels
    <3>4. CASE /\ leaked' = [leaked EXCEPT ![l[q].fid] = @ \cup {<<q, calls[q]>>}]
               /\ l' = [l EXCEPT ![q] = Clear] /\ Goto(q, "idle")
      <4>1. <<q, calls[q]>> \in Procs \X (1..MaxCalls)
        BY <1>0, <2>2, <2>8 DEF NoChild, Ask, At, BaseInv, PlaceInv, Placed
      <4>2. leaked' \in [Objs -> SUBSET (Procs \X (1..MaxCalls))]
        BY <1>0, <3>1, <3>4, <4>1 DEF TypeInv
      <4> QED BY <1>0, <2>2, <2>8, <3>4, <4>2, ClearType DEF NoChild, TypeInv, Goto, Labels
    <3> QED BY <2>8, <3>2, <3>3, <3>4 DEF NoChild
  <2>9. ASSUME NEW o \in Objs, Answer(q, o) PROVE TypeInv'
    <3>1. File(q) \in Files /\ Head(l[q].path) \in Names /\ l[q].fid \in Objs
      BY <2>9, AskType DEF Answer, Ask, At
    <3>2. NewFid(File(q), Head(l[q].path), l[q].fid) \in FidType
      <4>1. l[q].fid \in Some /\ 1 \in 0..MaxCount
        BY <3>1 DEF Some, MaxCount
      <4> QED BY <2>2, <3>1, <4>1 DEF NewFid, FidType
    <3>3. l' \in [Procs -> LocalType]
      BY <1>0, <2>2, <2>9, LocalSet DEF Answer, TypeInv
    <3> QED BY <1>0, <2>9, <3>1, <3>2, <3>3 DEF Answer, TypeInv, Goto, Labels
  <2>10. CASE NoMemory(q)
    <3>1. File(q) \in Files /\ l[q].fid \in Objs /\ Failed(q) \in {"idle", "dead", "next"}
      BY <2>10, AskType DEF NoMemory, Ask, At, Failed
    <3>2. l' \in [Procs -> LocalType] /\ pc' \in [Procs -> Labels]
      BY <2>2, <2>10, <3>1, GiveUpType DEF NoMemory
    <3> QED BY <1>0, <2>10, <3>1, <3>2 DEF NoMemory, TypeInv
  <2>11. CASE Grow(q)
    <3>1. l[q].fid \in Objs
      BY <2>11, Here DEF Grow, Defined, At, FidPcs
    <3>2. fids' \in [Objs -> FidType]
      BY <1>0, <2>2, <2>11, <3>1, FidSet, CountType DEF Grow, TypeInv
    <3> QED BY <1>0, <2>2, <2>11, <3>2 DEF Grow, TypeInv, Goto, Labels
  <2>12. CASE LoadChildren(q)
    <3>1. l[q].fid \in Objs /\ l[q].new \in Objs
      BY <2>12, Here DEF LoadChildren, Defined, At, FidPcs, Pushing
    <3>2. fids' \in [Objs -> FidType]
      BY <1>0, <2>2, <2>12, <3>1, FidSet DEF LoadChildren, TypeInv
    <3> QED BY <1>0, <2>2, <2>12, <3>2 DEF LoadChildren, TypeInv, Goto, Labels
  <2>13. CASE Push(q)
    <3>1. l[q].fid \in Objs /\ l[q].new \in Objs
      BY <2>13, Here DEF Push, Defined, At, FidPcs, Pushing
    <3>2. fids' \in [Objs -> FidType]
      BY <1>0, <2>2, <2>13, <3>1, FidSet DEF Push, TypeInv
    <3>3. l' \in [Procs -> LocalType] /\ pc' \in [Procs -> Labels]
      BY <2>2, <2>13, <3>1, GiveUpType DEF Push
    <3> QED BY <1>0, <2>13, <3>2, <3>3 DEF Push, TypeInv
  <2>14. CASE PushFails(q)
    BY <1>0, <2>2, <2>14 DEF PushFails, TypeInv, Goto, Labels
  <2>15. CASE Drop(q)
    <3>1. l[q].fid \in Objs
      BY <2>15, Here DEF Drop, At, FidPcs
    <3>2. l' \in [Procs -> LocalType] /\ pc' \in [Procs -> Labels]
      BY <2>2, <2>15, <3>1, GiveUpType DEF Drop
    <3> QED BY <1>0, <2>15, <3>2 DEF Drop, TypeInv
  <2>16. CASE Dec(q)
    <3>1. Top(q) \in Objs /\ pc[q] \in Giving
      BY <2>16, Here DEF Dec, Defined, At, Giving
    <3>2. fids' \in [Objs -> FidType]
      BY <1>0, <2>2, <2>16, <3>1, FidSet, CountType DEF Dec, TypeInv
    <3>3. l' \in [Procs -> LocalType] /\ pc' \in [Procs -> Labels]
      BY <1>0, <2>2, <2>16, <3>1, BackType DEF Dec, TypeInv, Goto, Labels
    <3> QED BY <1>0, <2>16, <3>2, <3>3 DEF Dec, TypeInv
  <2>17. CASE Clunk(q)
    BY <1>0, <2>2, <2>17 DEF Clunk, TypeInv, Goto, Labels
  <2>18. CASE FindChild(q)
    <3>1. fids[fids[Top(q)].parent].children \in Some
      BY <2>2, <2>18, Here DEF FindChild, Defined, At
    <3>2. l' \in [Procs -> LocalType]
      BY <1>0, <2>2, <2>18, <3>1, LocalSet DEF FindChild, TypeInv
    <3> QED BY <1>0, <2>2, <2>18, <3>2 DEF FindChild, TypeInv, Goto, Labels
  <2>19. CASE WalkChild(q)
    <3>1. Top(q) \in Objs
      BY <2>19, Here DEF WalkChild, Defined, At, Giving, Ending
    <3>2. l[q].c \in Objs /\ fids[l[q].c].cnext \in Some /\ l[q].c \in Some
      BY <2>2, <2>19, <3>1, Here DEF WalkChild
    <3>3. CASE l' = [l EXCEPT ![q].n = fids[l[q].c].cnext] /\ Goto(q, "cas")
      BY <1>0, <2>2, <2>19, <3>2, <3>3, LocalSet DEF WalkChild, TypeInv, Goto, Labels
    <3>4. CASE l' = [l EXCEPT ![q].p = l[q].c, ![q].c = fids[l[q].c].cnext] /\ UNCHANGED pc
      BY <1>0, <2>2, <2>19, <3>2, <3>4, LocalSet DEF WalkChild, TypeInv
    <3> QED BY <2>19, <3>3, <3>4 DEF WalkChild
  <2>20. CASE NotFound(q)
    <3>1. l' \in [Procs -> LocalType] /\ pc' \in [Procs -> Labels]
      BY <2>20, UpType DEF NotFound, At
    <3> QED BY <1>0, <2>20, <3>1 DEF NotFound, TypeInv
  <2>21. CASE Remove(q)
    <3>1. fids[Top(q)].parent \in Objs /\ l[q].n \in Some /\ (l[q].p # None => l[q].p \in Objs)
      BY <2>2, <2>21, Here DEF Remove, Defined, At, LocalType
    <3>2. l' \in [Procs -> LocalType] /\ pc' \in [Procs -> Labels]
      BY <2>21, UpType DEF Remove, Defined, At
    <3>3. fids' \in [Objs -> FidType]
      <4>1. CASE fids' = [fids EXCEPT ![fids[Top(q)].parent].children = l[q].n]
        BY <1>0, <3>1, <4>1, FidSet DEF TypeInv
      <4>2. CASE l[q].p # None /\ fids' = [fids EXCEPT ![l[q].p].cnext = l[q].n]
        BY <1>0, <3>1, <4>2, FidSet DEF TypeInv
      <4> QED BY <2>21, <4>1, <4>2 DEF Remove
    <3> QED BY <1>0, <2>21, <3>2, <3>3 DEF Remove, TypeInv
  <2>22. CASE RemoveFails(q)
    <3>1. l' \in [Procs -> LocalType]
      BY <1>0, <2>2, <2>22, LocalSet DEF RemoveFails, TypeInv
    <3> QED BY <1>0, <2>2, <2>22, <3>1 DEF RemoveFails, TypeInv, Goto, Labels
  <2>23. CASE Free(q)
    <3>1. Top(q) \in Objs /\ pc[q] \in Giving
      BY <2>23, Here DEF Free, Defined, At, Giving, Ending
    <3>2. l' \in [Procs -> LocalType] /\ pc' \in [Procs -> Labels]
      BY <2>23, <3>1, BackType DEF Free
    <3>3. fids' \in [Objs -> FidType]
      BY <1>0, <2>23, <3>1, FidSet DEF Free, TypeInv
    <3> QED BY <1>0, <2>23, <3>2, <3>3 DEF Free, TypeInv
  <2>24. CASE Undefined(q)
    BY <1>0, <2>24 DEF Undefined, TypeInv
  <2> QED BY <2>1, <2>3, <2>4, <2>5, <2>6, <2>7, <2>8, <2>9, <2>10, <2>11, <2>12, <2>13, <2>14, <2>15,
             <2>16, <2>17, <2>18, <2>19, <2>20, <2>21, <2>22, <2>23, <2>24 DEF Finds, Frees
<1> QED BY <1>1, <1>2

(* What a step of q leaves in its locals; the other processes keep theirs. *)
Others(q) == \A p \in Procs \ {q} : l'[p] = l[p] /\ pc'[p] = pc[p]
SameWalk(q) == l'[q].c = l[q].c /\ l'[q].p = l[q].p /\ l'[q].n = l[q].n
SameCall(q) == l'[q].path = l[q].path /\ l'[q].then = l[q].then
GaveUp(q, o, then, new) ==
  /\ Others(q) /\ pc'[q] = "dec"
  /\ l'[q].stack = <<o>> /\ l'[q].then = then /\ l'[q].fid = None /\ l'[q].new = new
  /\ l'[q].c = None /\ l'[q].p = l[q].p /\ l'[q].n = l[q].n /\ l'[q].path = l[q].path
Returned(q) == /\ Len(l[q].stack) > 1 /\ pc'[q] = "free"
               /\ l'[q].stack = Tail(l[q].stack) /\ l'[q].fid = None /\ l'[q].new = l[q].new
               /\ SameWalk(q) /\ SameCall(q)
WentOn(q) == /\ Len(l[q].stack) = 1 /\ l[q].then = "next"
             /\ pc'[q] = (IF Len(l[q].path) > 1 THEN "dir" ELSE "hold")
             /\ l'[q].stack = <<>> /\ l'[q].fid = l[q].new /\ l'[q].new = None
             /\ SameWalk(q) /\ l'[q].path = Tail(l[q].path)
Cleared(q) == /\ l'[q].stack = <<>> /\ l'[q].fid = None /\ l'[q].new = None
              /\ l'[q].c = None /\ l'[q].p = None /\ l'[q].n = None /\ l'[q].path = <<>>
Ended(q) == /\ Len(l[q].stack) = 1 /\ l[q].then \in {"idle", "dead"} /\ pc'[q] = l[q].then
            /\ Cleared(q)
WentUp(q) == /\ Others(q) /\ pc'[q] = "dec" /\ SameCall(q)
             /\ l'[q].stack = <<fids[Top(q)].parent>> \o l[q].stack
             /\ l'[q].fid = None /\ l'[q].new = l[q].new
             /\ l'[q].c = None /\ l'[q].p = None /\ l'[q].n = None
Walked(q, c, p, n) ==
  /\ Others(q) /\ SameCall(q)
  /\ l'[q].c = c /\ l'[q].p = p /\ l'[q].n = n
  /\ l'[q].stack = l[q].stack /\ l'[q].fid = l[q].fid /\ l'[q].new = l[q].new
Stayed(q) == Walked(q, l[q].c, l[q].p, l[q].n)

LEMMA GiveUpHere ==
  ASSUME BaseInv, NEW q \in Procs, NEW o \in Objs, NEW then, NEW new, GiveUp(q, o, then, new)
  PROVE  GaveUp(q, o, then, new)
  BY DEF GiveUp, Goto, BaseInv, TypeInv, Others, GaveUp, LocalType

LEMMA BackHere ==
  ASSUME BaseInv, NEW q \in Procs, pc[q] \in Giving, Back(q)
  PROVE  Others(q) /\ (Returned(q) \/ WentOn(q) \/ Ended(q))
<1>1. l[q] \in LocalType /\ l \in [Procs -> LocalType] /\ pc \in [Procs -> Labels]
  BY DEF BaseInv, TypeInv
<1>2. Len(l[q].stack) \in Nat /\ Len(l[q].stack) > 0
  BY <1>1, Here, StackHead DEF LocalType
<1>3. l[q].fid = None /\ l[q].then \in {"idle", "dead", "next"}
  BY <1>1 DEF BaseInv, PlaceInv, Placed, Giving, Ending, FidPcs, LocalType
<1>7. Len(l[q].stack) > 1 \/ (Len(l[q].stack) = 1 /\ ~(Len(l[q].stack) > 1))
  BY <1>1, Here, StackHead DEF LocalType
<1>4. CASE Len(l[q].stack) > 1
  BY <1>1, <1>3, <1>4 DEF Back, Goto, Others, LocalType, Returned, SameWalk, SameCall
<1>5. CASE Len(l[q].stack) = 1 /\ ~(Len(l[q].stack) > 1) /\ l[q].then = "next"
  BY <1>1, <1>2, <1>5 DEF Back, Goto, Others, LocalType, WentOn, SameWalk
<1>6. CASE Len(l[q].stack) = 1 /\ ~(Len(l[q].stack) > 1) /\ l[q].then # "next"
  <2>1. /\ Clear.stack = <<>> /\ Clear.fid = None /\ Clear.new = None /\ Clear.c = None
        /\ Clear.p = None /\ Clear.n = None /\ Clear.path = <<>>
    BY DEF Clear, Locals
  <2>2. l' = [l EXCEPT ![q] = Clear] /\ pc' = [pc EXCEPT ![q] = l[q].then]
    BY <1>2, <1>6 DEF Back, Goto
  <2>3. Others(q) /\ l'[q] = Clear /\ pc'[q] = l[q].then
    BY <1>1, <2>2 DEF Others
  <2>5. l[q].then \in {"idle", "dead"}
    BY <1>3, <1>6
  <2> QED BY <2>1, <1>6, <2>3, <2>5 DEF Ended, Cleared
<1> QED BY <1>4, <1>5, <1>6, <1>7

LEMMA UpHere ==
  ASSUME BaseInv, NEW q \in Procs, pc[q] \in {"find", "walk", "cas"}, Up(q)
  PROVE  WentUp(q)
<1>1. l[q].fid = None
  BY DEF BaseInv, PlaceInv, Placed, FidPcs
<1> QED BY <1>1 DEF Up, Goto, BaseInv, TypeInv, Others, WentUp, SameCall, LocalType

(* The stack with the parent on it. *)
LEMMA StackUp ==
  ASSUME NEW s \in Seq(Objs), NEW o \in Objs
  PROVE  /\ Len(<<o>> \o s) = Len(s) + 1 /\ DOMAIN (<<o>> \o s) = 1..Len(s) + 1 /\ (<<o>> \o s)[1] = o
         /\ \A i \in 2..Len(s) + 1 : (<<o>> \o s)[i] = s[i - 1] /\ i - 1 \in DOMAIN s
         /\ Head(<<o>> \o s) = o /\ <<o>> \o s # <<>> /\ <<o>> \o s \in Seq(Objs)
  OBVIOUS

(* KnownInv, when one process has taken a step. *)
LEMMA KnownStep ==
  ASSUME KnownInv, NEW q \in Procs, Others(q),
         \A o \in Objs : fids[o].mem # "new" => fids'[o].mem # "new",
         \A o \in Objs : /\ Known(fids', fids'[o].parent) /\ Known(fids', fids'[o].children)
                         /\ Known(fids', fids'[o].cnext),
         Known(fids', l'[q].fid), Known(fids', l'[q].new), Known(fids', l'[q].c),
         Known(fids', l'[q].p), Known(fids', l'[q].n),
         \A i \in DOMAIN l'[q].stack : Known(fids', l'[q].stack[i])
  PROVE  KnownInv'
<1>1. ASSUME NEW o, Known(fids, o) PROVE Known(fids', o)
  BY <1>1 DEF Known
<1>2. Known(fids', root)
  BY <1>1 DEF KnownInv
<1>3. ASSUME NEW p \in Procs \ {q}
      PROVE  /\ Known(fids', l'[p].fid) /\ Known(fids', l'[p].new) /\ Known(fids', l'[p].c)
             /\ Known(fids', l'[p].p) /\ Known(fids', l'[p].n)
             /\ \A i \in DOMAIN l'[p].stack : Known(fids', l'[p].stack[i])
  <2>1. l'[p] = l[p]
    BY DEF Others
  <2> QED BY <1>1, <2>1 DEF KnownInv
<1> QED BY <1>2, <1>3 DEF KnownInv

(* What an assignment to one field of o leaves alone. *)
SameFile(x) == /\ fids'[x].file = fids[x].file /\ fids'[x].name = fids[x].name
               /\ fids'[x].parent = fids[x].parent
SetRefs(o, r) == \A x \in Objs :
  /\ SameFile(x) /\ fids'[x].mem = fids[x].mem
  /\ fids'[x].children = fids[x].children /\ fids'[x].cnext = fids[x].cnext
  /\ fids'[x].refs = IF x = o THEN r ELSE fids[x].refs
SetChildren(o, y) == \A x \in Objs :
  /\ SameFile(x) /\ fids'[x].mem = fids[x].mem
  /\ fids'[x].children = (IF x = o THEN y ELSE fids[x].children)
  /\ fids'[x].cnext = fids[x].cnext /\ fids'[x].refs = fids[x].refs
SetCnext(o, y) == \A x \in Objs :
  /\ SameFile(x) /\ fids'[x].mem = fids[x].mem
  /\ fids'[x].children = fids[x].children
  /\ fids'[x].cnext = (IF x = o THEN y ELSE fids[x].cnext) /\ fids'[x].refs = fids[x].refs
SetFreed(o) == \A x \in Objs :
  /\ SameFile(x) /\ fids'[x].mem = (IF x = o THEN "freed" ELSE fids[x].mem)
  /\ fids'[x].children = fids[x].children /\ fids'[x].cnext = fids[x].cnext
  /\ fids'[x].refs = fids[x].refs

LEMMA FidHere ==
  ASSUME BaseInv, NEW o \in Objs
  PROVE  /\ \A r : fids' = [fids EXCEPT ![o].refs = r] => SetRefs(o, r)
         /\ \A y : fids' = [fids EXCEPT ![o].children = y] => SetChildren(o, y)
         /\ \A y : fids' = [fids EXCEPT ![o].cnext = y] => SetCnext(o, y)
         /\ fids' = [fids EXCEPT ![o].mem = "freed"] => SetFreed(o)
<1>1. fids \in [Objs -> FidType] /\ \A x \in Objs : fids[x] \in FidType
  BY DEF BaseInv, TypeInv
<1>2. ASSUME NEW r, fids' = [fids EXCEPT ![o].refs = r] PROVE SetRefs(o, r)
  BY <1>1, <1>2 DEF SetRefs, SameFile, FidType
<1>3. ASSUME NEW y, fids' = [fids EXCEPT ![o].children = y] PROVE SetChildren(o, y)
  BY <1>1, <1>3 DEF SetChildren, SameFile, FidType
<1>4. ASSUME NEW y, fids' = [fids EXCEPT ![o].cnext = y] PROVE SetCnext(o, y)
  BY <1>1, <1>4 DEF SetCnext, SameFile, FidType
<1>5. ASSUME fids' = [fids EXCEPT ![o].mem = "freed"] PROVE SetFreed(o)
  BY <1>1, <1>5 DEF SetFreed, SameFile, FidType
<1> QED BY <1>2, <1>3, <1>4, <1>5

LEMMA LocalHere ==
  ASSUME BaseInv, NEW q \in Procs
  PROVE  /\ \A c : l' = [l EXCEPT ![q].c = c] /\ Others(q) => Walked(q, c, l[q].p, l[q].n)
         /\ \A n : l' = [l EXCEPT ![q].n = n] /\ Others(q) => Walked(q, l[q].c, l[q].p, n)
         /\ \A c, p : l' = [l EXCEPT ![q].c = c, ![q].p = p] /\ Others(q) => Walked(q, c, p, l[q].n)
         /\ \A c, p : l' = [l EXCEPT ![q].p = p, ![q].c = c] /\ Others(q) => Walked(q, c, p, l[q].n)
         /\ l' = [l EXCEPT ![q].c = None, ![q].p = None, ![q].n = None] /\ Others(q)
              => Walked(q, None, None, None)
         /\ l' = l /\ Others(q) => Stayed(q)
         /\ l' = [l EXCEPT ![q] = Clear] => Cleared(q)
<1>1. l \in [Procs -> LocalType] /\ l[q] \in LocalType
  BY DEF BaseInv, TypeInv
<1>2. ASSUME NEW c, l' = [l EXCEPT ![q].c = c], Others(q) PROVE Walked(q, c, l[q].p, l[q].n)
  BY <1>1, <1>2 DEF Walked, SameCall, LocalType
<1>3. ASSUME NEW n, l' = [l EXCEPT ![q].n = n], Others(q) PROVE Walked(q, l[q].c, l[q].p, n)
  BY <1>1, <1>3 DEF Walked, SameCall, LocalType
<1>4. ASSUME NEW c, NEW p, l' = [l EXCEPT ![q].c = c, ![q].p = p], Others(q) PROVE Walked(q, c, p, l[q].n)
  BY <1>1, <1>4 DEF Walked, SameCall, LocalType
<1>5. ASSUME NEW c, NEW p, l' = [l EXCEPT ![q].p = p, ![q].c = c], Others(q) PROVE Walked(q, c, p, l[q].n)
  BY <1>1, <1>5 DEF Walked, SameCall, LocalType
<1>6. ASSUME l' = [l EXCEPT ![q].c = None, ![q].p = None, ![q].n = None], Others(q)
      PROVE  Walked(q, None, None, None)
  BY <1>1, <1>6 DEF Walked, SameCall, LocalType
<1>7. ASSUME l' = l, Others(q) PROVE Stayed(q)
  BY <1>7 DEF Stayed, Walked, SameCall
<1>8. ASSUME l' = [l EXCEPT ![q] = Clear] PROVE Cleared(q)
  BY <1>1, <1>8 DEF Cleared, Clear, Locals
<1> QED BY <1>2, <1>3, <1>4, <1>5, <1>6, <1>7, <1>8

LEMMA PcHere ==
  ASSUME BaseInv, NEW q \in Procs, NEW label, Goto(q, label)
  PROVE  /\ pc'[q] = label
         /\ (\A p \in Procs \ {q} : l'[p] = l[p]) => Others(q)
  BY DEF BaseInv, TypeInv, Goto, Others

(* The steps of findfile(), one lemma for each. *)
SameRest == calls' = calls /\ leaked' = leaked
SameHistory == SameRest /\ raised' = raised

LEMMA CallHere ==
  ASSUME BaseInv, NEW q \in Procs, NEW path \in Paths, NEW create \in BOOLEAN, Call(q, path, create)
  PROVE  /\ pc[q] = "idle" /\ pc'[q] = "dir" /\ Others(q)
         /\ path \in Seq(Names) /\ path # <<>>
         /\ l'[q].path = path /\ l'[q].fid = root /\ l'[q].new = None /\ l'[q].stack = <<>>
         /\ l'[q].c = None /\ l'[q].p = None /\ l'[q].n = None
         /\ SetRefs(root, Inc(fids[root].refs)) /\ root \in Objs
         /\ leaked' = leaked /\ raised' = raised
         /\ calls[q] \in 0..MaxCalls /\ calls[q] < MaxCalls /\ calls' = [calls EXCEPT ![q] = calls[q] + 1]
<1>1. root \in Objs /\ path \in Seq(Names) /\ path # <<>>
  BY FidAssumption
<1>2. l \in [Procs -> LocalType] /\ pc \in [Procs -> Labels] /\ calls[q] \in 0..MaxCalls
  BY DEF BaseInv, TypeInv
<1>3. l' = [l EXCEPT ![q] = Locals(path, create, root)]
  BY DEF Call
<1>4. /\ l'[q].path = path /\ l'[q].fid = root /\ l'[q].new = None /\ l'[q].stack = <<>>
      /\ l'[q].c = None /\ l'[q].p = None /\ l'[q].n = None
  BY <1>2, <1>3 DEF Locals
<1>5. Others(q) /\ pc'[q] = "dir" /\ pc[q] = "idle"
  BY <1>2, <1>3, PcHere DEF Call, At
<1>6. SetRefs(root, Inc(fids[root].refs))
  BY <1>1, FidHere DEF Call
<1> QED BY <1>1, <1>2, <1>4, <1>5, <1>6 DEF Call

LEMMA EnterHere ==
  ASSUME BaseInv, NEW q \in Procs, Enter(q)
  PROVE  /\ pc[q] = "dir" /\ l[q].fid \in Objs /\ fids' = fids /\ SameHistory
         /\ \/ GaveUp(q, l[q].fid, Failed(q), None) /\ Failed(q) \in {"idle", "dead"}
            \/ /\ pc'[q] = "scan" /\ fids[l[q].fid].file \in Dirs
               /\ Walked(q, fids[l[q].fid].children, l[q].p, l[q].n)
<1>1. pc[q] = "dir" /\ l[q].fid \in Objs
  BY Here DEF Enter, Defined, At, FidPcs
<1>2. l \in [Procs -> LocalType]
  BY DEF BaseInv, TypeInv
<1>3. CASE GiveUp(q, l[q].fid, Failed(q), None)
  BY <1>1, <1>3, GiveUpHere DEF Enter, SameHistory, SameRest, Failed
<1>4. CASE fids[l[q].fid].file \in Dirs /\ l' = [l EXCEPT ![q].c = fids[l[q].fid].children] /\ Goto(q, "scan")
  BY <1>1, <1>2, <1>4, PcHere, LocalHere DEF Enter, SameHistory, SameRest
<1> QED BY <1>3, <1>4 DEF Enter

LEMMA ScanHere ==
  ASSUME BaseInv, NEW q \in Procs, Scan(q)
  PROVE  /\ pc[q] = "scan" /\ l[q].c \in Objs /\ fids' = fids /\ SameHistory
         /\ \/ pc'[q] = "take" /\ Stayed(q)
            \/ pc'[q] = "scan" /\ Walked(q, fids[l[q].c].cnext, l[q].p, l[q].n)
<1>1. pc[q] = "scan" /\ l[q].c \in Objs
  BY Here DEF Scan, Defined, At
<1>2. l \in [Procs -> LocalType]
  BY DEF BaseInv, TypeInv
<1>3. CASE Goto(q, "take") /\ UNCHANGED l
  BY <1>1, <1>3, PcHere, LocalHere DEF Scan, SameHistory, SameRest
<1>4. CASE l' = [l EXCEPT ![q].c = fids[l[q].c].cnext] /\ UNCHANGED pc
  BY <1>1, <1>2, <1>4, LocalHere DEF Scan, SameHistory, SameRest, Others
<1> QED BY <1>3, <1>4 DEF Scan

LEMMA TakeHere ==
  ASSUME BaseInv, NEW q \in Procs, Take(q)
  PROVE  /\ pc[q] = "take" /\ l[q].c \in Objs /\ l[q].fid \in Objs /\ fids[l[q].c].mem = "used"
         /\ SetRefs(l[q].c, Inc(fids[l[q].c].refs)) /\ GaveUp(q, l[q].fid, "next", l[q].c)
         /\ SameRest /\ raised' = (raised \/ fids[l[q].c].refs = 0)
<1>1. pc[q] = "take" /\ l[q].fid \in Objs /\ l[q].c # None
  BY Here DEF Take, Defined, At, FidPcs, BaseInv, PlaceInv, Placed
<1>2. l[q].c \in Objs
  BY <1>1, Here
<1>3. fids[l[q].c].mem = "used"
  BY <1>1 DEF Take, Defined, Touches, Live
<1> QED BY <1>1, <1>2, <1>3, FidHere, GiveUpHere DEF Take, SameRest

LEMMA AskFailsHere ==
  ASSUME BaseInv, NEW q \in Procs, AskFails(q)
  PROVE  /\ pc[q] \in {"scan", "create"} /\ l[q].fid \in Objs /\ fids' = fids /\ SameHistory
         /\ \E then \in {"idle", "dead"} : GaveUp(q, l[q].fid, then, None)
<1>1. pc[q] \in {"scan", "create"} /\ l[q].fid \in Objs
  BY Here DEF AskFails, Ask, At, FidPcs
<1>2. (IF Ask(q) THEN Failed(q) ELSE "idle") \in {"idle", "dead"}
  BY DEF Failed
<1> QED BY <1>1, <1>2, GiveUpHere DEF AskFails, SameHistory, SameRest

LEMMA NoChildHere ==
  ASSUME BaseInv, NEW q \in Procs, NoChild(q)
  PROVE  /\ pc[q] = "scan" /\ l[q].fid \in Objs /\ fids' = fids /\ raised' = raised /\ calls' = calls
         /\ \/ /\ Failed(q) \in {"idle", "dead"}
               /\ GaveUp(q, l[q].fid, Failed(q), None) /\ leaked' = leaked
            \/ pc'[q] = "create" /\ Stayed(q) /\ leaked' = leaked
            \/ /\ pc'[q] = "idle" /\ Others(q) /\ Cleared(q)
               /\ leaked' = [leaked EXCEPT ![l[q].fid] = @ \cup {<<q, calls[q]>>}]
<1>1. pc[q] = "scan" /\ l[q].fid \in Objs
  BY Here DEF NoChild, Ask, At, FidPcs
<1>2. CASE GiveUp(q, l[q].fid, Failed(q), None) /\ UNCHANGED leaked
  BY <1>1, <1>2, GiveUpHere DEF NoChild, Failed
<1>3. CASE Goto(q, "create") /\ UNCHANGED <<l, leaked>>
  BY <1>1, <1>3, PcHere, LocalHere DEF NoChild
<1>4. CASE /\ leaked' = [leaked EXCEPT ![l[q].fid] = @ \cup {<<q, calls[q]>>}]
           /\ l' = [l EXCEPT ![q] = Clear] /\ Goto(q, "idle")
  <2>1. \A p \in Procs \ {q} : l'[p] = l[p]
    BY <1>4 DEF BaseInv, TypeInv
  <2> QED BY <1>1, <1>4, <2>1, PcHere, LocalHere DEF NoChild
<1> QED BY <1>2, <1>3, <1>4 DEF NoChild

LEMMA AnswerHere ==
  ASSUME BaseInv, NEW q \in Procs, NEW o \in Objs, Answer(q, o)
  PROVE  /\ pc[q] \in {"scan", "create"} /\ pc'[q] = "grow" /\ l[q].fid \in Objs
         /\ File(q) \in Files /\ Head(l[q].path) \in Names
         /\ fids[o].mem = "new" /\ fids'[o] = NewFid(File(q), Head(l[q].path), l[q].fid)
         /\ \A x \in Objs \ {o} : fids'[x] = fids[x]
         /\ Others(q) /\ SameCall(q) /\ SameWalk(q)
         /\ l'[q].new = o /\ l'[q].fid = l[q].fid /\ l'[q].stack = l[q].stack
         /\ SameHistory
<1>1. /\ pc[q] \in {"scan", "create"} /\ l[q].fid \in Objs
      /\ File(q) \in Files /\ Head(l[q].path) \in Names
  BY AskType DEF Answer, Ask, At
<1>2. /\ fids \in [Objs -> FidType] /\ l \in [Procs -> LocalType] /\ l[q] \in LocalType
  BY DEF BaseInv, TypeInv
<1>3. Others(q) /\ pc'[q] = "grow"
  BY <1>2, PcHere DEF Answer
<1>4. /\ SameCall(q) /\ SameWalk(q)
      /\ l'[q].new = o /\ l'[q].fid = l[q].fid /\ l'[q].stack = l[q].stack
  BY <1>2 DEF Answer, SameCall, SameWalk, LocalType
<1> QED BY <1>1, <1>2, <1>3, <1>4 DEF Answer, SameHistory, SameRest

LEMMA NoMemoryHere ==
  ASSUME BaseInv, NEW q \in Procs, NoMemory(q)
  PROVE  /\ pc[q] \in {"scan", "create"} /\ l[q].fid \in Objs /\ fids' = fids /\ SameHistory
         /\ \E then \in {"idle", "dead"} : GaveUp(q, l[q].fid, then, None)
<1>1. pc[q] \in {"scan", "create"} /\ l[q].fid \in Objs
  BY Here DEF NoMemory, Ask, At, FidPcs
<1>2. (IF Ask(q) THEN Failed(q) ELSE "idle") \in {"idle", "dead"}
  BY DEF Failed
<1> QED BY <1>1, <1>2, GiveUpHere DEF NoMemory, SameHistory, SameRest

LEMMA GrowHere ==
  ASSUME BaseInv, NEW q \in Procs, Grow(q)
  PROVE  /\ pc[q] = "grow" /\ pc'[q] = "load" /\ l[q].fid \in Objs /\ l[q].new \in Objs
         /\ fids[l[q].fid].mem = "used"
         /\ SetRefs(l[q].fid, Inc(fids[l[q].fid].refs)) /\ Stayed(q) /\ Others(q) /\ SameHistory
<1>1. pc[q] = "grow" /\ l[q].fid \in Objs /\ l[q].new \in Objs
  BY Here DEF Grow, Defined, At, FidPcs, Pushing
<1>2. l[q].fid # None
  BY <1>1, FidAssumption
<1>3. fids[l[q].fid].mem = "used"
  BY <1>1, <1>2 DEF Grow, Defined, Touches, Live
<1> QED BY <1>1, <1>3, FidHere, PcHere, LocalHere DEF Grow, SameHistory, SameRest

LEMMA LoadChildrenHere ==
  ASSUME BaseInv, NEW q \in Procs, LoadChildren(q)
  PROVE  /\ pc[q] = "load" /\ pc'[q] = "push" /\ l[q].fid \in Objs /\ l[q].new \in Objs
         /\ SetCnext(l[q].new, fids[l[q].fid].children) /\ Stayed(q) /\ Others(q) /\ SameHistory
<1>1. pc[q] = "load" /\ l[q].fid \in Objs /\ l[q].new \in Objs
  BY Here DEF LoadChildren, Defined, At, FidPcs, Pushing
<1> QED BY <1>1, FidHere, PcHere, LocalHere DEF LoadChildren, SameHistory, SameRest

LEMMA PushHere ==
  ASSUME BaseInv, NEW q \in Procs, Push(q)
  PROVE  /\ pc[q] = "push" /\ l[q].fid \in Objs /\ l[q].new \in Objs
         /\ fids[l[q].fid].children = fids[l[q].new].cnext
         /\ SetChildren(l[q].fid, l[q].new) /\ GaveUp(q, l[q].fid, "next", l[q].new) /\ SameHistory
<1>1. pc[q] = "push" /\ l[q].fid \in Objs /\ l[q].new \in Objs
  BY Here DEF Push, Defined, At, FidPcs, Pushing
<1> QED BY <1>1, FidHere, GiveUpHere DEF Push, SameHistory, SameRest

LEMMA PushFailsHere ==
  ASSUME BaseInv, NEW q \in Procs, PushFails(q)
  PROVE  pc[q] = "push" /\ pc'[q] = "load" /\ fids' = fids /\ Stayed(q) /\ Others(q) /\ SameHistory
  BY PcHere, LocalHere DEF PushFails, Defined, At, SameHistory, SameRest

LEMMA DropHere ==
  ASSUME BaseInv, NEW q \in Procs, Drop(q)
  PROVE  /\ pc[q] = "hold" /\ l[q].fid \in Objs /\ fids' = fids /\ SameHistory
         /\ GaveUp(q, l[q].fid, "idle", None)
  BY Here, GiveUpHere DEF Drop, At, FidPcs, SameHistory, SameRest

(* The steps of bindingfidfree(). *)
LEMMA DecHere ==
  ASSUME BaseInv, NEW q \in Procs, Dec(q)
  PROVE  /\ pc[q] = "dec" /\ Top(q) \in Objs /\ fids[Top(q)].mem = "used" /\ l[q].stack # <<>>
         /\ SetRefs(Top(q), Less(fids[Top(q)].refs)) /\ Others(q) /\ SameHistory
         /\ \/ Less(fids[Top(q)].refs) > 0 /\ (Returned(q) \/ WentOn(q) \/ Ended(q))
            \/ ~(Less(fids[Top(q)].refs) > 0) /\ pc'[q] = "clunk" /\ Stayed(q)
<1>1. pc[q] = "dec" /\ pc[q] \in Giving /\ Top(q) \in Objs /\ l[q].stack # <<>>
  BY Here DEF Dec, Defined, At, Giving
<1>2. Top(q) # None
  BY <1>1, FidAssumption
<1>3. fids[Top(q)].mem = "used"
  BY <1>1, <1>2 DEF Dec, Defined, Touches, Live
<1>4. SetRefs(Top(q), Less(fids[Top(q)].refs)) /\ SameHistory
  BY <1>1, FidHere DEF Dec, SameHistory, SameRest
<1>5. CASE Less(fids[Top(q)].refs) > 0
  BY <1>1, <1>3, <1>4, <1>5, BackHere DEF Dec
<1>6. CASE ~(Less(fids[Top(q)].refs) > 0)
  <2>1. Goto(q, "clunk") /\ l' = l
    BY <1>6 DEF Dec
  <2> QED BY <1>1, <1>3, <1>4, <1>6, <2>1, PcHere, LocalHere
<1> QED BY <1>5, <1>6

LEMMA ClunkHere ==
  ASSUME BaseInv, NEW q \in Procs, Clunk(q)
  PROVE  /\ pc[q] = "clunk" /\ Top(q) \in Objs /\ l[q].stack # <<>>
         /\ pc'[q] = (IF fids[Top(q)].parent = None THEN "free" ELSE "find")
         /\ fids' = fids /\ Stayed(q) /\ Others(q) /\ SameHistory
  BY Here, PcHere, LocalHere DEF Clunk, Defined, At, Giving, Ending, SameHistory, SameRest

LEMMA FindChildHere ==
  ASSUME BaseInv, NEW q \in Procs, FindChild(q)
  PROVE  /\ pc[q] = "find" /\ pc'[q] = "walk" /\ Top(q) \in Objs /\ fids[Top(q)].parent \in Objs
         /\ fids' = fids /\ Walked(q, fids[fids[Top(q)].parent].children, None, l[q].n) /\ SameHistory
<1>1. pc[q] = "find" /\ Top(q) \in Objs /\ fids[Top(q)].parent \in Objs
  BY Here DEF FindChild, Defined, At, Giving, Ending
<1>2. \A p \in Procs \ {q} : l'[p] = l[p]
  BY DEF BaseInv, TypeInv, FindChild
<1> QED BY <1>1, <1>2, PcHere, LocalHere DEF FindChild, SameHistory, SameRest

LEMMA WalkChildHere ==
  ASSUME BaseInv, NEW q \in Procs, WalkChild(q)
  PROVE  /\ pc[q] = "walk" /\ Top(q) \in Objs /\ l[q].c \in Objs /\ fids' = fids /\ SameHistory
         /\ \/ /\ pc'[q] = "cas" /\ l[q].c = Top(q)
               /\ Walked(q, l[q].c, l[q].p, fids[l[q].c].cnext)
            \/ pc'[q] = "walk" /\ Walked(q, fids[l[q].c].cnext, l[q].c, l[q].n)
<1>1. pc[q] = "walk" /\ Top(q) \in Objs /\ Top(q) # None
  BY Here, FidAssumption DEF WalkChild, Defined, At, Giving, Ending
<1>2. l[q].c \in Objs
  BY <1>1, Here DEF WalkChild
<1>3. CASE l[q].c = Top(q) /\ l' = [l EXCEPT ![q].n = fids[l[q].c].cnext] /\ Goto(q, "cas")
  <2>1. \A p \in Procs \ {q} : l'[p] = l[p]
    BY <1>3 DEF BaseInv, TypeInv
  <2> QED BY <1>1, <1>2, <1>3, <2>1, PcHere, LocalHere DEF WalkChild, SameHistory, SameRest
<1>4. CASE l' = [l EXCEPT ![q].p = l[q].c, ![q].c = fids[l[q].c].cnext] /\ UNCHANGED pc
  <2>1. Others(q)
    BY <1>4 DEF BaseInv, TypeInv, Others
  <2> QED BY <1>1, <1>2, <1>4, <2>1, LocalHere DEF WalkChild, SameHistory, SameRest
<1> QED BY <1>3, <1>4 DEF WalkChild

LEMMA NotFoundHere ==
  ASSUME BaseInv, NEW q \in Procs, NotFound(q)
  PROVE  /\ pc[q] = "walk" /\ Top(q) \in Objs /\ fids[Top(q)].parent \in Objs /\ l[q].stack # <<>>
         /\ fids' = fids /\ WentUp(q) /\ SameHistory
  BY Here, UpHere DEF NotFound, At, Giving, Ending, SameHistory, SameRest

LEMMA RemoveHere ==
  ASSUME BaseInv, NEW q \in Procs, Remove(q)
  PROVE  /\ pc[q] = "cas" /\ Top(q) \in Objs /\ fids[Top(q)].parent \in Objs /\ l[q].stack # <<>>
         /\ WentUp(q) /\ SameHistory
         /\ \/ /\ fids[fids[Top(q)].parent].children = Top(q)
               /\ SetChildren(fids[Top(q)].parent, l[q].n)
            \/ /\ l[q].p \in Objs /\ fids[l[q].p].cnext = Top(q)
               /\ SetCnext(l[q].p, l[q].n)
<1>1. /\ pc[q] = "cas" /\ Top(q) \in Objs /\ fids[Top(q)].parent \in Objs /\ l[q].stack # <<>>
      /\ WentUp(q) /\ SameHistory /\ (l[q].p # None => l[q].p \in Objs)
  BY Here, UpHere DEF Remove, Defined, At, Giving, Ending, SameHistory, SameRest
<1>2. CASE /\ fids[fids[Top(q)].parent].children = Top(q)
           /\ fids' = [fids EXCEPT ![fids[Top(q)].parent].children = l[q].n]
  BY <1>1, <1>2, FidHere
<1>3. CASE l[q].p # None /\ fids[l[q].p].cnext = Top(q) /\ fids' = [fids EXCEPT ![l[q].p].cnext = l[q].n]
  BY <1>1, <1>3, FidHere
<1> QED BY <1>2, <1>3 DEF Remove

LEMMA RemoveFailsHere ==
  ASSUME BaseInv, NEW q \in Procs, RemoveFails(q)
  PROVE  /\ pc[q] = "cas" /\ pc'[q] = "find" /\ fids' = fids /\ SameHistory
         /\ Walked(q, None, None, None)
<1>1. \A p \in Procs \ {q} : l'[p] = l[p]
  BY DEF BaseInv, TypeInv, RemoveFails
<1> QED BY <1>1, PcHere, LocalHere DEF RemoveFails, Defined, At, SameHistory, SameRest

LEMMA FreeHere ==
  ASSUME BaseInv, NEW q \in Procs, Free(q)
  PROVE  /\ pc[q] = "free" /\ Top(q) \in Objs /\ l[q].stack # <<>>
         /\ SetFreed(Top(q)) /\ Others(q) /\ SameHistory
         /\ Returned(q) \/ WentOn(q) \/ Ended(q)
<1>1. pc[q] = "free" /\ pc[q] \in Giving /\ Top(q) \in Objs /\ l[q].stack # <<>>
  BY Here DEF Free, Defined, At, Giving, Ending
<1> QED BY <1>1, FidHere, BackHere DEF Free, SameHistory, SameRest

(* What is on the stack after a step of q: what was there, and what is given up. *)
LEMMA StackStep ==
  ASSUME BaseInv, NEW q \in Procs
  PROVE  /\ \A o, then, new : GaveUp(q, o, then, new) =>
              DOMAIN l'[q].stack = {1} /\ l'[q].stack[1] = o /\ l'[q].stack # <<>>
         /\ Returned(q) => /\ l'[q].stack # <<>> /\ DOMAIN l'[q].stack = 1..Len(l[q].stack) - 1
                           /\ \A i \in DOMAIN l'[q].stack :
                                i + 1 \in DOMAIN l[q].stack /\ l'[q].stack[i] = l[q].stack[i + 1]
         /\ WentUp(q) /\ fids[Top(q)].parent \in Objs =>
              /\ l'[q].stack # <<>> /\ 1 \in DOMAIN l'[q].stack /\ l'[q].stack[1] = fids[Top(q)].parent
              /\ \A i \in DOMAIN l'[q].stack \ {1} :
                   i - 1 \in DOMAIN l[q].stack /\ l'[q].stack[i] = l[q].stack[i - 1]
         /\ WentOn(q) \/ Ended(q) \/ Cleared(q) => l'[q].stack = <<>> /\ DOMAIN l'[q].stack = {}
<1>1. l[q].stack \in Seq(Objs)
  BY Here DEF LocalType
<1>2. ASSUME NEW o, NEW then, NEW new, GaveUp(q, o, then, new)
      PROVE  DOMAIN l'[q].stack = {1} /\ l'[q].stack[1] = o /\ l'[q].stack # <<>>
  <2>1. l'[q].stack = <<o>>
    BY <1>2 DEF GaveUp
  <2> QED BY <2>1
<1>3. ASSUME Returned(q)
      PROVE  /\ l'[q].stack # <<>> /\ DOMAIN l'[q].stack = 1..Len(l[q].stack) - 1
             /\ \A i \in DOMAIN l'[q].stack : i + 1 \in DOMAIN l[q].stack /\ l'[q].stack[i] = l[q].stack[i + 1]
  <2> DEFINE s == l[q].stack
  <2>1. l'[q].stack = Tail(s) /\ Len(s) > 1 /\ s \in Seq(Objs)
    BY <1>1, <1>3 DEF Returned
  <2> HIDE DEF s
  <2>2. s # <<>>
    BY <2>1
  <2>3. /\ DOMAIN Tail(s) = 1..Len(s) - 1 /\ DOMAIN s = 1..Len(s) /\ Len(s) \in Nat
        /\ \A i \in 1..Len(s) - 1 : Tail(s)[i] = s[i + 1]
    BY <2>1, <2>2, StackHead
  <2>6. \A n \in Nat : n > 1 => 1 \in 1..n - 1 /\ \A i \in 1..n - 1 : i + 1 \in 1..n
    OBVIOUS
  <2>4. 1 \in DOMAIN Tail(s) /\ \A i \in 1..Len(s) - 1 : i + 1 \in 1..Len(s)
    BY <2>1, <2>3, <2>6
  <2>7. 1 \notin DOMAIN << >>
    OBVIOUS
  <2>5. Tail(s) # <<>>
    BY <2>4, <2>7, Zenon
  <2> QED BY <2>1, <2>3, <2>4, <2>5 DEF s
<1>4. ASSUME WentUp(q), fids[Top(q)].parent \in Objs
      PROVE  /\ l'[q].stack # <<>> /\ 1 \in DOMAIN l'[q].stack /\ l'[q].stack[1] = fids[Top(q)].parent
             /\ \A i \in DOMAIN l'[q].stack \ {1} :
                  i - 1 \in DOMAIN l[q].stack /\ l'[q].stack[i] = l[q].stack[i - 1]
  <2> DEFINE s == l[q].stack  o == fids[Top(q)].parent
  <2>1. l'[q].stack = <<o>> \o s /\ s \in Seq(Objs) /\ o \in Objs
    BY <1>1, <1>4 DEF WentUp
  <2> HIDE DEF s, o
  <2>2. Len(s) \in Nat
    BY <2>1
  <2>3. /\ <<o>> \o s # <<>> /\ 1 \in DOMAIN (<<o>> \o s) /\ (<<o>> \o s)[1] = o
        /\ \A i \in DOMAIN (<<o>> \o s) \ {1} : i - 1 \in DOMAIN s /\ (<<o>> \o s)[i] = s[i - 1]
    BY <2>1, <2>2, StackUp
  <2> QED BY <2>1, <2>3 DEF s, o
<1>5. ASSUME WentOn(q) \/ Ended(q) \/ Cleared(q) PROVE l'[q].stack = <<>> /\ DOMAIN l'[q].stack = {}
  <2>1. l'[q].stack = <<>>
    BY <1>5 DEF WentOn, Ended, Cleared
  <2> QED BY <2>1
<1> QED BY <1>2, <1>3, <1>4, <1>5

LEMMA KnownNext == BaseInv /\ [Next]_vars => KnownInv'
<1> SUFFICES ASSUME BaseInv, [Next]_vars PROVE KnownInv'
  OBVIOUS
<1>0. KnownInv
  BY DEF BaseInv
<1>1. CASE UNCHANGED vars
  BY <1>0, <1>1 DEF vars, KnownInv, Known
<1>2. CASE Next
  <2>1. PICK q \in Procs : Finds(q) \/ Frees(q) \/ Undefined(q)
    BY <1>2 DEF Next
  <2>2. /\ \A o \in Objs : /\ Known(fids, fids[o].parent) /\ Known(fids, fids[o].children)
                           /\ Known(fids, fids[o].cnext)
        /\ Known(fids, l[q].fid) /\ Known(fids, l[q].new) /\ Known(fids, l[q].c)
        /\ Known(fids, l[q].p) /\ Known(fids, l[q].n)
        /\ \A i \in DOMAIN l[q].stack : Known(fids, l[q].stack[i])
        /\ Known(fids, root) /\ Known(fids, None)
    BY <1>0 DEF KnownInv, Known
  <2>3. ASSUME NEW path \in Paths, NEW create \in BOOLEAN, Call(q, path, create) PROVE KnownInv'
    <3>1. DOMAIN l'[q].stack = {}
      BY <2>3, CallHere
    <3>2. /\ \A x \in Objs : fids'[x].mem = fids[x].mem
          /\ \A x \in Objs : /\ fids'[x].parent = fids[x].parent
                             /\ fids'[x].children = fids[x].children /\ fids'[x].cnext = fids[x].cnext
      BY <2>3, CallHere DEF SetRefs, SameFile
    <3>3. \A x : Known(fids, x) => Known(fids', x)
      BY <3>2 DEF Known
    <3>4. /\ l'[q].fid = root /\ l'[q].new = None /\ l'[q].c = None /\ l'[q].p = None /\ l'[q].n = None
          /\ Others(q)
      BY <2>3, CallHere
    <3> QED BY <1>0, <2>2, <3>1, <3>2, <3>3, <3>4, KnownStep
  <2>4. CASE Enter(q)
    BY <1>0, <2>2, <2>4, EnterHere, StackStep, KnownStep DEF GaveUp, Walked
  <2>5. CASE Scan(q)
    BY <1>0, <2>2, <2>5, ScanHere, KnownStep DEF Walked, Stayed
  <2>6. CASE Take(q)
    BY <1>0, <2>2, <2>6, TakeHere, StackStep, KnownStep DEF GaveUp, SetRefs, SameFile, Known
  <2>7. CASE AskFails(q)
    BY <1>0, <2>2, <2>7, AskFailsHere, StackStep, KnownStep DEF GaveUp
  <2>8. CASE NoChild(q)
    BY <1>0, <2>2, <2>8, NoChildHere, StackStep, KnownStep DEF GaveUp, Walked, Stayed, Cleared
  <2>9. ASSUME NEW o \in Objs, Answer(q, o) PROVE KnownInv'
    <3>1. \A x \in Objs : fids[x].mem # "new" => fids'[x].mem # "new"
      BY <2>9, AnswerHere
    <3>2. \A x : Known(fids, x) => Known(fids', x)
      BY <3>1 DEF Known
    <3>3. /\ fids'[o].mem = "used" /\ fids'[o].parent = l[q].fid
          /\ fids'[o].children = None /\ fids'[o].cnext = None
      <4>1. fids'[o] = NewFid(File(q), Head(l[q].path), l[q].fid)
        BY <2>9, AnswerHere
      <4> QED BY <4>1 DEF NewFid
    <3>4. \A x \in Objs : /\ Known(fids', fids'[x].parent) /\ Known(fids', fids'[x].children)
                          /\ Known(fids', fids'[x].cnext)
      BY <2>2, <2>9, <3>2, <3>3, AnswerHere
    <3>5. Known(fids', o)
      BY <3>3 DEF Known
    <3>6. /\ Known(fids', l'[q].fid) /\ Known(fids', l'[q].new) /\ Known(fids', l'[q].c)
          /\ Known(fids', l'[q].p) /\ Known(fids', l'[q].n)
          /\ \A i \in DOMAIN l'[q].stack : Known(fids', l'[q].stack[i])
      BY <2>2, <2>9, <3>2, <3>5, AnswerHere DEF SameWalk
    <3> QED BY <1>0, <2>9, <3>1, <3>4, <3>6, AnswerHere, KnownStep
  <2>10. CASE NoMemory(q)
    BY <1>0, <2>2, <2>10, NoMemoryHere, StackStep, KnownStep DEF GaveUp
  <2>11. CASE Grow(q)
    BY <1>0, <2>2, <2>11, GrowHere, KnownStep DEF Walked, Stayed, SetRefs, SameFile, Known
  <2>12. CASE LoadChildren(q)
    BY <1>0, <2>2, <2>12, LoadChildrenHere, KnownStep DEF Walked, Stayed, SetCnext, SameFile, Known
  <2>13. CASE Push(q)
    BY <1>0, <2>2, <2>13, PushHere, StackStep, KnownStep DEF GaveUp, SetChildren, SameFile, Known
  <2>14. CASE PushFails(q)
    BY <1>0, <2>2, <2>14, PushFailsHere, KnownStep DEF Walked, Stayed
  <2>15. CASE Drop(q)
    BY <1>0, <2>2, <2>15, DropHere, StackStep, KnownStep DEF GaveUp
  <2>16. CASE Dec(q)
    <3>1. /\ \A x \in Objs : fids'[x].mem = fids[x].mem
          /\ \A x \in Objs : /\ fids'[x].parent = fids[x].parent
                             /\ fids'[x].children = fids[x].children /\ fids'[x].cnext = fids[x].cnext
      BY <2>16, DecHere DEF SetRefs, SameFile
    <3>2. \A x : Known(fids, x) => Known(fids', x)
      BY <3>1 DEF Known
    <3>3. CASE Returned(q) \/ WentOn(q) \/ Ended(q)
      <4>1. \A i \in DOMAIN l'[q].stack : Known(fids, l'[q].stack[i])
        BY <2>2, <3>3, StackStep
      <4>2. /\ Known(fids, l'[q].fid) /\ Known(fids, l'[q].new) /\ Known(fids, l'[q].c)
            /\ Known(fids, l'[q].p) /\ Known(fids, l'[q].n)
        BY <2>2, <3>3 DEF Returned, WentOn, Ended, Cleared, SameWalk
      <4> QED BY <1>0, <2>2, <2>16, <3>1, <3>2, <4>1, <4>2, DecHere, KnownStep
    <3>4. CASE Stayed(q)
      BY <1>0, <2>2, <2>16, <3>1, <3>2, <3>4, DecHere, KnownStep DEF Walked, Stayed
    <3> QED BY <2>16, <3>3, <3>4, DecHere
  <2>17. CASE Clunk(q)
    BY <1>0, <2>2, <2>17, ClunkHere, KnownStep DEF Walked, Stayed
  <2>18. CASE FindChild(q)
    BY <1>0, <2>2, <2>18, FindChildHere, KnownStep DEF Walked
  <2>19. CASE WalkChild(q)
    BY <1>0, <2>2, <2>19, WalkChildHere, KnownStep DEF Walked
  <2>20. CASE NotFound(q)
    <3>1. \A i \in DOMAIN l'[q].stack : Known(fids, l'[q].stack[i])
      BY <2>2, <2>20, NotFoundHere, StackStep
    <3> QED BY <1>0, <2>2, <2>20, <3>1, NotFoundHere, KnownStep DEF WentUp
  <2>21. CASE Remove(q)
    <3>1. \A i \in DOMAIN l'[q].stack : Known(fids, l'[q].stack[i])
      BY <2>2, <2>21, RemoveHere, StackStep
    <3>2. /\ \A x \in Objs : fids'[x].mem = fids[x].mem /\ fids'[x].parent = fids[x].parent
          /\ \A x \in Objs : /\ fids'[x].children \in {fids[x].children, l[q].n}
                             /\ fids'[x].cnext \in {fids[x].cnext, l[q].n}
      BY <2>21, RemoveHere DEF SetChildren, SetCnext, SameFile
    <3>3. \A x : Known(fids, x) => Known(fids', x)
      BY <3>2 DEF Known
    <3>4. \A x \in Objs : /\ Known(fids', fids'[x].parent) /\ Known(fids', fids'[x].children)
                          /\ Known(fids', fids'[x].cnext)
      BY <2>2, <3>2, <3>3
    <3>5. /\ Known(fids, l'[q].fid) /\ Known(fids, l'[q].new) /\ Known(fids, l'[q].c)
          /\ Known(fids, l'[q].p) /\ Known(fids, l'[q].n) /\ Others(q)
      BY <2>2, <2>21, RemoveHere DEF WentUp
    <3> QED BY <1>0, <3>1, <3>2, <3>3, <3>4, <3>5, KnownStep
  <2>22. CASE RemoveFails(q)
    BY <1>0, <2>2, <2>22, RemoveFailsHere, KnownStep DEF Walked
  <2>23. CASE Free(q)
    <3>1. /\ \A x \in Objs : fids[x].mem # "new" => fids'[x].mem # "new"
          /\ \A x \in Objs : /\ fids'[x].parent = fids[x].parent
                             /\ fids'[x].children = fids[x].children /\ fids'[x].cnext = fids[x].cnext
      BY <2>23, FreeHere DEF SetFreed, SameFile
    <3>2. \A x : Known(fids, x) => Known(fids', x)
      BY <3>1 DEF Known
    <3>3. Others(q) /\ (Returned(q) \/ WentOn(q) \/ Ended(q))
      BY <2>23, FreeHere
    <3>4. \A i \in DOMAIN l'[q].stack : Known(fids, l'[q].stack[i])
      BY <2>2, <3>3, StackStep
    <3>5. /\ Known(fids, l'[q].fid) /\ Known(fids, l'[q].new) /\ Known(fids, l'[q].c)
          /\ Known(fids, l'[q].p) /\ Known(fids, l'[q].n)
      BY <2>2, <3>3 DEF Returned, WentOn, Ended, Cleared, SameWalk
    <3> QED BY <1>0, <2>2, <3>1, <3>2, <3>3, <3>4, <3>5, KnownStep
  <2>24. CASE Undefined(q)
    BY <1>0, <2>24 DEF Undefined, KnownInv, Known
  <2> QED BY <2>1, <2>3, <2>4, <2>5, <2>6, <2>7, <2>8, <2>9, <2>10, <2>11, <2>12, <2>13, <2>14, <2>15,
             <2>16, <2>17, <2>18, <2>19, <2>20, <2>21, <2>22, <2>23, <2>24 DEF Finds, Frees
<1> QED BY <1>1, <1>2

LEMMA TailLonger ==
  ASSUME NEW S, NEW s \in Seq(S), Len(s) > 1
  PROVE  Tail(s) # <<>>
<1>1. s # <<>>
  OBVIOUS
<1>2. Tail(s) \in Seq(S) /\ Len(Tail(s)) = Len(s) - 1
  BY <1>1, HeadTailProperties
<1>3. Len(s) \in Nat /\ Len(<< >>) = 0
  OBVIOUS
<1>4. Len(Tail(s)) # 0
  BY <1>2, <1>3
<1> QED BY <1>3, <1>4, Zenon

(* PlaceInv, when one process has taken a step. *)
LEMMA PlaceStep ==
  ASSUME BaseInv, NEW q \in Procs, Others(q), Placed(q)',
         \A x \in Objs : fids[x].mem # "new" => SameFile(x),
         \A p \in Procs \ {q} : calls'[p] = calls[p]
  PROVE  PlaceInv'
<1> SUFFICES ASSUME NEW p \in Procs, p # q PROVE Placed(p)'
  BY DEF PlaceInv
<1>1. l'[p] = l[p] /\ pc'[p] = pc[p] /\ calls'[p] = calls[p] /\ Placed(p)
  BY DEF Others, BaseInv, PlaceInv
<1>2. pc[p] \in {"find", "walk", "cas"} => fids'[Top(p)].parent = fids[Top(p)].parent
  <2> SUFFICES ASSUME pc[p] \in {"find", "walk", "cas"} PROVE fids'[Top(p)].parent = fids[Top(p)].parent
    OBVIOUS
  <2>1. l[p].stack \in Seq(Objs) /\ l[p].stack # <<>> /\ Top(p) \in Objs
    BY Here DEF LocalType, Giving, Ending
  <2>2. Top(p) = l[p].stack[1] /\ 1 \in DOMAIN l[p].stack
    BY <2>1, StackHead DEF Top
  <2>3. Known(fids, Top(p)) /\ Top(p) # None
    BY <2>1, <2>2, FidAssumption DEF BaseInv, KnownInv
  <2> QED BY <2>1, <2>3 DEF Known, SameFile
<1>3. pc[p] \in {"scan", "create"} => fids'[l[p].fid].file = fids[l[p].fid].file
  <2> SUFFICES ASSUME pc[p] \in {"scan", "create"} PROVE fids'[l[p].fid].file = fids[l[p].fid].file
    OBVIOUS
  <2>1. l[p].fid \in Objs /\ Known(fids, l[p].fid) /\ None \notin Objs
    BY Here, FidAssumption DEF FidPcs, BaseInv, KnownInv
  <2> QED BY <2>1 DEF Known, SameFile
<1> QED BY <1>1, <1>2, <1>3 DEF Placed, Top

LEMMA BackPlaced ==
  ASSUME BaseInv, NEW q \in Procs, pc[q] \in Giving, Returned(q) \/ WentOn(q) \/ Ended(q), SameRest
  PROVE  Placed(q)'
<1>1. Placed(q) /\ l[q] \in LocalType /\ None \notin Objs
  BY FidAssumption DEF BaseInv, PlaceInv, TypeInv
<1> USE DEF SameRest, Placed, FidPcs, Pushing, Giving, Ending
<1>2. CASE Returned(q)
  BY <1>1, <1>2, StackStep DEF Returned, SameCall
<1>3. CASE WentOn(q)
  <2>1. l[q].path # <<>> /\ l[q].path \in Seq(Names) /\ l[q].new # None
    BY <1>1, <1>3 DEF WentOn, LocalType
  <2>2. Len(l[q].path) > 1 => Tail(l[q].path) # <<>>
    BY <2>1, TailLonger
  <2> QED BY <1>1, <1>3, <2>1, <2>2, StackStep DEF WentOn
<1>4. CASE Ended(q)
  BY <1>1, <1>4, StackStep DEF Ended, Cleared
<1> QED BY <1>2, <1>3, <1>4

LEMMA PlaceNext == BaseInv /\ [Next]_vars => PlaceInv'
<1> SUFFICES ASSUME BaseInv, [Next]_vars PROVE PlaceInv'
  OBVIOUS
<1>0. PlaceInv /\ None \notin Objs
  BY FidAssumption DEF BaseInv
<1> DEFINE Kept == \A x \in Objs : fids[x].mem # "new" => SameFile(x)
<1>1. CASE UNCHANGED vars
  BY <1>0, <1>1 DEF vars, PlaceInv, Placed, Top
<1>2. CASE Next
  <2>1. PICK q \in Procs : Finds(q) \/ Frees(q) \/ Undefined(q)
    BY <1>2 DEF Next
  <2>2. Placed(q) /\ calls \in [Procs -> 0..MaxCalls]
    BY <1>0 DEF PlaceInv, BaseInv, TypeInv
  <2>k. fids' = fids => Kept
    BY DEF SameFile
  <2>3. ASSUME NEW path \in Paths, NEW create \in BOOLEAN, Call(q, path, create) PROVE PlaceInv'
    <3>1. calls'[q] > 0
      BY <2>2, <2>3, CallHere
    <3>2. root # None
      BY <1>0, <2>3, CallHere
    <3>3. Placed(q)'
      BY <2>2, <2>3, <3>1, <3>2, CallHere DEF Placed, FidPcs, Pushing, Giving, Ending
    <3> QED BY <2>2, <2>3, <3>3, CallHere, PlaceStep DEF SetRefs
  <2>4. CASE Enter(q)
    <3>1. Placed(q)'
      BY <1>0, <2>2, <2>4, EnterHere, StackStep
         DEF GaveUp, Walked, SameCall, SameHistory, SameRest, Placed, FidPcs, Pushing, Giving, Ending
    <3> QED BY <2>4, <2>k, <3>1, EnterHere, PlaceStep DEF GaveUp, Walked, SameHistory, SameRest
  <2>5. CASE Scan(q)
    <3>1. Placed(q)'
      BY <1>0, <2>2, <2>5, ScanHere
         DEF Walked, Stayed, SameCall, SameHistory, SameRest, Placed, FidPcs, Pushing, Giving, Ending
    <3> QED BY <2>5, <2>k, <3>1, ScanHere, PlaceStep DEF Stayed, Walked, SameHistory, SameRest
  <2>6. CASE Take(q)
    <3>1. Placed(q)'
      BY <1>0, <2>2, <2>6, TakeHere, StackStep
         DEF GaveUp, SameRest, Placed, FidPcs, Pushing, Giving, Ending
    <3> QED BY <2>6, <3>1, TakeHere, PlaceStep DEF GaveUp, SameRest, SetRefs
  <2>7. CASE AskFails(q)
    <3>1. Placed(q)'
      BY <1>0, <2>2, <2>7, AskFailsHere, StackStep
         DEF GaveUp, SameHistory, SameRest, Placed, FidPcs, Pushing, Giving, Ending
    <3> QED BY <2>7, <2>k, <3>1, AskFailsHere, PlaceStep DEF GaveUp, SameHistory, SameRest
  <2>8. CASE NoChild(q)
    <3>1. Placed(q)'
      BY <1>0, <2>2, <2>8, NoChildHere, StackStep
         DEF GaveUp, Walked, Stayed, Cleared, SameCall, Placed, FidPcs, Pushing, Giving, Ending
    <3> QED BY <2>8, <2>k, <3>1, NoChildHere, PlaceStep DEF GaveUp, Stayed, Walked
  <2>9. ASSUME NEW o \in Objs, Answer(q, o) PROVE PlaceInv'
    <3>1. Placed(q)'
      BY <1>0, <2>2, <2>9, AnswerHere
         DEF SameCall, SameHistory, SameRest, Placed, FidPcs, Pushing, Giving, Ending
    <3>2. Kept
      BY <2>9, AnswerHere DEF SameFile
    <3> QED BY <2>9, <3>1, <3>2, AnswerHere, PlaceStep DEF SameHistory, SameRest
  <2>10. CASE NoMemory(q)
    <3>1. Placed(q)'
      BY <1>0, <2>2, <2>10, NoMemoryHere, StackStep
         DEF GaveUp, SameHistory, SameRest, Placed, FidPcs, Pushing, Giving, Ending
    <3> QED BY <2>10, <2>k, <3>1, NoMemoryHere, PlaceStep DEF GaveUp, SameHistory, SameRest
  <2>11. CASE Grow(q)
    <3>1. Placed(q)'
      BY <1>0, <2>2, <2>11, GrowHere
         DEF Walked, Stayed, SameCall, SameHistory, SameRest, Placed, FidPcs, Pushing, Giving, Ending
    <3> QED BY <2>11, <3>1, GrowHere, PlaceStep DEF SetRefs, SameHistory, SameRest
  <2>12. CASE LoadChildren(q)
    <3>1. Placed(q)'
      BY <1>0, <2>2, <2>12, LoadChildrenHere
         DEF Walked, Stayed, SameCall, SameHistory, SameRest, Placed, FidPcs, Pushing, Giving, Ending
    <3> QED BY <2>12, <3>1, LoadChildrenHere, PlaceStep DEF SetCnext, SameHistory, SameRest
  <2>13. CASE Push(q)
    <3>1. Placed(q)'
      BY <1>0, <2>2, <2>13, PushHere, StackStep
         DEF GaveUp, SameHistory, SameRest, Placed, FidPcs, Pushing, Giving, Ending
    <3> QED BY <2>13, <3>1, PushHere, PlaceStep DEF GaveUp, SetChildren, SameHistory, SameRest
  <2>14. CASE PushFails(q)
    <3>1. Placed(q)'
      BY <1>0, <2>2, <2>14, PushFailsHere
         DEF Walked, Stayed, SameCall, SameHistory, SameRest, Placed, FidPcs, Pushing, Giving, Ending
    <3> QED BY <2>14, <2>k, <3>1, PushFailsHere, PlaceStep DEF SameHistory, SameRest
  <2>15. CASE Drop(q)
    <3>1. Placed(q)'
      BY <1>0, <2>2, <2>15, DropHere, StackStep
         DEF GaveUp, SameHistory, SameRest, Placed, FidPcs, Pushing, Giving, Ending
    <3> QED BY <2>15, <2>k, <3>1, DropHere, PlaceStep DEF GaveUp, SameHistory, SameRest
  <2>16. CASE Dec(q)
    <3>1. CASE Returned(q) \/ WentOn(q) \/ Ended(q)
      <4>1. Placed(q)'
        BY <2>2, <2>16, <3>1, DecHere, BackPlaced DEF Giving, SameHistory
      <4> QED BY <2>16, <4>1, DecHere, PlaceStep DEF SetRefs, SameHistory, SameRest
    <3>2. CASE pc'[q] = "clunk" /\ Stayed(q)
      <4>1. Placed(q)'
        BY <1>0, <2>2, <2>16, <3>2, DecHere
           DEF Walked, Stayed, SameCall, SameHistory, SameRest, Placed, FidPcs, Pushing, Giving, Ending
      <4> QED BY <2>16, <4>1, DecHere, PlaceStep DEF SetRefs, SameHistory, SameRest
    <3> QED BY <2>16, <3>1, <3>2, DecHere
  <2>17. CASE Clunk(q)
    <3>1. Placed(q)'
      BY <1>0, <2>2, <2>17, ClunkHere
         DEF Walked, Stayed, SameCall, SameHistory, SameRest, Placed, Top, FidPcs, Pushing, Giving, Ending
    <3> QED BY <2>17, <2>k, <3>1, ClunkHere, PlaceStep DEF SameHistory, SameRest
  <2>18. CASE FindChild(q)
    <3>1. Placed(q)'
      BY <1>0, <2>2, <2>18, FindChildHere
         DEF Walked, SameCall, SameHistory, SameRest, Placed, Top, FidPcs, Pushing, Giving, Ending
    <3> QED BY <2>18, <2>k, <3>1, FindChildHere, PlaceStep DEF Walked, SameHistory, SameRest
  <2>19. CASE WalkChild(q)
    <3>1. Placed(q)'
      BY <1>0, <2>2, <2>19, WalkChildHere
         DEF Walked, SameCall, SameHistory, SameRest, Placed, Top, FidPcs, Pushing, Giving, Ending
    <3> QED BY <2>19, <2>k, <3>1, WalkChildHere, PlaceStep DEF Walked, SameHistory, SameRest
  <2>20. CASE NotFound(q)
    <3>1. l'[q].stack # <<>>
      BY <2>20, NotFoundHere, StackStep
    <3>2. Placed(q)'
      BY <1>0, <2>2, <2>20, <3>1, NotFoundHere
         DEF WentUp, SameCall, SameHistory, SameRest, Placed, FidPcs, Pushing, Giving, Ending
    <3> QED BY <2>20, <2>k, <3>2, NotFoundHere, PlaceStep DEF WentUp, SameHistory, SameRest
  <2>21. CASE Remove(q)
    <3>1. l'[q].stack # <<>>
      BY <2>21, RemoveHere, StackStep
    <3>2. Placed(q)'
      BY <1>0, <2>2, <2>21, <3>1, RemoveHere
         DEF WentUp, SameCall, SameHistory, SameRest, Placed, FidPcs, Pushing, Giving, Ending
    <3>3. Kept
      BY <2>21, RemoveHere DEF SetChildren, SetCnext
    <3> QED BY <2>21, <3>2, <3>3, RemoveHere, PlaceStep DEF WentUp, SameHistory, SameRest
  <2>22. CASE RemoveFails(q)
    <3>1. Placed(q)'
      BY <1>0, <2>2, <2>22, RemoveFailsHere
         DEF Walked, SameCall, SameHistory, SameRest, Placed, Top, FidPcs, Pushing, Giving, Ending
    <3> QED BY <2>22, <2>k, <3>1, RemoveFailsHere, PlaceStep DEF Walked, SameHistory, SameRest
  <2>23. CASE Free(q)
    <3>1. Placed(q)'
      BY <2>2, <2>23, FreeHere, BackPlaced DEF Giving, Ending, SameHistory
    <3> QED BY <2>23, <3>1, FreeHere, PlaceStep DEF SetFreed, SameHistory, SameRest
  <2>24. CASE Undefined(q)
    BY <1>0, <2>24 DEF Undefined, PlaceInv, Placed, Top
  <2> QED BY <2>1, <2>3, <2>4, <2>5, <2>6, <2>7, <2>8, <2>9, <2>10, <2>11, <2>12, <2>13, <2>14, <2>15,
             <2>16, <2>17, <2>18, <2>19, <2>20, <2>21, <2>22, <2>23, <2>24 DEF Finds, Frees
<1> QED BY <1>1, <1>2

(* CallInv, when one process has taken a step that leaves no reference behind. *)
LEMMA CallStep ==
  ASSUME BaseInv, NEW q \in Procs, Others(q), SameRest, pc[q] \notin {"idle", "dead"}
  PROVE  CallInv'
<1>1. CallInv /\ calls \in [Procs -> 0..MaxCalls]
  BY DEF BaseInv, TypeInv
<1>2. \A k \in 1..MaxCalls, p \in Procs : k < calls[p] => k <= calls[p]
  BY <1>1
<1> QED BY <1>1, <1>2 DEF CallInv, SameRest, Others

LEMMA CallNext == BaseInv /\ [Next]_vars => CallInv'
<1> SUFFICES ASSUME BaseInv, [Next]_vars PROVE CallInv'
  OBVIOUS
<1>0. CallInv /\ calls \in [Procs -> 0..MaxCalls] /\ leaked \in [Objs -> SUBSET (Procs \X (1..MaxCalls))]
  BY DEF BaseInv, TypeInv
<1>1. CASE UNCHANGED vars
  BY <1>0, <1>1 DEF vars, CallInv
<1>2. CASE Next
  <2>1. PICK q \in Procs : Finds(q) \/ Frees(q) \/ Undefined(q)
    BY <1>2 DEF Next
  <2>3. ASSUME NEW path \in Paths, NEW create \in BOOLEAN, Call(q, path, create) PROVE CallInv'
    <3> SUFFICES ASSUME NEW o \in Objs, NEW p \in Procs, NEW k \in 1..MaxCalls, <<p, k>> \in leaked[o]
                 PROVE  k <= calls'[p] /\ (pc'[p] \notin {"idle", "dead"} => k < calls'[p])
      BY <2>3, CallHere DEF CallInv
    <3>1. k <= calls[p] /\ (pc[p] \notin {"idle", "dead"} => k < calls[p]) /\ calls[p] \in Nat
      BY <1>0 DEF CallInv
    <3>2. CASE p = q
      <4>1. calls'[q] = calls[q] + 1
        BY <1>0, <2>3, CallHere
      <4> QED BY <3>1, <3>2, <4>1
    <3>3. CASE p # q
      <4>1. calls'[p] = calls[p] /\ pc'[p] = pc[p]
        BY <1>0, <2>3, <3>3, CallHere DEF Others
      <4> QED BY <3>1, <4>1
    <3> QED BY <3>2, <3>3
  <2>4. CASE Enter(q)
    BY <2>4, EnterHere, CallStep DEF GaveUp, Walked, SameHistory
  <2>5. CASE Scan(q)
    BY <2>5, ScanHere, CallStep DEF Stayed, Walked, SameHistory
  <2>6. CASE Take(q)
    BY <2>6, TakeHere, CallStep DEF GaveUp
  <2>7. CASE AskFails(q)
    BY <2>7, AskFailsHere, CallStep DEF GaveUp, SameHistory
  <2>8. CASE NoChild(q)
    <3>1. CASE leaked' = leaked /\ Others(q)
      BY <2>8, <3>1, NoChildHere, CallStep DEF SameRest
    <3>2. CASE /\ pc'[q] = "idle" /\ Others(q)
               /\ leaked' = [leaked EXCEPT ![l[q].fid] = @ \cup {<<q, calls[q]>>}]
      <4> SUFFICES ASSUME NEW o \in Objs, NEW p \in Procs, NEW k \in 1..MaxCalls, <<p, k>> \in leaked'[o]
                   PROVE  k <= calls'[p] /\ (pc'[p] \notin {"idle", "dead"} => k < calls'[p])
        BY DEF CallInv
      <4>1. calls' = calls /\ pc[q] = "scan" /\ calls[p] \in Nat
        BY <1>0, <2>8, NoChildHere
      <4>2. CASE <<p, k>> \in leaked[o]
        <5>1. k <= calls[p] /\ (pc[p] \notin {"idle", "dead"} => k < calls[p])
          BY <1>0, <4>2 DEF CallInv
        <5> QED BY <3>2, <4>1, <5>1 DEF Others
      <4>3. CASE <<p, k>> \notin leaked[o]
        <5>1. p = q /\ k = calls[q]
          BY <1>0, <3>2, <4>3
        <5> QED BY <3>2, <4>1, <5>1
      <4> QED BY <4>2, <4>3
    <3> QED BY <2>8, <3>1, <3>2, NoChildHere DEF GaveUp, Stayed, Walked
  <2>9. ASSUME NEW o \in Objs, Answer(q, o) PROVE CallInv'
    BY <2>9, AnswerHere, CallStep DEF SameHistory
  <2>10. CASE NoMemory(q)
    BY <2>10, NoMemoryHere, CallStep DEF GaveUp, SameHistory
  <2>11. CASE Grow(q)
    BY <2>11, GrowHere, CallStep DEF SameHistory
  <2>12. CASE LoadChildren(q)
    BY <2>12, LoadChildrenHere, CallStep DEF SameHistory
  <2>13. CASE Push(q)
    BY <2>13, PushHere, CallStep DEF GaveUp, SameHistory
  <2>14. CASE PushFails(q)
    BY <2>14, PushFailsHere, CallStep DEF SameHistory
  <2>15. CASE Drop(q)
    BY <2>15, DropHere, CallStep DEF GaveUp, SameHistory
  <2>16. CASE Dec(q)
    BY <2>16, DecHere, CallStep DEF SameHistory
  <2>17. CASE Clunk(q)
    BY <2>17, ClunkHere, CallStep DEF SameHistory
  <2>18. CASE FindChild(q)
    BY <2>18, FindChildHere, CallStep DEF Walked, SameHistory
  <2>19. CASE WalkChild(q)
    BY <2>19, WalkChildHere, CallStep DEF Walked, SameHistory
  <2>20. CASE NotFound(q)
    BY <2>20, NotFoundHere, CallStep DEF WentUp, SameHistory
  <2>21. CASE Remove(q)
    BY <2>21, RemoveHere, CallStep DEF WentUp, SameHistory
  <2>22. CASE RemoveFails(q)
    BY <2>22, RemoveFailsHere, CallStep DEF Walked, SameHistory
  <2>23. CASE Free(q)
    BY <2>23, FreeHere, CallStep DEF SameHistory
  <2>24. CASE Undefined(q)
    BY <1>0, <2>24 DEF Undefined, CallInv
  <2> QED BY <2>1, <2>3, <2>4, <2>5, <2>6, <2>7, <2>8, <2>9, <2>10, <2>11, <2>12, <2>13, <2>14, <2>15,
             <2>16, <2>17, <2>18, <2>19, <2>20, <2>21, <2>22, <2>23, <2>24 DEF Finds, Frees
<1> QED BY <1>1, <1>2

(* Whatever happens: types, known pointers and the locals of each step. *)
THEOREM BaseInductive == Spec => []BaseInv
<1>1. BaseInv /\ [Next]_vars => BaseInv'
  BY TypeNext, KnownNext, PlaceNext, CallNext DEF BaseInv
<1> QED BY <1>1, InitBase, PTL DEF Spec

(* The type invariant of Fid. *)
THEOREM FidsTyped == Spec => []TypeOK
<1>1. BaseInv => TypeOK
  <2> SUFFICES ASSUME BaseInv PROVE TypeOK
    OBVIOUS
  <2>1. TypeInv /\ PlaceInv
    BY DEF BaseInv
  <2>2. \A q \in Procs : l[q].fid \in IF pc[q] \in FidPcs THEN Objs ELSE {None}
    BY <2>1, Here DEF PlaceInv, Placed
  <2> QED BY <2>1, <2>2 DEF TypeOK, TypeInv, FidType, Some, FidPcs
<1> QED BY <1>1, BaseInductive, PTL

-----------------------------------------------------------------------------
(* Counting. *)
Bit(b) == IF b THEN 1 ELSE 0

LEMMA BitType == \A b \in BOOLEAN : Bit(b) \in {0, 1}
  BY DEF Bit

(* Two finite sets that differ in one element at most. *)
LEMMA CountMove ==
  ASSUME NEW S, NEW T, IsFiniteSet(S), IsFiniteSet(T), NEW q, S \ {q} = T \ {q}
  PROVE  /\ Cardinality(S) \in Nat /\ Cardinality(T) \in Nat
         /\ Cardinality(T) + Bit(q \in S) = Cardinality(S) + Bit(q \in T)
<1>1. Cardinality(S) \in Nat /\ Cardinality(T) \in Nat
  BY FS_CardinalityType
<1>2. CASE q \in S /\ q \in T
  <2>1. S = T
    BY <1>2
  <2> QED BY <1>1, <2>1
<1>3. CASE q \notin S /\ q \notin T
  <2>1. S = T
    BY <1>3
  <2> QED BY <1>1, <2>1
<1>4. CASE q \in S /\ q \notin T
  <2>1. T = S \ {q}
    BY <1>4
  <2>2. Cardinality(T) = Cardinality(S) - 1
    BY <1>4, <2>1, FS_RemoveElement
  <2> QED BY <1>1, <1>4, <2>2 DEF Bit
<1>5. CASE q \notin S /\ q \in T
  <2>1. S = T \ {q}
    BY <1>5
  <2>2. Cardinality(S) = Cardinality(T) - 1
    BY <1>5, <2>1, FS_RemoveElement
  <2> QED BY <1>1, <1>5, <2>2 DEF Bit
<1> QED BY <1>2, <1>3, <1>4, <1>5

(* The four sets that Holders counts, and the share of one process. *)
Fids(o) == {q \in Procs : l[q].fid = o}
News(o) == {q \in Procs : l[q].new = o}
Decs(o) == {q \in Procs : pc[q] = "dec" /\ Top(q) = o}
Kids(o) == {x \in Objs : Counted(x, o)}

LEMMA FiniteEver == IsFiniteSet(Procs \X (1..MaxCalls))
<1>1. MaxCalls \in Nat
  BY FidAssumption
<1>2. IsFiniteSet(1..MaxCalls)
  BY <1>1, FS_Interval
<1>3. IsFiniteSet(Procs)
  BY FewReferences
<1> QED BY <1>2, <1>3, FS_Product

LEMMA HoldersFinite ==
  ASSUME TypeInv, NEW o \in Objs
  PROVE  /\ IsFiniteSet(Fids(o)) /\ IsFiniteSet(News(o)) /\ IsFiniteSet(Decs(o)) /\ IsFiniteSet(Kids(o))
         /\ IsFiniteSet(leaked[o])
         /\ Cardinality(Fids(o)) \in Nat /\ Cardinality(News(o)) \in Nat /\ Cardinality(Decs(o)) \in Nat
         /\ Cardinality(Kids(o)) \in Nat /\ Cardinality(leaked[o]) \in Nat
         /\ Holders(o) = Cardinality(Fids(o)) + Cardinality(News(o)) + Cardinality(Decs(o))
                           + Cardinality(Kids(o)) + Cardinality(leaked[o]) + Bit(o = root)
         /\ Holders(o) \in Nat /\ Holders(o) < MaxCount
<1> DEFINE Ever == Procs \X (1..MaxCalls)
<1>1. /\ IsFiniteSet(Procs) /\ IsFiniteSet(Objs) /\ MaxCalls \in Nat
      /\ 3 * Cardinality(Procs) + Cardinality(Objs) + Cardinality(Ever) + 1 < MaxCount
  BY FidAssumption, FewReferences
<1>3. IsFiniteSet(Ever)
  BY FiniteEver
<1>4. /\ Fids(o) \subseteq Procs /\ News(o) \subseteq Procs /\ Decs(o) \subseteq Procs
      /\ Kids(o) \subseteq Objs /\ leaked[o] \subseteq Ever
  BY DEF Fids, News, Decs, Kids, TypeInv
<1>5. /\ IsFiniteSet(Fids(o)) /\ IsFiniteSet(News(o)) /\ IsFiniteSet(Decs(o)) /\ IsFiniteSet(Kids(o))
      /\ IsFiniteSet(leaked[o])
      /\ Cardinality(Fids(o)) <= Cardinality(Procs) /\ Cardinality(News(o)) <= Cardinality(Procs)
      /\ Cardinality(Decs(o)) <= Cardinality(Procs) /\ Cardinality(Kids(o)) <= Cardinality(Objs)
      /\ Cardinality(leaked[o]) <= Cardinality(Ever)
  BY <1>1, <1>3, <1>4, FS_Subset
<1>6. /\ Cardinality(Fids(o)) \in Nat /\ Cardinality(News(o)) \in Nat /\ Cardinality(Decs(o)) \in Nat
      /\ Cardinality(Kids(o)) \in Nat /\ Cardinality(leaked[o]) \in Nat
      /\ Cardinality(Procs) \in Nat /\ Cardinality(Objs) \in Nat /\ Cardinality(Ever) \in Nat
  BY <1>1, <1>3, <1>5, FS_CardinalityType
<1>7. Holders(o) = Cardinality(Fids(o)) + Cardinality(News(o)) + Cardinality(Decs(o))
                     + Cardinality(Kids(o)) + Cardinality(leaked[o]) + Bit(o = root)
  BY DEF Holders, Fids, News, Decs, Kids, Bit
<1>8. Bit(o = root) \in {0, 1} /\ MaxCount \in Nat
  BY DEF Bit, MaxCount
<1> HIDE DEF Ever
<1> QED BY <1>1, <1>5, <1>6, <1>7, <1>8

Own(q, o) == Bit(l[q].fid = o) + Bit(l[q].new = o) + Bit(pc[q] = "dec" /\ Top(q) = o)

(* The holders of o when a step changes the locals of q and what one child  *)
(* x counts for.                                                           *)
LEMMA HoldersStep ==
  ASSUME TypeInv, TypeInv', NEW q \in Procs, Others(q), NEW o \in Objs, NEW x \in Objs,
         \A y \in Objs \ {x} : Counted(y, o)' <=> Counted(y, o)
  PROVE  /\ Holders(o) \in Nat /\ Holders(o)' \in Nat /\ Own(q, o) \in Nat /\ Own(q, o)' \in Nat
         /\ Cardinality(leaked[o]) \in Nat /\ Cardinality(leaked'[o]) \in Nat
         /\ Holders(o)' + Own(q, o) + Bit(Counted(x, o)) + Cardinality(leaked[o])
              = Holders(o) + Own(q, o)' + Bit(Counted(x, o))' + Cardinality(leaked'[o])
<1>1. /\ IsFiniteSet(Fids(o)) /\ IsFiniteSet(News(o)) /\ IsFiniteSet(Decs(o)) /\ IsFiniteSet(Kids(o))
      /\ IsFiniteSet(Fids(o)') /\ IsFiniteSet(News(o)') /\ IsFiniteSet(Decs(o)') /\ IsFiniteSet(Kids(o)')
  <2>1. IsFiniteSet(Procs) /\ IsFiniteSet(Objs)
    BY FewReferences
  <2>2. /\ Fids(o) \subseteq Procs /\ News(o) \subseteq Procs /\ Decs(o) \subseteq Procs
        /\ Kids(o) \subseteq Objs
        /\ Fids(o)' \subseteq Procs /\ News(o)' \subseteq Procs /\ Decs(o)' \subseteq Procs
        /\ Kids(o)' \subseteq Objs
    BY DEF Fids, News, Decs, Kids
  <2> QED BY <2>1, <2>2, FS_Subset
<1>2. /\ Cardinality(Fids(o)') + Bit(l[q].fid = o) = Cardinality(Fids(o)) + Bit(l'[q].fid = o)
      /\ Cardinality(News(o)') + Bit(l[q].new = o) = Cardinality(News(o)) + Bit(l'[q].new = o)
      /\ Cardinality(Decs(o)') + Bit(pc[q] = "dec" /\ Top(q) = o)
           = Cardinality(Decs(o)) + Bit(pc[q] = "dec" /\ Top(q) = o)'
      /\ Cardinality(Kids(o)') + Bit(Counted(x, o)) = Cardinality(Kids(o)) + Bit(Counted(x, o))'
  <2>2. /\ Fids(o) \ {q} = Fids(o)' \ {q} /\ News(o) \ {q} = News(o)' \ {q}
        /\ Decs(o) \ {q} = Decs(o)' \ {q}
    BY DEF Fids, News, Decs, Others, Top
  <2>3. Kids(o) \ {x} = Kids(o)' \ {x}
    BY DEF Kids
  <2>4. /\ q \in Fids(o) <=> l[q].fid = o
        /\ q \in Fids(o)' <=> l'[q].fid = o
        /\ q \in News(o) <=> l[q].new = o
        /\ q \in News(o)' <=> l'[q].new = o
    BY DEF Fids, News
  <2>5. /\ q \in Decs(o) <=> pc[q] = "dec" /\ Top(q) = o
        /\ q \in Decs(o)' <=> (pc[q] = "dec" /\ Top(q) = o)'
    BY DEF Decs
  <2>6. /\ x \in Kids(o) <=> Counted(x, o)
        /\ x \in Kids(o)' <=> Counted(x, o)'
    BY DEF Kids
  <2>7. Cardinality(Fids(o)') + Bit(q \in Fids(o)) = Cardinality(Fids(o)) + Bit(q \in Fids(o)')
    BY <1>1, <2>2, CountMove
  <2>8. Cardinality(News(o)') + Bit(q \in News(o)) = Cardinality(News(o)) + Bit(q \in News(o)')
    BY <1>1, <2>2, CountMove
  <2>9. Cardinality(Decs(o)') + Bit(q \in Decs(o)) = Cardinality(Decs(o)) + Bit(q \in Decs(o)')
    BY <1>1, <2>2, CountMove
  <2>10. Cardinality(Kids(o)') + Bit(x \in Kids(o)) = Cardinality(Kids(o)) + Bit(x \in Kids(o)')
    BY <1>1, <2>3, CountMove
  <2> QED BY <2>4, <2>5, <2>6, <2>7, <2>8, <2>9, <2>10 DEF Bit
<1>3. /\ Cardinality(Fids(o)) \in Nat /\ Cardinality(News(o)) \in Nat /\ Cardinality(Decs(o)) \in Nat
      /\ Cardinality(Kids(o)) \in Nat /\ Cardinality(leaked[o]) \in Nat
      /\ Holders(o) = Cardinality(Fids(o)) + Cardinality(News(o)) + Cardinality(Decs(o))
                        + Cardinality(Kids(o)) + Cardinality(leaked[o]) + Bit(o = root)
  BY HoldersFinite
<1>4. /\ Cardinality(Fids(o)') \in Nat /\ Cardinality(News(o)') \in Nat /\ Cardinality(Decs(o)') \in Nat
      /\ Cardinality(Kids(o)') \in Nat /\ Cardinality(leaked'[o]) \in Nat
      /\ Holders(o)' = Cardinality(Fids(o)') + Cardinality(News(o)') + Cardinality(Decs(o)')
                        + Cardinality(Kids(o)') + Cardinality(leaked'[o]) + Bit(o = root)
  <2>1. leaked'[o] \subseteq Procs \X (1..MaxCalls)
    BY DEF TypeInv
  <2>2. IsFiniteSet(leaked'[o])
    BY <2>1, FiniteEver, FS_Subset
  <2>3. Holders(o)' = Cardinality(Fids(o)') + Cardinality(News(o)') + Cardinality(Decs(o)')
                        + Cardinality(Kids(o)') + Cardinality(leaked'[o]) + Bit(o = root)
    BY DEF Holders, Fids, News, Decs, Kids, Bit
  <2> QED BY <1>1, <2>2, <2>3, FS_CardinalityType
<1> QED BY <1>2, <1>3, <1>4 DEF Own, Bit

-----------------------------------------------------------------------------
(* What holds as long as no reference was taken of a fid that had none. *)

(* A fid that is used has as many references as it counts, and others none. *)
Ref(o) == IF fids[o].mem = "used" THEN fids[o].refs ELSE 0
RefInv == \A o \in Objs : Ref(o) = Holders(o)

(* A fid that is to be freed is freed by one process, once. *)
Doomed(q, i) == i \in DOMAIN l[q].stack /\ (i > 1 \/ pc[q] \in Ending)
FreeInv == \A q \in Procs : \A i \in DOMAIN l[q].stack : Doomed(q, i) =>
             /\ fids[l[q].stack[i]].mem = "used" /\ fids[l[q].stack[i]].refs = 0
             /\ \A p \in Procs : \A j \in DOMAIN l[p].stack :
                  Doomed(p, j) /\ l[p].stack[j] = l[q].stack[i] => p = q /\ j = i

(* A fid that is not yet on its parent's list is known to its maker alone. *)
Seen(o) == \/ \E x \in Objs : fids[x].children = o \/ fids[x].cnext = o
           \/ \E q \in Procs : l[q].c = o \/ l[q].p = o \/ l[q].n = o
PushInv == \A q \in Procs : pc[q] \in Pushing =>
             fids[l[q].new].refs = 1 /\ fids[l[q].new].parent = l[q].fid /\ ~Seen(l[q].new)

(* A list leads to children of the fid it belongs to. *)
ListInv ==
  /\ \A o \in Objs : /\ fids[o].children # None => fids[fids[o].children].parent = o
                     /\ fids[o].cnext # None => fids[fids[o].cnext].parent = fids[o].parent
  /\ \A q \in Procs :
       /\ pc[q] \in {"scan", "take"} /\ l[q].c # None => fids[l[q].c].parent = l[q].fid
       /\ pc[q] \in {"walk", "cas"} =>
            /\ l[q].c # None => fids[l[q].c].parent = fids[Top(q)].parent
            /\ l[q].p # None => fids[l[q].p].parent = fids[Top(q)].parent
       /\ pc[q] = "cas" /\ l[q].n # None => fids[l[q].n].parent = fids[Top(q)].parent

(* The parent is given up when its child has been found. *)
KeepInv == \A q \in Procs : pc[q] = "dec" /\ l[q].then = "next" /\ Len(l[q].stack) = 1 =>
             fids[l[q].new].parent = Top(q)

CoreInv == RefInv /\ FreeInv /\ PushInv /\ ListInv /\ KeepInv

LEMMA CountLeast ==
  ASSUME NEW S, IsFiniteSet(S), NEW q, NEW p, p # q
  PROVE  Cardinality(S) \in Nat /\ Cardinality(S) >= Bit(q \in S) + Bit(p \in S)
<1> DEFINE T == S \cap {q, p}
<1>1. IsFiniteSet(T) /\ Cardinality(T) <= Cardinality(S) /\ Cardinality(S) \in Nat /\ Cardinality(T) \in Nat
  <2>1. T \subseteq S
    OBVIOUS
  <2> QED BY <2>1, FS_Subset, FS_CardinalityType
<1>2. CASE q \in S /\ p \in S
  <2>1. T = {q} \cup {p} /\ p \notin {q}
    BY <1>2
  <2>2. IsFiniteSet({q}) /\ Cardinality({q}) = 1
    BY FS_Singleton
  <2>3. Cardinality(T) = 2
    BY <2>1, <2>2, FS_AddElement
  <2> QED BY <1>1, <1>2, <2>3 DEF Bit
<1>3. CASE q \in S /\ p \notin S
  <2>1. T = {q}
    BY <1>3
  <2>2. Cardinality({q}) = 1
    BY FS_Singleton
  <2> QED BY <1>1, <1>3, <2>1, <2>2 DEF Bit
<1>4. CASE q \notin S /\ p \in S
  <2>1. T = {p}
    BY <1>4
  <2>2. Cardinality({p}) = 1
    BY FS_Singleton
  <2> QED BY <1>1, <1>4, <2>1, <2>2 DEF Bit
<1>5. CASE q \notin S /\ p \notin S
  BY <1>1, <1>5 DEF Bit
<1> QED BY <1>2, <1>3, <1>4, <1>5

LEMMA CountOne ==
  ASSUME NEW S, IsFiniteSet(S), NEW q
  PROVE  Cardinality(S) \in Nat /\ Cardinality(S) >= Bit(q \in S)
<1>1. Cardinality(S) \in Nat
  BY FS_CardinalityType
<1>2. CASE q \in S
  <2>1. Cardinality(S) # 0
    BY <1>2, FS_EmptySet
  <2> QED BY <1>1, <2>1 DEF Bit
<1>3. CASE q \notin S
  BY <1>1, <1>3 DEF Bit
<1> QED BY <1>2, <1>3

(* Each reference counts: of a process, of two, of a child, of the name space. *)
LEMMA HoldersLeast ==
  ASSUME TypeInv, NEW o \in Objs, NEW q \in Procs
  PROVE  /\ Holders(o) \in Nat /\ Holders(o) < MaxCount
         /\ Holders(o) >= Own(q, o) + Bit(o = root)
         /\ \A p \in Procs : p # q => Holders(o) >= Own(q, o) + Own(p, o)
         /\ \A x \in Objs : Holders(o) >= Own(q, o) + Bit(Counted(x, o))
<1>1. /\ IsFiniteSet(Fids(o)) /\ IsFiniteSet(News(o)) /\ IsFiniteSet(Decs(o)) /\ IsFiniteSet(Kids(o))
      /\ Cardinality(Fids(o)) \in Nat /\ Cardinality(News(o)) \in Nat /\ Cardinality(Decs(o)) \in Nat
      /\ Cardinality(Kids(o)) \in Nat /\ Cardinality(leaked[o]) \in Nat
      /\ Holders(o) = Cardinality(Fids(o)) + Cardinality(News(o)) + Cardinality(Decs(o))
                        + Cardinality(Kids(o)) + Cardinality(leaked[o]) + Bit(o = root)
      /\ Holders(o) \in Nat /\ Holders(o) < MaxCount
  BY HoldersFinite
<1>2. \A p \in Procs : /\ p \in Fids(o) <=> l[p].fid = o
                       /\ p \in News(o) <=> l[p].new = o
                       /\ p \in Decs(o) <=> pc[p] = "dec" /\ Top(p) = o
  BY DEF Fids, News, Decs
<1>3. /\ Cardinality(Fids(o)) >= Bit(l[q].fid = o) /\ Cardinality(News(o)) >= Bit(l[q].new = o)
      /\ Cardinality(Decs(o)) >= Bit(pc[q] = "dec" /\ Top(q) = o)
  <2>1. /\ Cardinality(Fids(o)) >= Bit(q \in Fids(o)) /\ Cardinality(News(o)) >= Bit(q \in News(o))
        /\ Cardinality(Decs(o)) >= Bit(q \in Decs(o))
    BY <1>1, CountOne
  <2> QED BY <1>2, <2>1 DEF Bit
<1>4. Holders(o) >= Own(q, o) + Bit(o = root)
  BY <1>1, <1>3 DEF Own, Bit
<1>5. ASSUME NEW p \in Procs, p # q PROVE Holders(o) >= Own(q, o) + Own(p, o)
  <2>1. /\ Cardinality(Fids(o)) >= Bit(q \in Fids(o)) + Bit(p \in Fids(o))
        /\ Cardinality(News(o)) >= Bit(q \in News(o)) + Bit(p \in News(o))
        /\ Cardinality(Decs(o)) >= Bit(q \in Decs(o)) + Bit(p \in Decs(o))
    BY <1>1, <1>5, CountLeast
  <2>2. /\ Cardinality(Fids(o)) >= Bit(l[q].fid = o) + Bit(l[p].fid = o)
        /\ Cardinality(News(o)) >= Bit(l[q].new = o) + Bit(l[p].new = o)
        /\ Cardinality(Decs(o)) >= Bit(pc[q] = "dec" /\ Top(q) = o) + Bit(pc[p] = "dec" /\ Top(p) = o)
    BY <1>2, <2>1 DEF Bit
  <2> QED BY <1>1, <2>2 DEF Own, Bit
<1>6. ASSUME NEW x \in Objs PROVE Holders(o) >= Own(q, o) + Bit(Counted(x, o))
  <2>1. Cardinality(Kids(o)) >= Bit(x \in Kids(o))
    BY <1>1, CountOne
  <2>2. Cardinality(Kids(o)) >= Bit(Counted(x, o))
    BY <2>1 DEF Kids, Bit
  <2> QED BY <1>1, <1>3, <2>2 DEF Own, Bit
<1> QED BY <1>1, <1>4, <1>5, <1>6

LEMMA RefsType ==
  ASSUME NEW f \in [Objs -> FidType], NEW o \in Objs
  PROVE  f[o].refs \in 0..MaxCount /\ f[o].refs \in Nat /\ MaxCount \in Nat
<1>1. f[o].refs \in 0..MaxCount
  BY DEF FidType
<1>2. MaxCount \in Nat
  BY DEF MaxCount
<1> QED BY <1>1, <1>2

Refers(q, o) == l[q].fid = o \/ l[q].new = o \/ (pc[q] = "dec" /\ Top(q) = o)

LEMMA OwnRefers == ASSUME NEW q \in Procs, NEW o \in Objs
                   PROVE  Own(q, o) \in Nat /\ (Refers(q, o) => Own(q, o) >= 1)
  BY DEF Own, Bit, Refers

(* What is referred to is used, and counting does not wrap around. *)
LEMMA Referred ==
  ASSUME BaseInv, RefInv, NEW q \in Procs, NEW o \in Objs, Refers(q, o) \/ o = root
  PROVE  /\ fids[o].mem = "used" /\ fids[o].refs \in Nat /\ fids[o].refs >= 1
         /\ Inc(fids[o].refs) = fids[o].refs + 1
         /\ Less(fids[o].refs) = fids[o].refs - 1
<1>1. TypeInv /\ fids[o].refs \in 0..MaxCount /\ MaxCount \in Nat
  BY RefsType DEF BaseInv, TypeInv
<1>2. Holders(o) \in Nat /\ Holders(o) < MaxCount /\ Holders(o) >= Own(q, o) + Bit(o = root)
  BY <1>1, HoldersLeast
<1>3. Holders(o) >= 1
  BY <1>2, OwnRefers DEF Bit
<1>4. Ref(o) = Holders(o)
  BY DEF RefInv
<1>5. fids[o].mem = "used" /\ fids[o].refs = Holders(o)
  BY <1>3, <1>4 DEF Ref
<1> QED BY <1>1, <1>2, <1>3, <1>5 DEF Inc, Less

(* Any fid that is used and has references can be counted. *)
LEMMA Counting ==
  ASSUME BaseInv, RefInv, NEW o \in Objs, fids[o].mem = "used", fids[o].refs # 0, NEW q \in Procs
  PROVE  /\ fids[o].refs \in Nat /\ fids[o].refs >= 1
         /\ Inc(fids[o].refs) = fids[o].refs + 1 /\ Less(fids[o].refs) = fids[o].refs - 1
<1>1. TypeInv /\ fids[o].refs \in 0..MaxCount /\ MaxCount \in Nat
  BY RefsType DEF BaseInv, TypeInv
<1>2. Holders(o) \in Nat /\ Holders(o) < MaxCount
  BY <1>1, HoldersLeast
<1>3. fids[o].refs = Holders(o)
  BY DEF RefInv, Ref
<1> QED BY <1>1, <1>2, <1>3 DEF Inc, Less

(* The fid that a process is about to put on a list has one reference, its  *)
(* maker's.                                                                *)
LEMMA Alone ==
  ASSUME BaseInv, RefInv, PushInv, NEW q \in Procs, pc[q] \in Pushing
  PROVE  /\ l[q].new \in Objs /\ fids[l[q].new].mem = "used" /\ fids[l[q].new].refs = 1
         /\ l[q].new # root /\ l[q].new # l[q].fid
         /\ \A p \in Procs : p # q => ~Refers(p, l[q].new)
         /\ \A y \in Objs : ~Counted(y, l[q].new)
<1> DEFINE x == l[q].new
<1>1. x \in Objs /\ fids[x].refs = 1
  BY Here DEF PushInv
<1>2. fids[x].mem = "used"
  BY <1>1, Referred DEF Refers
<1>3. Holders(x) = 1 /\ TypeInv
  BY <1>1, <1>2 DEF RefInv, Ref, BaseInv
<1>4. Own(q, x) \in Nat /\ Own(q, x) >= 1
  BY <1>1, OwnRefers DEF Refers
<1>5. /\ 1 >= Own(q, x) + Bit(x = root)
      /\ \A p \in Procs : p # q => 1 >= Own(q, x) + Own(p, x)
      /\ \A y \in Objs : 1 >= Own(q, x) + Bit(Counted(y, x))
  BY <1>1, <1>3, HoldersLeast
<1>6. x # root
  BY <1>4, <1>5 DEF Bit
<1>7. l[q].fid # x
  <2>1. l[q].fid = x => Own(q, x) >= 2
    BY DEF Own, Bit
  <2> QED BY <1>4, <1>5, <2>1 DEF Bit
<1>8. \A p \in Procs : p # q => ~Refers(p, x)
  BY <1>1, <1>4, <1>5, OwnRefers
<1>9. \A y \in Objs : ~Counted(y, x)
  BY <1>4, <1>5 DEF Bit
<1> QED BY <1>1, <1>2, <1>6, <1>7, <1>8, <1>9

LEMMA NotDoomed ==
  ASSUME FreeInv, NEW x, fids[x].refs # 0 \/ fids[x].mem # "used", NEW p \in Procs
  PROVE  ~LetGo(p, x) /\ \A i \in DOMAIN l[p].stack : Doomed(p, i) => l[p].stack[i] # x
  BY DEF FreeInv, LetGo, Doomed, Ending

(* What a child counts for, when one process has taken a step. *)
LEMMA CountedStep ==
  ASSUME NEW q \in Procs, Others(q), NEW y \in Objs, NEW o,
         fids'[y].parent = fids[y].parent, fids'[y].mem = fids[y].mem,
         LetGo(q, y)' <=> LetGo(q, y), Growing(q, y)' <=> Growing(q, y)
  PROVE  Counted(y, o)' <=> Counted(y, o)
<1>1. \A p \in Procs \ {q} : (LetGo(p, y)' <=> LetGo(p, y)) /\ (Growing(p, y)' <=> Growing(p, y))
  BY DEF Others, LetGo, Growing
<1>2. \A p \in Procs : (LetGo(p, y)' <=> LetGo(p, y)) /\ (Growing(p, y)' <=> Growing(p, y))
  BY <1>1
<1> QED BY <1>2 DEF Counted

LEMMA RefStep ==
  ASSUME TypeInv, TypeInv', RefInv, NEW q \in Procs, Others(q), leaked' = leaked, NEW x \in Objs,
         \A y \in Objs \ {x}, o \in Objs : Counted(y, o)' <=> Counted(y, o),
         \A o \in Objs : Ref(o)' + Own(q, o) + Bit(Counted(x, o)) = Ref(o) + Own(q, o)' + Bit(Counted(x, o))'
  PROVE  RefInv'
<1> SUFFICES ASSUME NEW o \in Objs PROVE Ref(o)' = Holders(o)'
  BY DEF RefInv
<1>1. /\ Holders(o) \in Nat /\ Holders(o)' \in Nat /\ Own(q, o) \in Nat /\ Own(q, o)' \in Nat
      /\ Cardinality(leaked[o]) \in Nat
      /\ Holders(o)' + Own(q, o) + Bit(Counted(x, o)) + Cardinality(leaked[o])
              = Holders(o) + Own(q, o)' + Bit(Counted(x, o))' + Cardinality(leaked[o])
  BY HoldersStep
<1>2. Ref(o) = Holders(o)
  BY DEF RefInv
<1>3. Ref(o)' \in Nat
  <2>1. fids'[o].refs \in 0..MaxCount /\ MaxCount \in Nat
    BY RefsType DEF TypeInv
  <2> QED BY <2>1 DEF Ref
<1>4. Ref(o)' + Own(q, o) + Bit(Counted(x, o)) = Ref(o) + Own(q, o)' + Bit(Counted(x, o))'
  OBVIOUS
<1>5. Bit(Counted(x, o)) \in {0, 1} /\ Bit(Counted(x, o))' \in {0, 1}
  BY DEF Bit
<1> QED BY <1>1, <1>2, <1>3, <1>4, <1>5

LEMMA RefSame ==
  ASSUME TypeInv, TypeInv', RefInv, NEW q \in Procs, Others(q), leaked' = leaked,
         \A y \in Objs, o \in Objs : Counted(y, o)' <=> Counted(y, o),
         \A o \in Objs : Ref(o)' + Own(q, o) = Ref(o) + Own(q, o)'
  PROVE  RefInv'
<1>1. root \in Objs
  BY FidAssumption
<1>2. \A o \in Objs : Ref(o)' + Own(q, o) + Bit(Counted(root, o)) = Ref(o) + Own(q, o)' + Bit(Counted(root, o))'
  <2> SUFFICES ASSUME NEW o \in Objs
               PROVE  Ref(o)' + Own(q, o) + Bit(Counted(root, o)) = Ref(o) + Own(q, o)' + Bit(Counted(root, o))'
    OBVIOUS
  <2>1. Bit(Counted(root, o))' = Bit(Counted(root, o)) /\ Bit(Counted(root, o)) \in Nat
    BY <1>1 DEF Bit
  <2>2. Ref(o)' + Own(q, o) = Ref(o) + Own(q, o)'
    OBVIOUS
  <2>3. Ref(o) \in Nat /\ Ref(o)' \in Nat /\ Own(q, o) \in Nat /\ Own(q, o)' \in Nat
    <3>1. fids'[o].refs \in 0..MaxCount /\ fids[o].refs \in 0..MaxCount /\ MaxCount \in Nat
      BY RefsType DEF TypeInv
    <3> QED BY <3>1 DEF Ref, Own, Bit
  <2> QED BY <2>1, <2>2, <2>3
<1> QED BY <1>1, <1>2, RefStep

-----------------------------------------------------------------------------
(* The counts. *)
SameKids == \A y \in Objs : fids'[y].parent = fids[y].parent /\ fids'[y].mem = fids[y].mem
CountedSame == \A y \in Objs, o \in Objs : Counted(y, o)' <=> Counted(y, o)

LEMMA OwnHere ==
  ASSUME BaseInv, NEW q \in Procs, NEW o \in Objs
  PROVE  /\ pc[q] \in FidPcs => Own(q, o) = Bit(l[q].fid = o) + Bit(l[q].new = o)
         /\ pc[q] \in FidPcs \ Pushing => Own(q, o) = Bit(l[q].fid = o)
         /\ pc[q] = "dec" => Own(q, o) = Bit(Top(q) = o) + Bit(l[q].new = o)
         /\ pc[q] \in Ending => Own(q, o) = Bit(l[q].new = o)
         /\ pc[q] \in {"idle", "dead"} => Own(q, o) = 0
<1>1. Placed(q) /\ None # o
  BY FidAssumption DEF BaseInv, PlaceInv
<1>2. pc[q] \in FidPcs => l[q].new = None \/ pc[q] \in Pushing
  BY <1>1 DEF Placed, FidPcs, Giving, Ending, Pushing
<1>3. pc[q] \in Giving => l[q].fid = None
  BY <1>1 DEF Placed, FidPcs, Giving, Ending
<1>4. pc[q] \in {"idle", "dead"} => l[q].fid = None /\ l[q].new = None
  BY <1>1 DEF Placed, FidPcs, Giving, Ending, Pushing
<1> QED BY <1>1, <1>2, <1>3, <1>4 DEF Own, Bit, FidPcs, Giving, Ending, Pushing

LEMMA OwnGaveUp ==
  ASSUME NEW q \in Procs, NEW x, NEW then, NEW new, GaveUp(q, x, then, new), NEW o \in Objs
  PROVE  Own(q, o)' = Bit(x = o) + Bit(new = o)
<1>1. None # o
  BY FidAssumption
<1>2. Head(<<x>>) = x
  OBVIOUS
<1> QED BY <1>1, <1>2 DEF GaveUp, Own, Bit, Top

LEMMA GaveUpCounted ==
  ASSUME BaseInv, NEW q \in Procs, pc[q] \in FidPcs \ {"grow"}, SameKids,
         NEW x, NEW then, NEW new, GaveUp(q, x, then, new)
  PROVE  CountedSame
<1>1. l[q].stack = <<>> /\ DOMAIN << >> = {}
  BY DEF BaseInv, PlaceInv, Placed, FidPcs, Giving, Ending
<1>2. DOMAIN l'[q].stack = {1} /\ pc'[q] = "dec" /\ Others(q)
  BY StackStep DEF GaveUp
<1>3. \A y : ~LetGo(q, y) /\ ~LetGo(q, y)' /\ ~Growing(q, y) /\ ~Growing(q, y)'
  BY <1>1, <1>2 DEF LetGo, Growing, FidPcs
<1> QED BY <1>2, <1>3, CountedStep DEF CountedSame, SameKids

LEMMA StayedCounted ==
  ASSUME NEW q \in Procs, Others(q), SameKids, l'[q].stack = l[q].stack,
         pc[q] \notin {"grow", "free"}, pc'[q] \notin {"grow", "free"}
  PROVE  CountedSame
<1>1. \A y : (LetGo(q, y)' <=> LetGo(q, y)) /\ ~Growing(q, y) /\ ~Growing(q, y)'
  BY DEF LetGo, Growing
<1> QED BY <1>1, CountedStep DEF CountedSame, SameKids

LEMMA BackLetGo ==
  ASSUME BaseInv, NEW q \in Procs, pc[q] \in {"dec", "free"}, NEW y,
         Returned(q) \/ WentOn(q) \/ Ended(q)
  PROVE  /\ ~Growing(q, y) /\ ~Growing(q, y)'
         /\ pc[q] = "dec" \/ y # Top(q) => (LetGo(q, y)' <=> LetGo(q, y))
<1>1. l[q].stack \in Seq(Objs) /\ l[q].stack # <<>>
  BY Here DEF LocalType, Giving, Ending
<1>2. /\ DOMAIN l[q].stack = 1..Len(l[q].stack) /\ Len(l[q].stack) \in Nat /\ Len(l[q].stack) > 0
      /\ Top(q) = l[q].stack[1]
  BY <1>1, StackHead DEF Top
<1>3. ~Growing(q, y) /\ ~Growing(q, y)'
  BY DEF Growing, Returned, WentOn, Ended
<1>4. CASE Returned(q)
  <2>1. /\ DOMAIN l'[q].stack = 1..Len(l[q].stack) - 1 /\ pc'[q] = "free"
        /\ \A i \in DOMAIN l'[q].stack : i + 1 \in DOMAIN l[q].stack /\ l'[q].stack[i] = l[q].stack[i + 1]
    BY <1>4, StackStep DEF Returned
  <2>2. LetGo(q, y)' <=> \E i \in 1..Len(l[q].stack) - 1 : l[q].stack[i + 1] = y
    BY <2>1 DEF LetGo
  <2>3. (\E i \in 1..Len(l[q].stack) - 1 : l[q].stack[i + 1] = y)
          <=> \E i \in DOMAIN l[q].stack : i > 1 /\ l[q].stack[i] = y
    <3>1. ASSUME NEW i \in DOMAIN l[q].stack, i > 1, l[q].stack[i] = y
          PROVE  i - 1 \in 1..Len(l[q].stack) - 1 /\ l[q].stack[(i - 1) + 1] = y
      BY <1>2, <3>1
    <3>2. ASSUME NEW i \in 1..Len(l[q].stack) - 1, l[q].stack[i + 1] = y
          PROVE  i + 1 \in DOMAIN l[q].stack /\ i + 1 > 1 /\ l[q].stack[i + 1] = y
      BY <1>2, <3>2
    <3> QED BY <3>1, <3>2
  <2>4. pc[q] = "dec" \/ y # Top(q) =>
          (LetGo(q, y) <=> \E i \in DOMAIN l[q].stack : i > 1 /\ l[q].stack[i] = y)
    BY <1>2 DEF LetGo
  <2> QED BY <1>3, <2>2, <2>3, <2>4
<1>5. CASE WentOn(q) \/ Ended(q)
  <2>1. ~LetGo(q, y)'
    BY <1>5, StackStep DEF LetGo
  <2>2. Len(l[q].stack) = 1
    BY <1>5 DEF WentOn, Ended
  <2>3. pc[q] = "dec" \/ y # Top(q) => ~LetGo(q, y)
    BY <1>2, <2>2 DEF LetGo
  <2> QED BY <1>3, <2>1, <2>3
<1> QED BY <1>4, <1>5

LEMMA OwnBack ==
  ASSUME BaseInv, NEW q \in Procs, pc[q] \in Giving, Returned(q) \/ WentOn(q) \/ Ended(q), NEW o \in Objs
  PROVE  Own(q, o)' = Bit(l[q].new = o)
<1>1. Placed(q) /\ None # o
  BY FidAssumption DEF BaseInv, PlaceInv
<1>2. CASE Returned(q)
  BY <1>1, <1>2 DEF Returned, Own, Bit
<1>3. CASE WentOn(q)
  BY <1>1, <1>3 DEF WentOn, Own, Bit
<1>4. CASE Ended(q)
  <2>1. l[q].new = None
    BY <1>1, <1>4 DEF Ended, Placed, Giving, Ending, Pushing
  <2> QED BY <1>1, <1>4, <2>1 DEF Ended, Cleared, Own, Bit
<1> QED BY <1>2, <1>3, <1>4

LEMMA TopHere ==
  ASSUME BaseInv, NEW q \in Procs, pc[q] \in Giving
  PROVE  Top(q) \in Objs /\ Top(q) = l[q].stack[1] /\ 1 \in DOMAIN l[q].stack
<1>1. l[q].stack \in Seq(Objs) /\ l[q].stack # <<>>
  BY Here DEF LocalType
<1> QED BY <1>1, StackHead DEF Top

LEMMA EndingHere ==
  ASSUME BaseInv, FreeInv, NEW q \in Procs, pc[q] \in Ending
  PROVE  /\ Top(q) \in Objs /\ fids[Top(q)].mem = "used" /\ fids[Top(q)].refs = 0
         /\ Doomed(q, 1) /\ Top(q) = l[q].stack[1] /\ 1 \in DOMAIN l[q].stack
  BY TopHere DEF Doomed, FreeInv, Giving

(* A step that leaves the fids alone and hands on what q refers to. *)
LEMMA RefOwnSame ==
  ASSUME TypeInv, TypeInv', RefInv, NEW q \in Procs, Others(q), leaked' = leaked, CountedSame, fids' = fids,
         \A o \in Objs : Own(q, o)' = Own(q, o)
  PROVE  RefInv'
<1>1. \A o \in Objs : Ref(o)' = Ref(o)
  BY DEF Ref
<1> QED BY <1>1, RefSame DEF CountedSame

LEMMA RefGiveUp ==
  ASSUME BaseInv, TypeInv', RefInv, NEW q \in Procs, pc[q] \in FidPcs \ Pushing, l[q].fid \in Objs,
         NEW then, GaveUp(q, l[q].fid, then, None), leaked' = leaked, fids' = fids
  PROVE  RefInv'
<1>1. CountedSame
  BY GaveUpCounted DEF SameKids, Pushing
<1>2. \A o \in Objs : Own(q, o)' = Own(q, o)
  <2> SUFFICES ASSUME NEW o \in Objs PROVE Own(q, o)' = Own(q, o)
    OBVIOUS
  <2>1. Own(q, o)' = Bit(l[q].fid = o) + Bit(None = o)
    BY OwnGaveUp
  <2>2. Own(q, o) = Bit(l[q].fid = o)
    BY OwnHere
  <2> QED BY <2>1, <2>2, FidAssumption DEF Bit
<1> QED BY <1>1, <1>2, RefOwnSame DEF GaveUp, BaseInv

LEMMA RefStayed ==
  ASSUME BaseInv, TypeInv', RefInv, NEW q \in Procs, Others(q), leaked' = leaked, fids' = fids,
         l'[q].stack = l[q].stack, l'[q].fid = l[q].fid, l'[q].new = l[q].new,
         pc[q] \notin {"grow", "free", "dec"}, pc'[q] \notin {"grow", "free", "dec"}
  PROVE  RefInv'
<1>1. CountedSame
  BY StayedCounted DEF SameKids
<1>2. \A o \in Objs : Own(q, o)' = Own(q, o)
  BY DEF Own, Bit
<1> QED BY <1>1, <1>2, RefOwnSame DEF BaseInv

LEMMA UpLetGo ==
  ASSUME BaseInv, NEW q \in Procs, pc[q] \in {"walk", "cas"}, WentUp(q), NEW y
  PROVE  /\ ~Growing(q, y) /\ ~Growing(q, y)'
         /\ LetGo(q, y)' <=> LetGo(q, y) \/ y = Top(q)
<1> DEFINE s == l[q].stack  o == fids[Top(q)].parent
<1>1. s \in Seq(Objs) /\ s # <<>> /\ o \in Objs
  BY Here DEF LocalType, Giving, Ending
<1>2. l'[q].stack = <<o>> \o s /\ pc'[q] = "dec" /\ Top(q) = Head(s)
  BY DEF WentUp, Top
<1>3. LetGo(q, y) <=> \E i \in DOMAIN s : s[i] = y /\ i > 1
  BY DEF LetGo
<1>4. LetGo(q, y)' <=> \E i \in DOMAIN (<<o>> \o s) : (<<o>> \o s)[i] = y /\ i > 1
  BY <1>2 DEF LetGo
<1>5. ~Growing(q, y) /\ ~Growing(q, y)'
  BY <1>2 DEF Growing
<1> HIDE DEF s, o
<1>6. /\ DOMAIN s = 1..Len(s) /\ Len(s) \in Nat /\ Len(s) > 0 /\ Head(s) = s[1]
      /\ DOMAIN (<<o>> \o s) = 1..Len(s) + 1 /\ (<<o>> \o s)[1] = o
      /\ \A i \in 2..Len(s) + 1 : (<<o>> \o s)[i] = s[i - 1]
  BY <1>1, StackHead, StackUp
<1>7. ASSUME NEW i \in DOMAIN (<<o>> \o s), (<<o>> \o s)[i] = y, i > 1
      PROVE  y = s[1] \/ \E j \in DOMAIN s : s[j] = y /\ j > 1
  <2>1. i \in 2..Len(s) + 1 /\ i - 1 \in DOMAIN s /\ s[i - 1] = y
    BY <1>6, <1>7
  <2>2. i - 1 = 1 \/ i - 1 > 1
    BY <1>6, <2>1
  <2> QED BY <2>1, <2>2
<1>8. ASSUME NEW j \in DOMAIN s, s[j] = y
      PROVE  \E i \in DOMAIN (<<o>> \o s) : (<<o>> \o s)[i] = y /\ i > 1
  <2>1. j + 1 \in DOMAIN (<<o>> \o s) /\ (<<o>> \o s)[j + 1] = s[j] /\ j + 1 > 1
    BY <1>6, <1>8
  <2> QED BY <1>8, <2>1
<1>9. 1 \in DOMAIN s
  BY <1>6
<1> QED BY <1>2, <1>3, <1>4, <1>5, <1>6, <1>7, <1>8, <1>9

(* A fid that has been taken off the list counted for its parent until now. *)
LEMMA RefUp ==
  ASSUME BaseInv, TypeInv', RefInv, FreeInv, PushInv, NEW q \in Procs, pc[q] \in {"walk", "cas"},
         WentUp(q), leaked' = leaked, SameKids, \A o \in Objs : fids'[o].refs = fids[o].refs
  PROVE  RefInv'
<1>0. Top(q) \in Objs /\ fids[Top(q)].parent \in Objs
  BY Here DEF Giving, Ending
<1>a. PICK x \in Objs : x = Top(q)
  BY <1>0
<1>b. PICK o1 \in Objs : o1 = fids[x].parent
  BY <1>0, <1>a
<1>1. x \in Objs /\ o1 \in Objs /\ fids[x].mem = "used" /\ fids[x].refs = 0 /\ Doomed(q, 1)
      /\ x = l[q].stack[1] /\ 1 \in DOMAIN l[q].stack
  BY <1>a, EndingHere DEF Ending
<1>2. \A o : Counted(x, o) <=> o = o1
  <2>1. \A p \in Procs : ~LetGo(p, x)
    <3> SUFFICES ASSUME NEW p \in Procs, NEW i \in DOMAIN l[p].stack, l[p].stack[i] = x,
                        i > 1 \/ pc[p] = "free"
                 PROVE  FALSE
      BY DEF LetGo
    <3>1. Doomed(p, i)
      BY DEF Doomed, Ending
    <3>2. p = q /\ i = 1
      BY <1>1, <3>1 DEF FreeInv
    <3> QED BY <3>2
  <2>2. \A p \in Procs : ~Growing(p, x)
    BY <1>1 DEF Growing, PushInv, Pushing
  <2> QED BY <1>1, <1>b, <2>1, <2>2 DEF Counted
<1>3. \A o : ~Counted(x, o)'
  <2>1. LetGo(q, x)'
    BY <1>a, UpLetGo
  <2> QED BY <2>1 DEF Counted
<1>4. \A y \in Objs \ {x}, o \in Objs : Counted(y, o)' <=> Counted(y, o)
  BY <1>a, UpLetGo, CountedStep DEF SameKids, WentUp
<1>5. \A o \in Objs : Ref(o)' = Ref(o)
  BY DEF Ref, SameKids
<1>6. \A o \in Objs : Own(q, o)' = Bit(o1 = o) + Bit(l[q].new = o)
  <2> SUFFICES ASSUME NEW o \in Objs PROVE Own(q, o)' = Bit(o1 = o) + Bit(l[q].new = o)
    OBVIOUS
  <2>1. l'[q].fid = None /\ l'[q].new = l[q].new /\ pc'[q] = "dec" /\ None # o
    BY FidAssumption DEF WentUp
  <2>2. Head(l'[q].stack) = o1
    <3>1. l'[q].stack = <<o1>> \o l[q].stack /\ l[q].stack \in Seq(Objs)
      BY <1>a, <1>b, Here DEF WentUp, LocalType
    <3> QED BY <1>1, <3>1, StackUp
  <2> QED BY <2>1, <2>2 DEF Own, Bit, Top
<1>7. \A o \in Objs : Own(q, o) = Bit(l[q].new = o)
  BY OwnHere DEF Ending
<1>8. \A o \in Objs : Ref(o)' + Own(q, o) + Bit(Counted(x, o)) = Ref(o) + Own(q, o)' + Bit(Counted(x, o))'
  <2> SUFFICES ASSUME NEW o \in Objs
               PROVE  Ref(o)' + Own(q, o) + Bit(Counted(x, o)) = Ref(o) + Own(q, o)' + Bit(Counted(x, o))'
    OBVIOUS
  <2>1. Ref(o) \in Nat
    BY RefsType DEF Ref, BaseInv, TypeInv
  <2>2. Bit(Counted(x, o)) = Bit(o1 = o) /\ Bit(Counted(x, o))' = 0
    BY <1>2, <1>3 DEF Bit
  <2> QED BY <1>5, <1>6, <1>7, <2>1, <2>2 DEF Bit
<1> QED BY <1>1, <1>4, <1>8, RefStep DEF WentUp, BaseInv

(* A step that takes a reference of x, for q. *)
LEMMA RefTaken ==
  ASSUME BaseInv, TypeInv', RefInv, NEW q \in Procs, Others(q), leaked' = leaked, CountedSame,
         NEW x \in Objs, fids[x].mem = "used", fids[x].refs \in Nat, SetRefs(x, fids[x].refs + 1),
         \A o \in Objs : Own(q, o)' = Own(q, o) + Bit(x = o)
  PROVE  RefInv'
<1>1. \A o \in Objs : Ref(o)' + Own(q, o) = Ref(o) + Own(q, o)'
  <2> SUFFICES ASSUME NEW o \in Objs PROVE Ref(o)' + Own(q, o) = Ref(o) + Own(q, o)'
    OBVIOUS
  <2>1. Ref(o) \in Nat /\ Own(q, o) \in Nat
    BY RefsType, OwnRefers DEF Ref, BaseInv, TypeInv
  <2>2. Ref(o)' = Ref(o) + Bit(x = o)
    BY <2>1 DEF Ref, SetRefs, Bit
  <2> QED BY <2>1, <2>2 DEF Bit
<1> QED BY <1>1, RefSame DEF CountedSame, BaseInv

LEMMA RefLeft ==
  ASSUME BaseInv, TypeInv', RefInv, NEW q \in Procs, NoChild(q), Others(q), Cleared(q), pc'[q] = "idle",
         leaked' = [leaked EXCEPT ![l[q].fid] = @ \cup {<<q, calls[q]>>}]
  PROVE  RefInv'
<1> SUFFICES ASSUME NEW o \in Objs PROVE Ref(o)' = Holders(o)'
  BY DEF RefInv
<1>0. TypeInv /\ None # o
  BY FidAssumption DEF BaseInv
<1>1. pc[q] = "scan" /\ l[q].fid \in Objs /\ fids' = fids
  BY NoChildHere
<1>2. CountedSame
  <2>1. l'[q].stack = l[q].stack
    BY <1>1 DEF Cleared, BaseInv, PlaceInv, Placed, Giving, Ending
  <2> QED BY <1>1, <2>1, StayedCounted DEF SameKids
<1>3. Own(q, o) = Bit(l[q].fid = o) /\ Own(q, o)' = 0
  <2>1. Own(q, o) = Bit(l[q].fid = o)
    BY <1>1, OwnHere DEF FidPcs, Pushing
  <2>2. Own(q, o)' = 0
    BY <1>0 DEF Cleared, Own, Bit
  <2> QED BY <2>1, <2>2
<1>4. Cardinality(leaked'[o]) = Cardinality(leaked[o]) + Bit(l[q].fid = o) /\ Cardinality(leaked[o]) \in Nat
  <2>1. IsFiniteSet(leaked[o]) /\ Cardinality(leaked[o]) \in Nat
    BY <1>0, HoldersFinite
  <2>2. CASE l[q].fid = o
    <3>1. <<q, calls[q]>> \notin leaked[o]
      <4>1. calls[q] \in 0..MaxCalls /\ calls[q] > 0 /\ MaxCalls \in Nat
        BY <1>0, <1>1, FidAssumption DEF TypeInv, BaseInv, PlaceInv, Placed
      <4>2. ~(calls[q] < calls[q]) /\ calls[q] \in 1..MaxCalls
        BY <4>1
      <4> QED BY <1>1, <4>2 DEF BaseInv, CallInv
    <3>2. leaked'[o] = leaked[o] \cup {<<q, calls[q]>>}
      BY <1>0, <2>2 DEF TypeInv
    <3>3. Cardinality(leaked'[o]) = Cardinality(leaked[o]) + 1
      BY <2>1, <3>1, <3>2, FS_AddElement
    <3> QED BY <2>1, <2>2, <3>3 DEF Bit
  <2>3. CASE l[q].fid # o
    <3>1. leaked'[o] = leaked[o]
      BY <1>0, <1>1, <2>3 DEF TypeInv
    <3> QED BY <2>1, <2>3, <3>1 DEF Bit
  <2> QED BY <2>2, <2>3
<1>5. /\ Holders(o) \in Nat /\ Holders(o)' \in Nat
      /\ Holders(o)' + Own(q, o) + Bit(Counted(o, o)) + Cardinality(leaked[o])
              = Holders(o) + Own(q, o)' + Bit(Counted(o, o))' + Cardinality(leaked'[o])
  BY <1>0, <1>2, HoldersStep DEF CountedSame
<1>6. Bit(Counted(o, o))' = Bit(Counted(o, o)) /\ Bit(Counted(o, o)) \in Nat
  BY <1>2 DEF CountedSame, Bit
<1>7. Bit(l[q].fid = o) \in Nat
  BY DEF Bit
<1>8. Holders(o)' = Holders(o)
  <2>1. PICK b \in Nat : b = Bit(l[q].fid = o)
    BY <1>7
  <2>2. PICK c \in Nat : c = Bit(Counted(o, o))
    BY <1>6
  <2>3. PICK n \in Nat : n = Cardinality(leaked[o])
    BY <1>4
  <2>4. Holders(o)' + b + c + n = Holders(o) + 0 + c + (n + b)
    BY <1>3, <1>4, <1>5, <1>6, <2>1, <2>2, <2>3
  <2> QED BY <1>5, <2>4
<1>9. Ref(o)' = Ref(o)
  BY <1>1 DEF Ref
<1> QED BY <1>8, <1>9 DEF RefInv

LEMMA RefAnswer ==
  ASSUME BaseInv, TypeInv', RefInv, NEW q \in Procs, NEW x \in Objs, Answer(q, x)
  PROVE  RefInv'
<1>0. TypeInv /\ \A o \in Objs : None # o
  BY FidAssumption DEF BaseInv
<1>1. /\ pc[q] \in {"scan", "create"} /\ pc'[q] = "grow" /\ l[q].fid \in Objs
      /\ fids[x].mem = "new" /\ fids'[x] = NewFid(File(q), Head(l[q].path), l[q].fid)
      /\ \A y \in Objs \ {x} : fids'[y] = fids[y]
      /\ Others(q) /\ l'[q].new = x /\ l'[q].fid = l[q].fid /\ l'[q].stack = l[q].stack
      /\ leaked' = leaked
  BY AnswerHere DEF SameHistory, SameRest
<1>2. fids'[x].mem = "used" /\ fids'[x].refs = 1
  BY <1>1 DEF NewFid
<1>3. \A o : ~Counted(x, o)
  BY <1>1 DEF Counted
<1>4. \A o : ~Counted(x, o)'
  <2>1. Growing(q, x)'
    BY <1>1 DEF Growing
  <2> QED BY <2>1 DEF Counted
<1>5. \A y \in Objs \ {x}, o \in Objs : Counted(y, o)' <=> Counted(y, o)
  <2>1. \A y \in Objs \ {x} : /\ LetGo(q, y)' <=> LetGo(q, y)
                              /\ ~Growing(q, y) /\ ~Growing(q, y)'
    BY <1>1 DEF LetGo, Growing
  <2> QED BY <1>1, <2>1, CountedStep
<1>6. \A o \in Objs : Own(q, o) = Bit(l[q].fid = o) /\ Own(q, o)' = Bit(l[q].fid = o) + Bit(x = o)
  <2>1. \A o \in Objs : Own(q, o) = Bit(l[q].fid = o)
    BY <1>1, OwnHere DEF FidPcs, Pushing
  <2>2. \A o \in Objs : Own(q, o)' = Bit(l[q].fid = o) + Bit(x = o)
    BY <1>1 DEF Own, Bit
  <2> QED BY <2>1, <2>2
<1>7. \A o \in Objs : Ref(o) \in Nat /\ Ref(o)' = Ref(o) + Bit(x = o)
  <2> SUFFICES ASSUME NEW o \in Objs PROVE Ref(o) \in Nat /\ Ref(o)' = Ref(o) + Bit(x = o)
    OBVIOUS
  <2>1. Ref(o) \in Nat
    BY <1>0, RefsType DEF Ref, TypeInv
  <2>2. CASE o = x
    BY <1>1, <1>2, <2>2 DEF Ref, Bit
  <2>3. CASE o # x
    BY <1>1, <2>1, <2>3 DEF Ref, Bit
  <2> QED BY <2>1, <2>2, <2>3
<1>8. \A o \in Objs : Ref(o)' + Own(q, o) + Bit(Counted(x, o)) = Ref(o) + Own(q, o)' + Bit(Counted(x, o))'
  BY <1>3, <1>4, <1>6, <1>7 DEF Bit
<1> QED BY <1>0, <1>1, <1>5, <1>8, RefStep

(* From now on the new fid counts for its parent. *)
LEMMA RefGrow ==
  ASSUME BaseInv, TypeInv', RefInv, FreeInv, PushInv, NEW q \in Procs, Grow(q)
  PROVE  RefInv'
<1>0. TypeInv /\ \A o \in Objs : None # o
  BY FidAssumption DEF BaseInv
<1>1. /\ pc[q] = "grow" /\ pc'[q] = "load" /\ l[q].fid \in Objs /\ l[q].new \in Objs
      /\ fids[l[q].fid].mem = "used"
      /\ SetRefs(l[q].fid, Inc(fids[l[q].fid].refs)) /\ Stayed(q) /\ Others(q) /\ leaked' = leaked
  BY GrowHere DEF SameHistory, SameRest
<1>2. PICK x \in Objs : x = l[q].new
  BY <1>1
<1>3. PICK d \in Objs : d = l[q].fid
  BY <1>1
<1>4. /\ fids[x].mem = "used" /\ fids[x].refs = 1 /\ fids[x].parent = d
      /\ \A p \in Procs : p # q => l[p].new # x
  BY <1>1, <1>2, <1>3, Alone DEF Pushing, PushInv, Refers
<1>5. \A p \in Procs : ~LetGo(p, x)
  BY <1>4, NotDoomed
<1>6. l'[q].stack = l[q].stack /\ l'[q].new = x /\ l'[q].fid = d /\ SameKids
  BY <1>1, <1>2, <1>3 DEF Stayed, Walked, SetRefs, SameFile, SameKids
<1>7. \A y : LetGo(q, y)' <=> LetGo(q, y)
  BY <1>1, <1>6 DEF LetGo
<1>8. \A o : ~Counted(x, o)
  BY <1>1, <1>2 DEF Counted, Growing
<1>9. \A o : Counted(x, o)' <=> o = d
  <2>1. \A p \in Procs : ~LetGo(p, x)'
    BY <1>1, <1>5, <1>7 DEF Others, LetGo
  <2>2. \A p \in Procs : ~Growing(p, x)'
    BY <1>1, <1>4 DEF Others, Growing
  <2> QED BY <1>4, <1>6, <2>1, <2>2 DEF Counted, SameKids
<1>10. \A y \in Objs \ {x}, o \in Objs : Counted(y, o)' <=> Counted(y, o)
  <2>1. \A y \in Objs \ {x} : ~Growing(q, y) /\ ~Growing(q, y)'
    BY <1>1, <1>2, <1>6 DEF Growing
  <2> QED BY <1>1, <1>6, <1>7, <2>1, CountedStep DEF SameKids
<1>11. fids[d].refs \in Nat /\ Inc(fids[d].refs) = fids[d].refs + 1
  BY <1>3, Referred DEF Refers
<1>12. \A o \in Objs : Ref(o) \in Nat /\ Ref(o)' = Ref(o) + Bit(d = o)
  <2> SUFFICES ASSUME NEW o \in Objs PROVE Ref(o) \in Nat /\ Ref(o)' = Ref(o) + Bit(d = o)
    OBVIOUS
  <2>1. Ref(o) \in Nat
    BY <1>0, RefsType DEF Ref, TypeInv
  <2> QED BY <1>1, <1>3, <1>11, <2>1 DEF Ref, SetRefs, Bit
<1>13. \A o \in Objs : Own(q, o)' = Own(q, o) /\ Own(q, o) \in Nat
  BY <1>1 DEF Own, Bit, Stayed, Walked
<1>14. \A o \in Objs : Ref(o)' + Own(q, o) + Bit(Counted(x, o)) = Ref(o) + Own(q, o)' + Bit(Counted(x, o))'
  BY <1>8, <1>9, <1>12, <1>13 DEF Bit
<1> QED BY <1>0, <1>1, <1>10, <1>14, RefStep

LEMMA RefDec ==
  ASSUME BaseInv, TypeInv', RefInv, NEW q \in Procs, Dec(q)
  PROVE  RefInv'
<1>0. TypeInv /\ \A o \in Objs : None # o
  BY FidAssumption DEF BaseInv
<1>1. /\ pc[q] = "dec" /\ Top(q) \in Objs /\ SetRefs(Top(q), Less(fids[Top(q)].refs)) /\ Others(q)
      /\ leaked' = leaked
  BY DecHere DEF SameHistory, SameRest
<1>2. PICK x \in Objs : x = Top(q)
  BY <1>1
<1>3. fids[x].mem = "used" /\ fids[x].refs \in Nat /\ fids[x].refs >= 1 /\ Less(fids[x].refs) = fids[x].refs - 1
  BY <1>1, <1>2, Referred DEF Refers
<1>4. SameKids
  BY <1>1 DEF SetRefs, SameFile, SameKids
<1>5. \A o \in Objs : Own(q, o) = Bit(x = o) + Bit(l[q].new = o)
  BY <1>1, <1>2, OwnHere
<1>6. CountedSame /\ \A o \in Objs : Own(q, o)' = Bit(l[q].new = o)
  <2>1. CASE Returned(q) \/ WentOn(q) \/ Ended(q)
    <3>1. \A o \in Objs : Own(q, o)' = Bit(l[q].new = o)
      BY <1>1, <2>1, OwnBack DEF Giving
    <3>2. \A y : /\ ~Growing(q, y) /\ ~Growing(q, y)'
                 /\ LetGo(q, y)' <=> LetGo(q, y)
      BY <1>1, <2>1, BackLetGo
    <3> QED BY <1>1, <1>4, <3>1, <3>2, CountedStep DEF CountedSame, SameKids
  <2>2. CASE pc'[q] = "clunk" /\ Stayed(q)
    <3>1. CountedSame
      BY <1>1, <1>4, <2>2, StayedCounted DEF Stayed, Walked
    <3>2. l[q].fid = None
      BY <1>1 DEF BaseInv, PlaceInv, Placed, FidPcs
    <3>3. \A o \in Objs : Own(q, o)' = Bit(l[q].new = o)
      BY <1>0, <2>2, <3>2 DEF Stayed, Walked, Own, Bit
    <3> QED BY <3>1, <3>3
  <2> QED BY <2>1, <2>2, DecHere
<1>7. \A o \in Objs : Ref(o) \in Nat /\ Ref(o)' \in Nat /\ Ref(o)' + Bit(x = o) = Ref(o)
  <2> SUFFICES ASSUME NEW o \in Objs PROVE Ref(o) \in Nat /\ Ref(o)' \in Nat /\ Ref(o)' + Bit(x = o) = Ref(o)
    OBVIOUS
  <2>1. Ref(o) \in Nat
    BY <1>0, RefsType DEF Ref, TypeInv
  <2> QED BY <1>1, <1>2, <1>3, <2>1 DEF Ref, SetRefs, Bit
<1>8. \A o \in Objs : Ref(o)' + Own(q, o) = Ref(o) + Own(q, o)'
  BY <1>5, <1>6, <1>7 DEF Bit
<1> QED BY <1>0, <1>1, <1>6, <1>8, RefSame DEF CountedSame

(* The root, which is freed at once, counts for no parent. *)
LEMMA RefClunk ==
  ASSUME BaseInv, TypeInv', RefInv, NEW q \in Procs, Clunk(q)
  PROVE  RefInv'
<1>1. /\ pc[q] = "clunk" /\ Top(q) \in Objs /\ l[q].stack # <<>>
      /\ pc'[q] = (IF fids[Top(q)].parent = None THEN "free" ELSE "find")
      /\ fids' = fids /\ Stayed(q) /\ Others(q) /\ leaked' = leaked
  BY ClunkHere DEF SameHistory, SameRest
<1>2. CASE pc'[q] = "find"
  BY <1>1, <1>2, RefStayed DEF Stayed, Walked
<1>3. CASE pc'[q] = "free" /\ fids[Top(q)].parent = None
  <2>0. TypeInv /\ \A o \in Objs : None # o
    BY FidAssumption DEF BaseInv
  <2>1. PICK x \in Objs : x = Top(q)
    BY <1>1
  <2>2. l[q].stack \in Seq(Objs)
    BY <1>1, Here DEF LocalType, Giving, Ending
  <2>3. \A y : y # x => (LetGo(q, y)' <=> LetGo(q, y))
    <3>1. x = l[q].stack[1] /\ DOMAIN l[q].stack = 1..Len(l[q].stack) /\ Len(l[q].stack) \in Nat
      BY <1>1, <2>1, <2>2, StackHead DEF Top
    <3>2. \A y : LetGo(q, y) <=> \E i \in DOMAIN l[q].stack : l[q].stack[i] = y /\ i > 1
      BY <1>1 DEF LetGo
    <3>3. \A y : LetGo(q, y)' <=> \E i \in DOMAIN l[q].stack : l[q].stack[i] = y
      BY <1>1, <1>3 DEF LetGo, Stayed, Walked
    <3> QED BY <3>1, <3>2, <3>3
  <2>4. \A y : ~Growing(q, y) /\ ~Growing(q, y)'
    BY <1>1, <1>3 DEF Growing
  <2>5. \A o \in Objs : ~Counted(x, o) /\ ~Counted(x, o)'
    BY <1>1, <1>3, <2>0, <2>1 DEF Counted
  <2>6. \A y \in Objs \ {x}, o \in Objs : Counted(y, o)' <=> Counted(y, o)
    BY <1>1, <2>3, <2>4, CountedStep
  <2>7. CountedSame
    BY <2>5, <2>6 DEF CountedSame
  <2>8. \A o \in Objs : Own(q, o)' = Own(q, o)
    BY <1>1, <1>3 DEF Own, Bit, Stayed, Walked
  <2> QED BY <1>1, <2>0, <2>7, <2>8, RefOwnSame
<1> QED BY <1>1, <1>2, <1>3

LEMMA RefFree ==
  ASSUME BaseInv, TypeInv', RefInv, FreeInv, NEW q \in Procs, Free(q)
  PROVE  RefInv'
<1>0. TypeInv /\ \A o \in Objs : None # o
  BY FidAssumption DEF BaseInv
<1>1. /\ pc[q] = "free" /\ Top(q) \in Objs /\ SetFreed(Top(q)) /\ Others(q) /\ leaked' = leaked
      /\ Returned(q) \/ WentOn(q) \/ Ended(q)
  BY FreeHere DEF SameHistory, SameRest
<1>2. PICK x \in Objs : x = Top(q)
  BY <1>1
<1>3. fids[x].mem = "used" /\ fids[x].refs = 0 /\ Doomed(q, 1) /\ x = l[q].stack[1] /\ 1 \in DOMAIN l[q].stack
  BY <1>1, <1>2, EndingHere DEF Ending
<1>4. \A o \in Objs : Own(q, o)' = Own(q, o)
  BY <1>1, OwnBack, OwnHere DEF Giving, Ending
<1>5. \A o \in Objs : Ref(o)' = Ref(o)
  BY <1>1, <1>2, <1>3 DEF Ref, SetFreed
<1>6. CountedSame
  <2>1. \A o : ~Counted(x, o) /\ ~Counted(x, o)'
    <3>1. LetGo(q, x)
      BY <1>1, <1>3 DEF LetGo
    <3>2. fids'[x].mem = "freed"
      BY <1>1, <1>2 DEF SetFreed
    <3> QED BY <3>1, <3>2 DEF Counted
  <2>2. \A y \in Objs \ {x}, o \in Objs : Counted(y, o)' <=> Counted(y, o)
    BY <1>1, <1>2, BackLetGo, CountedStep DEF SetFreed, SameFile
  <2> QED BY <2>1, <2>2 DEF CountedSame
<1> QED BY <1>0, <1>1, <1>4, <1>5, <1>6, RefSame DEF CountedSame

LEMMA RefNext == BaseInv /\ CoreInv /\ Next /\ ~raised' => RefInv'
<1> SUFFICES ASSUME BaseInv, CoreInv, Next, ~raised' PROVE RefInv'
  OBVIOUS
<1>0. RefInv /\ FreeInv /\ PushInv /\ TypeInv /\ TypeInv'
  BY TypeNext DEF CoreInv, BaseInv
<1>1. PICK q \in Procs : Finds(q) \/ Frees(q) \/ Undefined(q)
  BY DEF Next
<1>2. \A o \in Objs : Own(q, o) \in Nat
  BY OwnRefers
<1>n. None \notin Objs /\ root \in Objs
  BY FidAssumption
<1>3. ASSUME NEW path \in Paths, NEW create \in BOOLEAN, Call(q, path, create) PROVE RefInv'
  <2>1. fids[root].mem = "used" /\ fids[root].refs \in Nat /\ Inc(fids[root].refs) = fids[root].refs + 1
    BY <1>0, <1>n, Referred
  <2>2. SetRefs(root, fids[root].refs + 1) /\ pc[q] = "idle" /\ pc'[q] = "dir" /\ Others(q) /\ leaked' = leaked
    BY <1>3, <2>1, CallHere
  <2>3. l'[q].stack = l[q].stack
    BY <1>3, CallHere DEF BaseInv, PlaceInv, Placed, Giving, Ending
  <2>4. CountedSame
    BY <2>2, <2>3, StayedCounted DEF SameKids, SetRefs, SameFile
  <2>5. \A o \in Objs : Own(q, o) = 0
    BY <2>2, OwnHere
  <2>6. \A o \in Objs : Own(q, o)' = Bit(root = o)
    BY <1>n, <1>3, CallHere DEF Own, Bit
  <2>7. \A o \in Objs : Own(q, o)' = Own(q, o) + Bit(root = o)
    BY <2>5, <2>6 DEF Bit
  <2> QED BY <1>0, <1>n, <2>1, <2>2, <2>4, <2>7, RefTaken
<1>4. CASE Enter(q)
  <2>1. CASE GaveUp(q, l[q].fid, Failed(q), None)
    BY <1>0, <1>4, <2>1, EnterHere, RefGiveUp DEF FidPcs, Pushing, SameHistory, SameRest
  <2>2. CASE pc'[q] = "scan" /\ Walked(q, fids[l[q].fid].children, l[q].p, l[q].n)
    BY <1>0, <1>4, <2>2, EnterHere, RefStayed DEF Walked, SameHistory, SameRest
  <2> QED BY <1>4, <2>1, <2>2, EnterHere
<1>5. CASE Scan(q)
  BY <1>0, <1>5, ScanHere, RefStayed DEF Stayed, Walked, SameHistory, SameRest
<1>6. CASE Take(q)
  <2> DEFINE c == l[q].c
  <2>1. /\ pc[q] = "take" /\ c \in Objs /\ l[q].fid \in Objs /\ fids[c].mem = "used"
        /\ SetRefs(c, Inc(fids[c].refs)) /\ GaveUp(q, l[q].fid, "next", c) /\ leaked' = leaked
        /\ fids[c].refs # 0
    BY <1>6, TakeHere DEF SameRest
  <2>2. fids[c].refs \in Nat /\ Inc(fids[c].refs) = fids[c].refs + 1
    BY <1>0, <2>1, Counting
  <2>3. CountedSame
    BY <2>1, GaveUpCounted DEF SameKids, SetRefs, SameFile, FidPcs
  <2>4. \A o \in Objs : Own(q, o)' = Bit(l[q].fid = o) + Bit(c = o)
    BY <2>1, OwnGaveUp
  <2>5. \A o \in Objs : Own(q, o) = Bit(l[q].fid = o)
    BY <2>1, OwnHere DEF FidPcs, Pushing
  <2> HIDE DEF c
  <2>6. \A o \in Objs : Own(q, o)' = Own(q, o) + Bit(c = o)
    BY <2>4, <2>5
  <2>7. Others(q)
    BY <2>1 DEF GaveUp
  <2> QED BY <1>0, <2>1, <2>2, <2>3, <2>6, <2>7, RefTaken
<1>7. CASE AskFails(q)
  BY <1>0, <1>7, AskFailsHere, RefGiveUp DEF FidPcs, Pushing, SameHistory, SameRest
<1>8. CASE NoChild(q)
  <2>1. CASE GaveUp(q, l[q].fid, Failed(q), None) /\ leaked' = leaked
    BY <1>0, <1>8, <2>1, NoChildHere, RefGiveUp DEF FidPcs, Pushing
  <2>2. CASE pc'[q] = "create" /\ Stayed(q) /\ leaked' = leaked
    BY <1>0, <1>8, <2>2, NoChildHere, RefStayed DEF Stayed, Walked
  <2>3. CASE /\ pc'[q] = "idle" /\ Others(q) /\ Cleared(q)
             /\ leaked' = [leaked EXCEPT ![l[q].fid] = @ \cup {<<q, calls[q]>>}]
    BY <1>0, <1>8, <2>3, RefLeft
  <2> QED BY <1>8, <2>1, <2>2, <2>3, NoChildHere
<1>9. ASSUME NEW o \in Objs, Answer(q, o) PROVE RefInv'
  BY <1>0, <1>9, RefAnswer
<1>10. CASE NoMemory(q)
  BY <1>0, <1>10, NoMemoryHere, RefGiveUp DEF FidPcs, Pushing, SameHistory, SameRest
<1>11. CASE Grow(q)
  BY <1>0, <1>11, RefGrow
<1>12. CASE LoadChildren(q)
  <2>1. /\ pc[q] = "load" /\ pc'[q] = "push" /\ SetCnext(l[q].new, fids[l[q].fid].children)
        /\ Stayed(q) /\ Others(q) /\ leaked' = leaked
    BY <1>12, LoadChildrenHere DEF SameHistory, SameRest
  <2>2. CountedSame
    BY <2>1, StayedCounted DEF SameKids, SetCnext, SameFile, Stayed, Walked
  <2>3. \A o \in Objs : Ref(o)' + Own(q, o) = Ref(o) + Own(q, o)'
    BY <2>1 DEF Ref, SetCnext, Own, Bit, Stayed, Walked
  <2> QED BY <1>0, <2>1, <2>2, <2>3, RefSame DEF CountedSame
<1>13. CASE Push(q)
  <2>1. /\ pc[q] = "push" /\ l[q].fid \in Objs /\ l[q].new \in Objs /\ SetChildren(l[q].fid, l[q].new)
        /\ GaveUp(q, l[q].fid, "next", l[q].new) /\ leaked' = leaked /\ Others(q)
    BY <1>13, PushHere DEF SameHistory, SameRest, GaveUp
  <2>2. CountedSame
    BY <2>1, GaveUpCounted DEF SameKids, SetChildren, SameFile, FidPcs
  <2>3. \A o \in Objs : Own(q, o)' = Own(q, o)
    BY <2>1, OwnGaveUp, OwnHere DEF FidPcs
  <2>4. \A o \in Objs : Ref(o)' = Ref(o)
    BY <2>1 DEF Ref, SetChildren
  <2> QED BY <1>0, <2>1, <2>2, <2>3, <2>4, RefSame DEF CountedSame
<1>14. CASE PushFails(q)
  BY <1>0, <1>14, PushFailsHere, RefStayed DEF Stayed, Walked, SameHistory, SameRest
<1>15. CASE Drop(q)
  BY <1>0, <1>15, DropHere, RefGiveUp DEF FidPcs, Pushing, SameHistory, SameRest
<1>16. CASE Dec(q)
  BY <1>0, <1>16, RefDec
<1>17. CASE Clunk(q)
  BY <1>0, <1>17, RefClunk
<1>18. CASE FindChild(q)
  BY <1>0, <1>18, FindChildHere, RefStayed DEF Walked, SameHistory, SameRest
<1>19. CASE WalkChild(q)
  BY <1>0, <1>19, WalkChildHere, RefStayed DEF Walked, SameHistory, SameRest
<1>20. CASE NotFound(q)
  <2>1. pc[q] = "walk" /\ fids' = fids /\ WentUp(q) /\ leaked' = leaked
    BY <1>20, NotFoundHere DEF SameHistory, SameRest
  <2> QED BY <1>0, <2>1, RefUp DEF SameKids
<1>21. CASE Remove(q)
  <2>1. pc[q] = "cas" /\ WentUp(q) /\ leaked' = leaked
    BY <1>21, RemoveHere DEF SameHistory, SameRest
  <2>2. SameKids /\ \A o \in Objs : fids'[o].refs = fids[o].refs
    BY <1>21, RemoveHere DEF SameKids, SetChildren, SetCnext, SameFile
  <2> QED BY <1>0, <2>1, <2>2, RefUp
<1>22. CASE RemoveFails(q)
  BY <1>0, <1>22, RemoveFailsHere, RefStayed DEF Walked, SameHistory, SameRest
<1>23. CASE Free(q)
  BY <1>0, <1>23, RefFree
<1>24. CASE Undefined(q)
  <2>1. fids' = fids /\ l' = l /\ pc' = pc /\ leaked' = leaked
    BY <1>24 DEF Undefined
  <2>2. \A o \in Objs : Holders(o)' = Holders(o) /\ Ref(o)' = Ref(o)
    BY <2>1 DEF Holders, Ref, Counted, LetGo, Growing, Top
  <2> QED BY <1>0, <2>2 DEF RefInv
<1> QED BY <1>1, <1>3, <1>4, <1>5, <1>6, <1>7, <1>8, <1>9, <1>10, <1>11, <1>12, <1>13, <1>14, <1>15,
           <1>16, <1>17, <1>18, <1>19, <1>20, <1>21, <1>22, <1>23, <1>24 DEF Finds, Frees

(* What was doomed stays as it is, but for what q frees, and the stack of q *)
(* is moved by d.                                                          *)
LEMMA FreeShift ==
  ASSUME FreeInv, NEW q \in Procs, Others(q), NEW d \in Int,
         \A i \in DOMAIN l'[q].stack : i \in Int,
         \A i \in DOMAIN l'[q].stack :
           Doomed(q, i)' => Doomed(q, i + d) /\ l'[q].stack[i] = l[q].stack[i + d],
         \A p \in Procs : \A i \in DOMAIN l[p].stack :
           Doomed(p, i) /\ (p = q => \E k \in DOMAIN l'[q].stack : i = k + d) =>
             fids'[l[p].stack[i]].mem = "used" /\ fids'[l[p].stack[i]].refs = 0
  PROVE  FreeInv'
<1> DEFINE Old(p, i) == IF p = q THEN i + d ELSE i
<1>1. ASSUME NEW p \in Procs, NEW i \in DOMAIN l'[p].stack, Doomed(p, i)'
      PROVE  /\ Doomed(p, Old(p, i)) /\ Old(p, i) \in DOMAIN l[p].stack
             /\ l'[p].stack[i] = l[p].stack[Old(p, i)]
             /\ fids'[l'[p].stack[i]].mem = "used" /\ fids'[l'[p].stack[i]].refs = 0
  <2>1. CASE p = q
    <3>1. Doomed(q, i + d) /\ l'[q].stack[i] = l[q].stack[i + d] /\ i + d \in DOMAIN l[q].stack
      BY <1>1, <2>1 DEF Doomed
    <3> QED BY <1>1, <2>1, <3>1
  <2>2. CASE p # q
    <3>1. l'[p] = l[p] /\ pc'[p] = pc[p]
      BY <2>2 DEF Others
    <3> QED BY <1>1, <2>2, <3>1 DEF Doomed
  <2> QED BY <2>1, <2>2
<1>2. \A p \in Procs : \A i, j \in DOMAIN l'[p].stack : Old(p, i) = Old(p, j) => i = j
  OBVIOUS
<1> HIDE DEF Old
<1> SUFFICES ASSUME NEW p \in Procs, NEW i \in DOMAIN l'[p].stack, Doomed(p, i)',
                    NEW r \in Procs, NEW j \in DOMAIN l'[r].stack, Doomed(r, j)',
                    l'[r].stack[j] = l'[p].stack[i]
             PROVE  r = p /\ j = i
  BY <1>1 DEF FreeInv
<1>3. r = p /\ Old(r, j) = Old(p, i)
  BY <1>1 DEF FreeInv
<1> QED BY <1>2, <1>3

(* Nothing that was doomed is changed. *)
DoomedKept == \A p \in Procs : \A i \in DOMAIN l[p].stack : Doomed(p, i) =>
  fids'[l[p].stack[i]].mem = "used" /\ fids'[l[p].stack[i]].refs = 0

LEMMA FreeRest ==
  ASSUME FreeInv, NEW q \in Procs, Others(q), DoomedKept,
         DOMAIN l'[q].stack \subseteq {1}, pc'[q] \notin Ending
  PROVE  FreeInv'
<1>1. \A i \in DOMAIN l'[q].stack : i \in Int /\ ~Doomed(q, i)'
  BY DEF Doomed
<1> QED BY <1>1, FreeShift, 0 \in Int DEF DoomedKept

LEMMA FreeStayed ==
  ASSUME BaseInv, FreeInv, NEW q \in Procs, Others(q), DoomedKept,
         l'[q].stack = l[q].stack, pc'[q] \in Ending => pc[q] \in Ending
  PROVE  FreeInv'
<1>1. \A i \in DOMAIN l[q].stack : i \in Int
  BY DEF BaseInv, TypeInv, LocalType
<1>2. \A i \in DOMAIN l'[q].stack : i \in Int /\ i + 0 = i
  BY <1>1
<1> QED BY <1>2, FreeShift, 0 \in Int DEF DoomedKept, Doomed

(* References are counted where there are some: nothing doomed is changed. *)
LEMMA KeptRefs ==
  ASSUME FreeInv, NEW x, fids[x].refs # 0, NEW r, SetRefs(x, r), TypeInv
  PROVE  DoomedKept
<1>1. \A p \in Procs : \A i \in DOMAIN l[p].stack : l[p].stack[i] \in Objs
  BY DEF TypeInv, LocalType
<1>2. \A p \in Procs : \A i \in DOMAIN l[p].stack : Doomed(p, i) =>
        l[p].stack[i] # x /\ fids[l[p].stack[i]].mem = "used" /\ fids[l[p].stack[i]].refs = 0
  BY DEF FreeInv
<1> QED BY <1>1, <1>2 DEF DoomedKept, SetRefs

LEMMA KeptSame ==
  ASSUME FreeInv, TypeInv, \A x \in Objs : fids'[x].mem = fids[x].mem /\ fids'[x].refs = fids[x].refs
  PROVE  DoomedKept
<1>1. \A p \in Procs : \A i \in DOMAIN l[p].stack : l[p].stack[i] \in Objs
  BY DEF TypeInv, LocalType
<1> QED BY <1>1 DEF FreeInv, DoomedKept

LEMMA FreeUp ==
  ASSUME BaseInv, FreeInv, NEW q \in Procs, pc[q] \in {"walk", "cas"}, WentUp(q), DoomedKept
  PROVE  FreeInv'
<1>1. /\ fids[Top(q)].parent \in Objs /\ Others(q) /\ pc'[q] = "dec"
      /\ l[q].stack \in Seq(Objs) /\ l'[q].stack = <<fids[Top(q)].parent>> \o l[q].stack
  BY Here DEF WentUp, LocalType
<1>2. \A i \in DOMAIN l'[q].stack : i \in Int
  BY <1>1, StackUp
<1>3. ASSUME NEW i \in DOMAIN l'[q].stack, Doomed(q, i)'
      PROVE  Doomed(q, i + (-1)) /\ l'[q].stack[i] = l[q].stack[i + (-1)]
  <2>1. i # 1
    BY <1>1, <1>3 DEF Doomed, Ending
  <2>2. i - 1 \in DOMAIN l[q].stack /\ l'[q].stack[i] = l[q].stack[i - 1]
    BY <1>1, <2>1, StackStep
  <2>3. i + (-1) = i - 1
    BY <1>2
  <2> QED BY <2>2, <2>3 DEF Doomed, Ending
<1> QED BY <1>1, <1>2, <1>3, FreeShift, -1 \in Int DEF DoomedKept

(* The one that freed a child is freed next. *)
LEMMA FreeReturned ==
  ASSUME BaseInv, FreeInv, NEW q \in Procs, pc[q] \in {"dec", "free"}, Returned(q), Others(q),
         \A p \in Procs : \A i \in DOMAIN l[p].stack : Doomed(p, i) /\ ~(p = q /\ i = 1) =>
           fids'[l[p].stack[i]].mem = "used" /\ fids'[l[p].stack[i]].refs = 0
  PROVE  FreeInv'
<1>1. /\ DOMAIN l'[q].stack = 1..Len(l[q].stack) - 1 /\ Len(l[q].stack) \in Nat
      /\ \A i \in DOMAIN l'[q].stack : i + 1 \in DOMAIN l[q].stack /\ l'[q].stack[i] = l[q].stack[i + 1]
  BY StackStep, Here DEF LocalType
<1>2. \A i \in DOMAIN l'[q].stack : i \in Int /\ i + 1 > 1 /\ i + 1 # 1
  BY <1>1
<1>3. \A i \in DOMAIN l'[q].stack : Doomed(q, i + 1) /\ l'[q].stack[i] = l[q].stack[i + 1]
  BY <1>1, <1>2 DEF Doomed
<1>4. \A p \in Procs : \A i \in DOMAIN l[p].stack :
        Doomed(p, i) /\ (p = q => \E k \in DOMAIN l'[q].stack : i = k + 1) =>
          fids'[l[p].stack[i]].mem = "used" /\ fids'[l[p].stack[i]].refs = 0
  BY <1>2
<1> QED BY <1>2, <1>3, <1>4, FreeShift, 1 \in Int

(* The last reference is given up: the fid is doomed, by q alone. *)
LEMMA FreeClunk ==
  ASSUME BaseInv, RefInv, FreeInv, NEW q \in Procs, pc[q] = "dec", pc'[q] = "clunk", Stayed(q),
         SetRefs(Top(q), Less(fids[Top(q)].refs)), ~(Less(fids[Top(q)].refs) > 0)
  PROVE  FreeInv'
<1>1. PICK x \in Objs : x = Top(q) /\ x = l[q].stack[1] /\ 1 \in DOMAIN l[q].stack
  BY TopHere DEF Giving
<1>2. fids[x].mem = "used" /\ fids[x].refs \in Nat /\ fids[x].refs >= 1 /\ Less(fids[x].refs) = fids[x].refs - 1
  BY <1>1, Referred DEF Refers
<1>3. fids'[x].mem = "used" /\ fids'[x].refs = 0 /\ fids[x].refs # 0
  BY <1>1, <1>2 DEF SetRefs
<1>4. DoomedKept
  BY <1>1, <1>3, KeptRefs DEF BaseInv
<1>5. \A p \in Procs : l'[p].stack = l[p].stack
  BY DEF Stayed, Walked, Others
<1>6. \A p \in Procs : \A i \in DOMAIN l[p].stack : Doomed(p, i)' => Doomed(p, i) \/ (p = q /\ i = 1)
  <2>1. \A i \in DOMAIN l[q].stack : i > 1 \/ i = 1
    BY DEF BaseInv, TypeInv, LocalType
  <2> QED BY <1>5, <2>1 DEF Doomed, Stayed, Walked, Others
<1>7. \A p \in Procs : \A i \in DOMAIN l[p].stack : Doomed(p, i) => l[p].stack[i] # x
  BY <1>3, NotDoomed
<1> SUFFICES ASSUME NEW p \in Procs, NEW i \in DOMAIN l[p].stack, Doomed(p, i)'
             PROVE  /\ fids'[l[p].stack[i]].mem = "used" /\ fids'[l[p].stack[i]].refs = 0
                    /\ \A r \in Procs : \A j \in DOMAIN l[r].stack :
                         Doomed(r, j)' /\ l[r].stack[j] = l[p].stack[i] => r = p /\ j = i
  BY <1>5 DEF FreeInv
<1>8. CASE p = q /\ i = 1
  BY <1>1, <1>3, <1>6, <1>7, <1>8
<1>9. CASE Doomed(p, i)
  BY <1>1, <1>4, <1>6, <1>7, <1>9 DEF DoomedKept, FreeInv
<1> QED BY <1>6, <1>8, <1>9

LEMMA FreeNext == BaseInv /\ CoreInv /\ Next /\ ~raised' => FreeInv'
<1> SUFFICES ASSUME BaseInv, CoreInv, Next, ~raised' PROVE FreeInv'
  OBVIOUS
<1>0. RefInv /\ FreeInv /\ TypeInv
  BY DEF CoreInv, BaseInv
<1>1. PICK q \in Procs : Finds(q) \/ Frees(q) \/ Undefined(q)
  BY DEF Next
<1>n. root \in Objs
  BY FidAssumption
<1>s. fids' = fids => DoomedKept
  BY <1>0, KeptSame
<1>g. ASSUME NEW x, NEW then, NEW new, GaveUp(q, x, then, new), DoomedKept PROVE FreeInv'
  <2>1. Others(q) /\ DOMAIN l'[q].stack \subseteq {1} /\ pc'[q] \notin Ending
    BY <1>g, StackStep DEF GaveUp, Ending
  <2> QED BY <1>0, <1>g, <2>1, FreeRest
<1>w. ASSUME NEW c, NEW p, NEW n, Walked(q, c, p, n), DoomedKept, pc'[q] \in Ending => pc[q] \in Ending
      PROVE FreeInv'
  BY <1>0, <1>w, FreeStayed DEF Walked
<1>3. ASSUME NEW path \in Paths, NEW create \in BOOLEAN, Call(q, path, create) PROVE FreeInv'
  <2>1. SetRefs(root, Inc(fids[root].refs)) /\ Others(q) /\ l'[q].stack = <<>> /\ pc'[q] \notin Ending
    BY <1>3, CallHere DEF Ending
  <2>2. fids[root].refs # 0
    BY <1>0, <1>n, Referred
  <2>3. DoomedKept
    BY <1>0, <2>1, <2>2, KeptRefs
  <2>4. DOMAIN l'[q].stack \subseteq {1}
    BY <2>1
  <2> QED BY <1>0, <2>1, <2>3, <2>4, FreeRest
<1>4. CASE Enter(q)
  <2>1. CASE GaveUp(q, l[q].fid, Failed(q), None)
    BY <1>4, <1>g, <1>s, <2>1, EnterHere
  <2>2. CASE pc'[q] = "scan" /\ Walked(q, fids[l[q].fid].children, l[q].p, l[q].n)
    BY <1>4, <1>w, <1>s, <2>2, EnterHere DEF Ending
  <2> QED BY <1>4, <2>1, <2>2, EnterHere
<1>5. CASE Scan(q)
  <2>1. fids' = fids /\ pc'[q] \notin Ending
    BY <1>5, ScanHere DEF Ending
  <2> QED BY <1>5, <1>w, <1>s, <2>1, ScanHere DEF Stayed
<1>6. CASE Take(q)
  <2>1. /\ SetRefs(l[q].c, Inc(fids[l[q].c].refs)) /\ GaveUp(q, l[q].fid, "next", l[q].c)
        /\ fids[l[q].c].refs # 0
    BY <1>6, TakeHere
  <2> QED BY <1>0, <1>g, <2>1, KeptRefs
<1>7. CASE AskFails(q)
  BY <1>7, <1>g, <1>s, AskFailsHere
<1>8. CASE NoChild(q)
  <2>0. fids' = fids
    BY <1>8, NoChildHere
  <2>1. CASE GaveUp(q, l[q].fid, Failed(q), None)
    BY <1>g, <1>s, <2>0, <2>1
  <2>2. CASE pc'[q] = "create" /\ Stayed(q)
    BY <1>w, <1>s, <2>0, <2>2 DEF Ending, Stayed
  <2>3. CASE pc'[q] = "idle" /\ Others(q) /\ Cleared(q)
    <3>1. DOMAIN l'[q].stack \subseteq {1}
      BY <2>3, StackStep
    <3> QED BY <1>0, <1>s, <2>0, <2>3, <3>1, FreeRest DEF Ending
  <2> QED BY <1>8, <2>1, <2>2, <2>3, NoChildHere
<1>9. ASSUME NEW o \in Objs, Answer(q, o) PROVE FreeInv'
  <2>1. /\ Others(q) /\ l'[q].stack = l[q].stack /\ pc'[q] \notin Ending /\ fids[o].mem # "used"
        /\ \A x \in Objs \ {o} : fids'[x] = fids[x]
    BY <1>9, AnswerHere DEF Ending
  <2>2. DoomedKept
    <3>1. \A p \in Procs : \A i \in DOMAIN l[p].stack : l[p].stack[i] \in Objs
      BY <1>0 DEF TypeInv, LocalType
    <3>2. \A p \in Procs : \A i \in DOMAIN l[p].stack : Doomed(p, i) =>
            fids[l[p].stack[i]].mem = "used" /\ fids[l[p].stack[i]].refs = 0
      BY <1>0 DEF FreeInv
    <3> QED BY <2>1, <3>1, <3>2 DEF DoomedKept
  <2> QED BY <1>0, <2>1, <2>2, FreeStayed
<1>10. CASE NoMemory(q)
  BY <1>10, <1>g, <1>s, NoMemoryHere
<1>11. CASE Grow(q)
  <2>1. /\ SetRefs(l[q].fid, Inc(fids[l[q].fid].refs)) /\ Stayed(q) /\ pc'[q] \notin Ending
        /\ l[q].fid \in Objs
    BY <1>11, GrowHere DEF Ending
  <2>2. fids[l[q].fid].refs # 0
    BY <1>0, <2>1, Referred DEF Refers
  <2> QED BY <1>0, <1>w, <2>1, <2>2, KeptRefs DEF Stayed
<1>12. CASE LoadChildren(q)
  BY <1>0, <1>12, <1>w, KeptSame, LoadChildrenHere DEF Ending, Stayed, SetCnext
<1>13. CASE Push(q)
  BY <1>0, <1>13, <1>g, KeptSame, PushHere DEF SetChildren
<1>14. CASE PushFails(q)
  BY <1>14, <1>w, <1>s, PushFailsHere DEF Ending, Stayed
<1>15. CASE Drop(q)
  BY <1>15, <1>g, <1>s, DropHere
<1>16. CASE Dec(q)
  <2>1. /\ pc[q] = "dec" /\ SetRefs(Top(q), Less(fids[Top(q)].refs)) /\ Others(q) /\ Top(q) \in Objs
    BY <1>16, DecHere
  <2>2. fids[Top(q)].refs # 0
    BY <1>0, <2>1, Referred DEF Refers
  <2>3. DoomedKept
    BY <1>0, <2>1, <2>2, KeptRefs
  <2>4. CASE Returned(q)
    BY <1>0, <2>1, <2>3, <2>4, FreeReturned DEF DoomedKept
  <2>5. CASE WentOn(q) \/ Ended(q)
    <3>1. DOMAIN l'[q].stack \subseteq {1} /\ pc'[q] \notin Ending
      BY <2>5, StackStep DEF WentOn, Ended, Ending
    <3> QED BY <1>0, <2>1, <2>3, <3>1, FreeRest
  <2>6. CASE ~(Less(fids[Top(q)].refs) > 0) /\ pc'[q] = "clunk" /\ Stayed(q)
    BY <1>0, <2>1, <2>6, FreeClunk
  <2> QED BY <1>16, <2>4, <2>5, <2>6, DecHere
<1>17. CASE Clunk(q)
  BY <1>17, <1>w, <1>s, ClunkHere DEF Ending, Stayed
<1>18. CASE FindChild(q)
  BY <1>18, <1>w, <1>s, FindChildHere DEF Ending
<1>19. CASE WalkChild(q)
  BY <1>19, <1>w, <1>s, WalkChildHere DEF Ending
<1>20. CASE NotFound(q)
  BY <1>0, <1>20, <1>s, NotFoundHere, FreeUp
<1>21. CASE Remove(q)
  <2>1. \A o \in Objs : fids'[o].mem = fids[o].mem /\ fids'[o].refs = fids[o].refs
    BY <1>21, RemoveHere DEF SetChildren, SetCnext
  <2> QED BY <1>0, <1>21, <2>1, KeptSame, RemoveHere, FreeUp
<1>22. CASE RemoveFails(q)
  BY <1>22, <1>w, <1>s, RemoveFailsHere DEF Ending
<1>23. CASE Free(q)
  <2>1. pc[q] = "free" /\ Top(q) \in Objs /\ SetFreed(Top(q)) /\ Others(q)
    BY <1>23, FreeHere
  <2>2. Doomed(q, 1) /\ Top(q) = l[q].stack[1] /\ 1 \in DOMAIN l[q].stack
    BY <1>0, <2>1, EndingHere DEF Ending
  <2>3. \A p \in Procs : \A i \in DOMAIN l[p].stack : Doomed(p, i) /\ ~(p = q /\ i = 1) =>
          fids'[l[p].stack[i]].mem = "used" /\ fids'[l[p].stack[i]].refs = 0
    <3>1. \A p \in Procs : \A i \in DOMAIN l[p].stack : l[p].stack[i] \in Objs
      BY <1>0 DEF TypeInv, LocalType
    <3>2. \A p \in Procs : \A i \in DOMAIN l[p].stack : Doomed(p, i) /\ ~(p = q /\ i = 1) =>
            /\ fids[l[p].stack[i]].mem = "used" /\ fids[l[p].stack[i]].refs = 0
            /\ l[p].stack[i] # Top(q)
      BY <1>0, <2>2 DEF FreeInv
    <3> QED BY <2>1, <3>1, <3>2 DEF SetFreed
  <2>4. CASE Returned(q)
    BY <1>0, <2>1, <2>3, <2>4, FreeReturned
  <2>5. CASE WentOn(q) \/ Ended(q)
    <3>1. \A i \in DOMAIN l'[q].stack : i \in Int /\ ~Doomed(q, i)'
      BY <2>5, StackStep
    <3>2. \A p \in Procs : \A i \in DOMAIN l[p].stack :
            Doomed(p, i) /\ (p = q => \E k \in DOMAIN l'[q].stack : i = k + 0) =>
              fids'[l[p].stack[i]].mem = "used" /\ fids'[l[p].stack[i]].refs = 0
      <4>1. DOMAIN l'[q].stack = {}
        BY <2>5, StackStep
      <4> QED BY <2>3, <4>1
    <3> QED BY <1>0, <2>1, <3>1, <3>2, FreeShift, 0 \in Int
  <2> QED BY <1>23, <2>4, <2>5, FreeHere
<1>24. CASE Undefined(q)
  BY <1>0, <1>24 DEF Undefined, FreeInv, Doomed
<1> QED BY <1>1, <1>3, <1>4, <1>5, <1>6, <1>7, <1>8, <1>9, <1>10, <1>11, <1>12, <1>13, <1>14, <1>15,
           <1>16, <1>17, <1>18, <1>19, <1>20, <1>21, <1>22, <1>23, <1>24 DEF Finds, Frees

(* The links and the locals of q lead to what was seen before, or to y. *)
LEMMA SeenStep ==
  ASSUME NEW q \in Procs, Others(q), NEW y,
         \A x \in Objs : /\ fids'[x].children = None \/ Seen(fids'[x].children) \/ fids'[x].children = y
                         /\ fids'[x].cnext = None \/ Seen(fids'[x].cnext) \/ fids'[x].cnext = y,
         l'[q].c = None \/ Seen(l'[q].c), l'[q].p = None \/ Seen(l'[q].p),
         l'[q].n = None \/ Seen(l'[q].n)
  PROVE  \A z \in Objs : Seen(z)' => Seen(z) \/ z = y
<1> SUFFICES ASSUME NEW z \in Objs, Seen(z)' PROVE Seen(z) \/ z = y
  OBVIOUS
<1>0. None # z
  BY FidAssumption
<1>1. CASE \E x \in Objs : fids'[x].children = z \/ fids'[x].cnext = z
  BY <1>0, <1>1
<1>2. CASE \E p \in Procs : l'[p].c = z \/ l'[p].p = z \/ l'[p].n = z
  <2>1. PICK p \in Procs : l'[p].c = z \/ l'[p].p = z \/ l'[p].n = z
    BY <1>2
  <2>2. CASE p = q
    BY <1>0, <2>1, <2>2
  <2>3. CASE p # q
    <3>1. l'[p] = l[p]
      BY <2>3 DEF Others
    <3>2. l[p].c = z \/ l[p].p = z \/ l[p].n = z
      BY <2>1, <3>1
    <3> QED BY <3>2 DEF Seen
  <2> QED BY <2>2, <2>3
<1> QED BY <1>1, <1>2 DEF Seen

LEMMA AllSeen == /\ \A x \in Objs : Seen(fids[x].children) /\ Seen(fids[x].cnext)
                 /\ \A q \in Procs : Seen(l[q].c) /\ Seen(l[q].p) /\ Seen(l[q].n)
BY DEF Seen

LEMMA PushStep ==
  ASSUME BaseInv, RefInv, PushInv, NEW q \in Procs, Others(q), NEW y,
         \A z \in Objs : Seen(z)' => Seen(z) \/ z = y,
         y # None => pc[q] \in Pushing /\ y = l[q].new /\ pc'[q] \notin Pushing,
         pc'[q] \in Pushing => pc[q] \in Pushing /\ Stayed(q),
         \A p \in Procs : pc[p] \in Pushing /\ (p = q => pc'[q] \in Pushing) =>
           fids'[l[p].new].refs = fids[l[p].new].refs /\ fids'[l[p].new].parent = fids[l[p].new].parent
  PROVE  PushInv'
<1> SUFFICES ASSUME NEW p \in Procs, pc'[p] \in Pushing
             PROVE  (fids[l[p].new].refs = 1 /\ fids[l[p].new].parent = l[p].fid /\ ~Seen(l[p].new))'
  BY DEF PushInv
<1>1. pc[p] \in Pushing /\ l'[p].new = l[p].new /\ l'[p].fid = l[p].fid
  BY DEF Others, Stayed, Walked
<1>2. PICK x \in Objs : x = l[p].new
  BY <1>1, Alone
<1>3. fids[x].refs = 1 /\ fids[x].parent = l[p].fid /\ ~Seen(x)
  BY <1>1, <1>2 DEF PushInv
<1>4. x # y
  <2>1. CASE p = q
    BY <1>2, <2>1, FidAssumption
  <2>2. CASE p # q
    <3>1. ~Refers(q, x)
      BY <1>1, <1>2, <2>2, Alone
    <3> QED BY <1>2, <3>1, FidAssumption DEF Refers
  <2> QED BY <2>1, <2>2
<1>5. ~Seen(x)'
  BY <1>3, <1>4
<1>6. fids'[x].refs = 1 /\ fids'[x].parent = l[p].fid
  BY <1>1, <1>2, <1>3
<1> QED BY <1>1, <1>2, <1>5, <1>6 DEF Seen

(* No link to a new fid, no count of it. *)
LEMMA PushRest ==
  ASSUME BaseInv, RefInv, PushInv, NEW q \in Procs, Others(q), pc'[q] \notin Pushing,
         \A x \in Objs : /\ fids'[x].children = None \/ Seen(fids'[x].children)
                         /\ fids'[x].cnext = None \/ Seen(fids'[x].cnext)
                         /\ fids'[x].parent = fids[x].parent,
         l'[q].c = None \/ Seen(l'[q].c), l'[q].p = None \/ Seen(l'[q].p),
         l'[q].n = None \/ Seen(l'[q].n),
         \A x \in Objs : fids'[x].refs = fids[x].refs \/ x = root \/ Seen(x) \/ Refers(q, x)
  PROVE  PushInv'
<1>1. \A z \in Objs : Seen(z)' => Seen(z) \/ z = None
  BY SeenStep
<1>2. \A p \in Procs : pc[p] \in Pushing /\ (p = q => pc'[q] \in Pushing) =>
        fids'[l[p].new].refs = fids[l[p].new].refs /\ fids'[l[p].new].parent = fids[l[p].new].parent
  <2> SUFFICES ASSUME NEW p \in Procs, pc[p] \in Pushing, p # q
               PROVE  fids'[l[p].new].refs = fids[l[p].new].refs /\ fids'[l[p].new].parent = fids[l[p].new].parent
    OBVIOUS
  <2>1. l[p].new \in Objs /\ l[p].new # root /\ ~Seen(l[p].new) /\ ~Refers(q, l[p].new)
    BY Alone DEF PushInv
  <2> QED BY <2>1
<1> QED BY <1>1, <1>2, PushStep

LEMMA PushAnswer ==
  ASSUME BaseInv, RefInv, PushInv, NEW q \in Procs, NEW o \in Objs, Answer(q, o)
  PROVE  PushInv'
<1>1. /\ pc'[q] = "grow" /\ l[q].fid \in Objs
      /\ fids[o].mem = "new" /\ fids'[o] = NewFid(File(q), Head(l[q].path), l[q].fid)
      /\ \A x \in Objs \ {o} : fids'[x] = fids[x]
      /\ Others(q) /\ SameWalk(q) /\ l'[q].new = o /\ l'[q].fid = l[q].fid
  BY AnswerHere
<1>2. fids'[o].refs = 1 /\ fids'[o].parent = l[q].fid /\ fids'[o].children = None /\ fids'[o].cnext = None
  BY <1>1 DEF NewFid
<1>3. \A z \in Objs : Seen(z)' => Seen(z) \/ z = None
  <2>1. \A x \in Objs : /\ fids'[x].children = None \/ Seen(fids'[x].children)
                        /\ fids'[x].cnext = None \/ Seen(fids'[x].cnext)
    BY <1>1, <1>2, AllSeen
  <2>2. Seen(l'[q].c) /\ Seen(l'[q].p) /\ Seen(l'[q].n)
    BY <1>1, AllSeen DEF SameWalk
  <2> QED BY <1>1, <2>1, <2>2, SeenStep
<1>4. ~Seen(o)
  BY <1>1, FidAssumption DEF BaseInv, KnownInv, Known, Seen
<1> SUFFICES ASSUME NEW p \in Procs, pc'[p] \in Pushing
             PROVE  (fids[l[p].new].refs = 1 /\ fids[l[p].new].parent = l[p].fid /\ ~Seen(l[p].new))'
  BY DEF PushInv
<1>5. CASE p = q
  <2>1. ~Seen(o)'
    BY <1>3, <1>4, FidAssumption
  <2> QED BY <1>1, <1>2, <1>5, <2>1 DEF Seen
<1>6. CASE p # q
  <2>1. l'[p] = l[p] /\ pc'[p] = pc[p]
    BY <1>1, <1>6 DEF Others
  <2>2. PICK x \in Objs : x = l[p].new /\ fids[x].mem = "used"
    BY <2>1, Alone
  <2>3. fids'[x] = fids[x]
    BY <1>1, <2>2
  <2>4. ~Seen(x)'
    BY <1>3, <2>1, <2>2, FidAssumption DEF PushInv
  <2>5. fids[x].refs = 1 /\ fids[x].parent = l[p].fid
    BY <2>1, <2>2 DEF PushInv
  <2> QED BY <2>1, <2>2, <2>3, <2>4, <2>5 DEF Seen
<1> QED BY <1>5, <1>6

LEMMA PushNext == BaseInv /\ CoreInv /\ Next /\ ~raised' => PushInv'
<1> SUFFICES ASSUME BaseInv, CoreInv, Next, ~raised' PROVE PushInv'
  OBVIOUS
<1>0. RefInv /\ FreeInv /\ PushInv
  BY DEF CoreInv
<1>1. PICK q \in Procs : Finds(q) \/ Frees(q) \/ Undefined(q)
  BY DEF Next
<1> DEFINE SameLinks == \A x \in Objs : /\ Seen(fids'[x].children) /\ Seen(fids'[x].cnext)
                                        /\ fids'[x].parent = fids[x].parent
<1>s. fids' = fids => SameLinks
  BY AllSeen
<1>r. \A x, r : SetRefs(x, r) => SameLinks
  BY AllSeen DEF SetRefs, SameFile
<1>a. /\ \A x \in Objs : Seen(fids[x].children) /\ Seen(fids[x].cnext)
      /\ Seen(l[q].c) /\ Seen(l[q].p) /\ Seen(l[q].n)
  BY AllSeen
<1>g. ASSUME NEW x, NEW then, NEW new, GaveUp(q, x, then, new), SameLinks,
             \A y \in Objs : fids'[y].refs = fids[y].refs \/ Seen(y)
      PROVE  PushInv'
  <2>1. Others(q) /\ pc'[q] \notin Pushing /\ l'[q].c = None /\ l'[q].p = l[q].p /\ l'[q].n = l[q].n
    BY <1>g DEF GaveUp, Pushing
  <2> QED BY <1>0, <1>a, <1>g, <2>1, PushRest
<1>w. ASSUME NEW c, NEW p, NEW n, Walked(q, c, p, n), fids' = fids, pc'[q] \notin Pushing,
             c = None \/ Seen(c), p = None \/ Seen(p), n = None \/ Seen(n)
      PROVE  PushInv'
  <2>1. Others(q) /\ l'[q].c = c /\ l'[q].p = p /\ l'[q].n = n
    BY <1>w DEF Walked
  <2> QED BY <1>0, <1>s, <1>w, <2>1, PushRest
<1>b. ASSUME Returned(q) \/ WentOn(q) \/ Ended(q), Others(q), SameLinks,
             \A y \in Objs : fids'[y].refs = fids[y].refs \/ Refers(q, y)
      PROVE  PushInv'
  <2>1. pc'[q] \notin Pushing
    BY <1>b DEF Returned, WentOn, Ended, Pushing
  <2>2. /\ l'[q].c = None \/ Seen(l'[q].c)
        /\ l'[q].p = None \/ Seen(l'[q].p)
        /\ l'[q].n = None \/ Seen(l'[q].n)
    BY <1>a, <1>b DEF Returned, WentOn, Ended, SameWalk, Cleared
  <2> QED BY <1>0, <1>b, <2>1, <2>2, PushRest
<1>u. ASSUME WentUp(q), \A x \in Objs : fids'[x].refs = fids[x].refs, SameLinks
      PROVE  PushInv'
  <2>1. Others(q) /\ pc'[q] \notin Pushing /\ l'[q].c = None /\ l'[q].p = None /\ l'[q].n = None
    BY <1>u DEF WentUp, Pushing
  <2> QED BY <1>0, <1>u, <2>1, PushRest
<1>3. ASSUME NEW path \in Paths, NEW create \in BOOLEAN, Call(q, path, create) PROVE PushInv'
  <2>1. /\ SetRefs(root, Inc(fids[root].refs)) /\ Others(q) /\ pc'[q] \notin Pushing
        /\ l'[q].c = None /\ l'[q].p = None /\ l'[q].n = None
    BY <1>3, CallHere DEF Pushing
  <2>2. \A x \in Objs : fids'[x].refs = fids[x].refs \/ x = root
    BY <2>1 DEF SetRefs
  <2> QED BY <1>0, <1>r, <2>1, <2>2, PushRest
<1>4. CASE Enter(q)
  <2>1. CASE GaveUp(q, l[q].fid, Failed(q), None)
    BY <1>4, <1>g, <1>s, <2>1, EnterHere
  <2>2. CASE pc'[q] = "scan" /\ Walked(q, fids[l[q].fid].children, l[q].p, l[q].n)
    BY <1>4, <1>w, <1>a, <2>2, EnterHere DEF Pushing
  <2> QED BY <1>4, <2>1, <2>2, EnterHere
<1>5. CASE Scan(q)
  <2>1. fids' = fids /\ pc'[q] \notin Pushing /\ l[q].c \in Objs
    BY <1>5, ScanHere DEF Pushing
  <2> QED BY <1>5, <1>w, <1>a, <2>1, ScanHere DEF Stayed
<1>6. CASE Take(q)
  <2>1. SetRefs(l[q].c, Inc(fids[l[q].c].refs)) /\ GaveUp(q, l[q].fid, "next", l[q].c)
    BY <1>6, TakeHere
  <2>2. \A y \in Objs : fids'[y].refs = fids[y].refs \/ Seen(y)
    BY <1>a, <2>1 DEF SetRefs
  <2> QED BY <1>g, <1>r, <2>1, <2>2
<1>7. CASE AskFails(q)
  BY <1>7, <1>g, <1>s, AskFailsHere
<1>8. CASE NoChild(q)
  <2>0. fids' = fids
    BY <1>8, NoChildHere
  <2>1. CASE GaveUp(q, l[q].fid, Failed(q), None)
    BY <1>g, <1>s, <2>0, <2>1
  <2>2. CASE pc'[q] = "create" /\ Stayed(q)
    BY <1>w, <1>a, <2>0, <2>2 DEF Pushing, Stayed
  <2>3. CASE pc'[q] = "idle" /\ Others(q) /\ Cleared(q)
    <3>1. pc'[q] \notin Pushing /\ l'[q].c = None /\ l'[q].p = None /\ l'[q].n = None
      BY <2>3 DEF Pushing, Cleared
    <3> QED BY <1>0, <1>s, <2>0, <2>3, <3>1, PushRest
  <2> QED BY <1>8, <2>1, <2>2, <2>3, NoChildHere
<1>9. ASSUME NEW o \in Objs, Answer(q, o) PROVE PushInv'
  BY <1>0, <1>9, PushAnswer
<1>10. CASE NoMemory(q)
  BY <1>10, <1>g, <1>s, NoMemoryHere
<1>11. CASE Grow(q)
  <2>1. /\ pc[q] \in Pushing /\ SetRefs(l[q].fid, Inc(fids[l[q].fid].refs)) /\ Stayed(q) /\ Others(q)
        /\ l[q].fid \in Objs
    BY <1>11, GrowHere DEF Pushing
  <2>2. \A z \in Objs : Seen(z)' => Seen(z) \/ z = None
    <3>1. l'[q].c = l[q].c /\ l'[q].p = l[q].p /\ l'[q].n = l[q].n
      BY <2>1 DEF Stayed, Walked
    <3> QED BY <1>a, <1>r, <2>1, <3>1, SeenStep
  <2>3. \A p \in Procs : pc[p] \in Pushing => l[p].new \in Objs /\ l[p].new # l[q].fid
    BY <1>0, <2>1, Alone DEF Refers
  <2>4. \A p \in Procs : pc[p] \in Pushing =>
          fids'[l[p].new].refs = fids[l[p].new].refs /\ fids'[l[p].new].parent = fids[l[p].new].parent
    BY <2>1, <2>3 DEF SetRefs, SameFile
  <2> QED BY <1>0, <2>1, <2>2, <2>4, PushStep
<1>12. CASE LoadChildren(q)
  <2>1. /\ pc[q] \in Pushing /\ SetCnext(l[q].new, fids[l[q].fid].children) /\ Stayed(q) /\ Others(q)
        /\ l[q].fid \in Objs
    BY <1>12, LoadChildrenHere DEF Pushing
  <2>2. \A z \in Objs : Seen(z)' => Seen(z) \/ z = None
    <3>1. l'[q].c = l[q].c /\ l'[q].p = l[q].p /\ l'[q].n = l[q].n
      BY <2>1 DEF Stayed, Walked
    <3>2. \A x \in Objs : Seen(fids'[x].children) /\ Seen(fids'[x].cnext)
      BY <1>a, <2>1 DEF SetCnext
    <3> QED BY <1>a, <2>1, <3>1, <3>2, SeenStep
  <2>3. \A p \in Procs : pc[p] \in Pushing => l[p].new \in Objs
    BY <1>0, Alone
  <2>4. \A p \in Procs : pc[p] \in Pushing =>
          fids'[l[p].new].refs = fids[l[p].new].refs /\ fids'[l[p].new].parent = fids[l[p].new].parent
    BY <2>1, <2>3 DEF SetCnext, SameFile
  <2> QED BY <1>0, <2>1, <2>2, <2>4, PushStep
<1>13. CASE Push(q)
  <2>1. /\ pc[q] \in Pushing /\ pc'[q] \notin Pushing /\ SetChildren(l[q].fid, l[q].new) /\ Others(q)
        /\ l'[q].c = None /\ l'[q].p = l[q].p /\ l'[q].n = l[q].n /\ l[q].new # None
    BY <1>13, PushHere, FidAssumption DEF Pushing, GaveUp
  <2>2. \A z \in Objs : Seen(z)' => Seen(z) \/ z = l[q].new
    <3>1. \A x \in Objs : /\ Seen(fids'[x].children) \/ fids'[x].children = l[q].new
                          /\ Seen(fids'[x].cnext)
      BY <1>a, <2>1 DEF SetChildren
    <3> QED BY <1>a, <2>1, <3>1, SeenStep
  <2>3. \A p \in Procs : pc[p] \in Pushing => l[p].new \in Objs
    BY <1>0, Alone
  <2>4. \A p \in Procs : pc[p] \in Pushing =>
          fids'[l[p].new].refs = fids[l[p].new].refs /\ fids'[l[p].new].parent = fids[l[p].new].parent
    BY <2>1, <2>3 DEF SetChildren, SameFile
  <2> QED BY <1>0, <2>1, <2>2, <2>4, PushStep
<1>14. CASE PushFails(q)
  <2>1. pc[q] \in Pushing /\ fids' = fids /\ Stayed(q) /\ Others(q)
    BY <1>14, PushFailsHere DEF Pushing
  <2>2. \A z \in Objs : Seen(z)' => Seen(z) \/ z = None
    <3>1. l'[q].c = l[q].c /\ l'[q].p = l[q].p /\ l'[q].n = l[q].n
      BY <2>1 DEF Stayed, Walked
    <3> QED BY <1>a, <2>1, <3>1, SeenStep
  <2> QED BY <1>0, <2>1, <2>2, PushStep
<1>15. CASE Drop(q)
  BY <1>15, <1>g, <1>s, DropHere
<1>16. CASE Dec(q)
  <2>1. pc[q] = "dec" /\ SetRefs(Top(q), Less(fids[Top(q)].refs)) /\ Others(q)
    BY <1>16, DecHere
  <2>2. \A y \in Objs : fids'[y].refs = fids[y].refs \/ Refers(q, y)
    BY <2>1 DEF SetRefs, Refers
  <2>3. CASE Returned(q) \/ WentOn(q) \/ Ended(q)
    BY <1>b, <1>r, <2>1, <2>2, <2>3
  <2>4. CASE pc'[q] = "clunk" /\ Stayed(q)
    <3>1. pc'[q] \notin Pushing /\ l'[q].c = l[q].c /\ l'[q].p = l[q].p /\ l'[q].n = l[q].n
      BY <2>4 DEF Pushing, Stayed, Walked
    <3> QED BY <1>0, <1>a, <1>r, <2>1, <2>2, <3>1, PushRest
  <2> QED BY <1>16, <2>3, <2>4, DecHere
<1>17. CASE Clunk(q)
  <2>1. pc'[q] \notin Pushing /\ fids' = fids /\ Stayed(q)
    BY <1>17, ClunkHere DEF Pushing
  <2> QED BY <1>w, <1>a, <2>1 DEF Stayed
<1>18. CASE FindChild(q)
  BY <1>18, <1>w, <1>a, FindChildHere DEF Pushing
<1>19. CASE WalkChild(q)
  BY <1>19, <1>w, <1>a, WalkChildHere DEF Pushing
<1>20. CASE NotFound(q)
  BY <1>20, <1>u, <1>s, NotFoundHere
<1>21. CASE Remove(q)
  <2>1. /\ SetChildren(fids[Top(q)].parent, l[q].n) \/ SetCnext(l[q].p, l[q].n)
        /\ WentUp(q)
    BY <1>21, RemoveHere
  <2>2. \A x \in Objs : fids'[x].refs = fids[x].refs
    BY <2>1 DEF SetChildren, SetCnext
  <2>3. SameLinks
    BY <1>a, <2>1 DEF SetChildren, SetCnext, SameFile
  <2> QED BY <1>u, <2>1, <2>2, <2>3
<1>22. CASE RemoveFails(q)
  BY <1>22, <1>w, RemoveFailsHere DEF Pushing
<1>23. CASE Free(q)
  <2>1. SetFreed(Top(q)) /\ Others(q) /\ (Returned(q) \/ WentOn(q) \/ Ended(q))
    BY <1>23, FreeHere
  <2>2. SameLinks /\ \A x \in Objs : fids'[x].refs = fids[x].refs
    BY <1>a, <2>1 DEF SetFreed, SameFile
  <2> QED BY <1>b, <2>1, <2>2
<1>24. CASE Undefined(q)
  BY <1>0, <1>24 DEF Undefined, PushInv, Seen
<1> QED BY <1>1, <1>3, <1>4, <1>5, <1>6, <1>7, <1>8, <1>9, <1>10, <1>11, <1>12, <1>13, <1>14, <1>15,
           <1>16, <1>17, <1>18, <1>19, <1>20, <1>21, <1>22, <1>23, <1>24 DEF Finds, Frees

(* Fids keep their parents, and the links and the locals of q lead among   *)
(* the children of one fid.                                                *)
Sibling(x, d) == x # None => fids[x].parent = d
SiblingsOf(q) ==
  /\ pc[q] \in {"scan", "take"} => Sibling(l[q].c, l[q].fid)
  /\ pc[q] \in {"walk", "cas"} => /\ Sibling(l[q].c, fids[Top(q)].parent)
                                  /\ Sibling(l[q].p, fids[Top(q)].parent)
  /\ pc[q] = "cas" => Sibling(l[q].n, fids[Top(q)].parent)

LEMMA ListMeans ==
  ListInv <=> /\ \A o \in Objs : Sibling(fids[o].children, o) /\ Sibling(fids[o].cnext, fids[o].parent)
              /\ \A q \in Procs : SiblingsOf(q)
BY DEF ListInv, Sibling, SiblingsOf

(* What is known of the links and of a process elsewhere stays true. *)
LEMMA SiblingKept ==
  ASSUME BaseInv, ListInv, \A x \in Objs : fids[x].mem # "new" => fids'[x].parent = fids[x].parent
  PROVE  /\ \A o \in Objs : fids[o].mem # "new" =>
              /\ Sibling(fids[o].children, o) => (fids[o].children # None => fids'[fids[o].children].parent = o)
              /\ fids[o].cnext # None => fids'[fids[o].cnext].parent = fids'[o].parent
         /\ \A p \in Procs : l'[p] = l[p] /\ pc'[p] = pc[p] => SiblingsOf(p)'
<1>1. \A o : Known(fids, o) /\ o # None => fids'[o].parent = fids[o].parent
  BY DEF Known
<1>2. ASSUME NEW p \in Procs, l'[p] = l[p], pc'[p] = pc[p] PROVE SiblingsOf(p)'
  <2>1. SiblingsOf(p)
    BY ListMeans
  <2>2. Known(fids, l[p].c) /\ Known(fids, l[p].p) /\ Known(fids, l[p].n)
    BY DEF BaseInv, KnownInv
  <2>3. pc[p] \in {"walk", "cas"} => fids'[Top(p)].parent = fids[Top(p)].parent
    <3>1. pc[p] \in {"walk", "cas"} => Top(p) = l[p].stack[1] /\ 1 \in DOMAIN l[p].stack /\ Top(p) \in Objs
      BY TopHere DEF Giving, Ending
    <3>2. \A i \in DOMAIN l[p].stack : Known(fids, l[p].stack[i])
      BY DEF BaseInv, KnownInv
    <3> QED BY <3>1, <3>2, FidAssumption DEF Known
  <2>4. Top(p)' = Top(p)
    BY <1>2 DEF Top
  <2> QED BY <1>1, <1>2, <2>1, <2>2, <2>3, <2>4 DEF SiblingsOf, Sibling
<1>3. ASSUME NEW o \in Objs, fids[o].mem # "new"
      PROVE  /\ fids[o].children # None => fids'[fids[o].children].parent = o
             /\ fids[o].cnext # None => fids'[fids[o].cnext].parent = fids'[o].parent
  <2>1. Sibling(fids[o].children, o) /\ Sibling(fids[o].cnext, fids[o].parent)
    BY ListMeans
  <2>2. Known(fids, fids[o].children) /\ Known(fids, fids[o].cnext)
    BY DEF BaseInv, KnownInv
  <2> QED BY <1>1, <1>3, <2>1, <2>2 DEF Sibling
<1> QED BY <1>2, <1>3

LEMMA ListStep ==
  ASSUME BaseInv, ListInv, NEW q \in Procs, Others(q),
         \A x \in Objs : fids'[x].parent = fids[x].parent,
         \A x \in Objs : /\ Sibling(fids'[x].children, x) /\ Known(fids, fids'[x].children)
                         /\ Sibling(fids'[x].cnext, fids[x].parent) /\ Known(fids, fids'[x].cnext),
         SiblingsOf(q)'
  PROVE  ListInv'
<1>1. \A o : Known(fids, o) /\ o # None => fids'[o].parent = fids[o].parent
  BY DEF Known
<1>2. \A p \in Procs : SiblingsOf(p)'
  BY SiblingKept DEF Others
<1>3. \A x \in Objs : /\ fids'[x].children # None => fids'[fids'[x].children].parent = x
                      /\ fids'[x].cnext # None => fids'[fids'[x].cnext].parent = fids'[x].parent
  BY <1>1 DEF Sibling
<1> QED BY <1>2, <1>3 DEF ListInv, SiblingsOf, Sibling

LEMMA ListAnswer ==
  ASSUME BaseInv, ListInv, NEW q \in Procs, NEW o \in Objs, Answer(q, o)
  PROVE  ListInv'
<1>1. /\ pc'[q] = "grow" /\ fids[o].mem = "new" /\ fids'[o] = NewFid(File(q), Head(l[q].path), l[q].fid)
      /\ \A x \in Objs \ {o} : fids'[x] = fids[x]
      /\ Others(q)
  BY AnswerHere
<1>2. fids'[o].children = None /\ fids'[o].cnext = None
  BY <1>1 DEF NewFid
<1>3. \A x : Known(fids, x) /\ x # None => fids'[x].parent = fids[x].parent
  BY <1>1 DEF Known
<1>4. ASSUME NEW x \in Objs
      PROVE  /\ fids'[x].children # None => fids'[fids'[x].children].parent = x
             /\ fids'[x].cnext # None => fids'[fids'[x].cnext].parent = fids'[x].parent
  <2>1. CASE x = o
    BY <1>2, <2>1
  <2>2. CASE x # o
    <3>1. fids'[x] = fids[x] /\ Known(fids, fids[x].children) /\ Known(fids, fids[x].cnext)
      BY <1>1, <2>2 DEF BaseInv, KnownInv
    <3>2. Sibling(fids[x].children, x) /\ Sibling(fids[x].cnext, fids[x].parent)
      BY ListMeans
    <3> QED BY <1>3, <3>1, <3>2 DEF Sibling
  <2> QED BY <2>1, <2>2
<1>5. \A p \in Procs : SiblingsOf(p)'
  <2>1. \A x \in Objs : fids[x].mem # "new" => fids'[x].parent = fids[x].parent
    BY <1>1
  <2>2. SiblingsOf(q)'
    BY <1>1 DEF SiblingsOf
  <2> QED BY <1>1, <2>1, <2>2, SiblingKept DEF Others
<1> QED BY <1>4, <1>5 DEF ListInv, SiblingsOf, Sibling

LEMMA ListNext == BaseInv /\ CoreInv /\ Next => ListInv'
<1> SUFFICES ASSUME BaseInv, CoreInv, Next PROVE ListInv'
  OBVIOUS
<1>0. RefInv /\ PushInv /\ ListInv
  BY DEF CoreInv
<1>1. PICK q \in Procs : Finds(q) \/ Frees(q) \/ Undefined(q)
  BY DEF Next
<1>s. SiblingsOf(q)
  BY <1>0, ListMeans
<1>k. \A x \in Objs : /\ Sibling(fids[x].children, x) /\ Known(fids, fids[x].children)
                      /\ Sibling(fids[x].cnext, fids[x].parent) /\ Known(fids, fids[x].cnext)
  BY <1>0, ListMeans DEF BaseInv, KnownInv
<1> DEFINE SameLinks == \A x \in Objs : /\ fids'[x].children = fids[x].children
                                        /\ fids'[x].cnext = fids[x].cnext
                                        /\ fids'[x].parent = fids[x].parent
           Away == pc'[q] \notin {"scan", "take", "walk", "cas"}
<1>f. fids' = fids => SameLinks
  OBVIOUS
<1>r. (\A x, r : SetRefs(x, r) => SameLinks) /\ \A x : SetFreed(x) => SameLinks
  BY DEF SetRefs, SetFreed, SameFile
<1>l. ASSUME SameLinks, Others(q), SiblingsOf(q)' PROVE ListInv'
  BY <1>0, <1>k, <1>l, ListStep
<1>a. ASSUME SameLinks, Others(q), Away PROVE ListInv'
  BY <1>a, <1>l DEF SiblingsOf
<1>g. \A x, then, new : GaveUp(q, x, then, new) => Others(q) /\ Away
  BY DEF GaveUp
<1>b. Returned(q) \/ WentOn(q) \/ Ended(q) => Away
  BY DEF Returned, WentOn, Ended
<1>3. ASSUME NEW path \in Paths, NEW create \in BOOLEAN, Call(q, path, create) PROVE ListInv'
  <2>1. SetRefs(root, Inc(fids[root].refs)) /\ Others(q) /\ Away
    BY <1>3, CallHere
  <2> QED BY <1>a, <1>r, <2>1
<1>4. CASE Enter(q)
  <2>0. fids' = fids /\ l[q].fid \in Objs
    BY <1>4, EnterHere
  <2>1. CASE GaveUp(q, l[q].fid, Failed(q), None)
    BY <1>a, <1>f, <1>g, <2>0, <2>1
  <2>2. CASE pc'[q] = "scan" /\ Walked(q, fids[l[q].fid].children, l[q].p, l[q].n)
    <3>1. l'[q].c = fids[l[q].fid].children /\ l'[q].fid = l[q].fid
      BY <2>2 DEF Walked
    <3>2. Sibling(fids[l[q].fid].children, l[q].fid)
      BY <1>k, <2>0
    <3>3. SiblingsOf(q)'
      BY <2>0, <2>2, <3>1, <3>2 DEF SiblingsOf, Sibling
    <3> QED BY <1>l, <1>f, <2>0, <2>2, <3>3 DEF Walked
  <2> QED BY <1>4, <2>1, <2>2, EnterHere
<1>5. CASE Scan(q)
  <2>1. /\ pc[q] = "scan" /\ fids' = fids /\ l[q].c \in Objs /\ l[q].c # None
        /\ pc'[q] \in {"scan", "take"} /\ Others(q) /\ l'[q].fid = l[q].fid
        /\ l'[q].c \in {l[q].c, fids[l[q].c].cnext}
    BY <1>5, ScanHere, FidAssumption DEF Stayed, Walked
  <2>2. fids[l[q].c].parent = l[q].fid
    BY <1>s, <2>1 DEF SiblingsOf, Sibling
  <2>3. Sibling(fids[l[q].c].cnext, l[q].fid)
    BY <1>k, <2>1, <2>2
  <2>4. SiblingsOf(q)'
    BY <2>1, <2>2, <2>3 DEF SiblingsOf, Sibling
  <2> QED BY <1>l, <1>f, <2>1, <2>4
<1>6. CASE Take(q)
  BY <1>6, <1>a, <1>r, <1>g, TakeHere
<1>7. CASE AskFails(q)
  BY <1>7, <1>a, <1>f, <1>g, AskFailsHere
<1>8. CASE NoChild(q)
  <2>1. Others(q) /\ Away
    BY <1>8, <1>g, NoChildHere DEF Stayed, Walked
  <2> QED BY <1>8, <1>a, <1>f, <2>1, NoChildHere
<1>9. ASSUME NEW o \in Objs, Answer(q, o) PROVE ListInv'
  BY <1>0, <1>9, ListAnswer
<1>10. CASE NoMemory(q)
  BY <1>10, <1>a, <1>f, <1>g, NoMemoryHere
<1>11. CASE Grow(q)
  BY <1>11, <1>a, <1>r, GrowHere
<1>12. CASE LoadChildren(q)
  <2>1. /\ pc[q] \in Pushing /\ SetCnext(l[q].new, fids[l[q].fid].children) /\ Others(q)
        /\ l[q].fid \in Objs /\ Away
    BY <1>12, LoadChildrenHere DEF Pushing
  <2>2. fids[l[q].new].parent = l[q].fid
    BY <1>0, <2>1 DEF PushInv
  <2>3. SiblingsOf(q)'
    BY <2>1 DEF SiblingsOf
  <2>4. \A x \in Objs : /\ Sibling(fids'[x].children, x) /\ Known(fids, fids'[x].children)
                        /\ Sibling(fids'[x].cnext, fids[x].parent) /\ Known(fids, fids'[x].cnext)
    BY <1>k, <2>1, <2>2 DEF SetCnext
  <2>5. \A x \in Objs : fids'[x].parent = fids[x].parent
    BY <2>1 DEF SetCnext, SameFile
  <2> QED BY <1>0, <2>1, <2>3, <2>4, <2>5, ListStep
<1>13. CASE Push(q)
  <2>1. /\ pc[q] \in Pushing /\ SetChildren(l[q].fid, l[q].new) /\ Others(q)
        /\ l[q].fid \in Objs /\ Away
    BY <1>13, <1>g, PushHere DEF Pushing
  <2>2. fids[l[q].new].parent = l[q].fid /\ Known(fids, l[q].new)
    BY <1>0, <2>1 DEF PushInv, BaseInv, KnownInv
  <2>3. SiblingsOf(q)'
    BY <2>1 DEF SiblingsOf
  <2>4. \A x \in Objs : /\ Sibling(fids'[x].children, x) /\ Known(fids, fids'[x].children)
                        /\ Sibling(fids'[x].cnext, fids[x].parent) /\ Known(fids, fids'[x].cnext)
    BY <1>k, <2>1, <2>2 DEF SetChildren, Sibling
  <2>5. \A x \in Objs : fids'[x].parent = fids[x].parent
    BY <2>1 DEF SetChildren, SameFile
  <2> QED BY <1>0, <2>1, <2>3, <2>4, <2>5, ListStep
<1>14. CASE PushFails(q)
  BY <1>14, <1>a, <1>f, PushFailsHere
<1>15. CASE Drop(q)
  BY <1>15, <1>a, <1>f, <1>g, DropHere
<1>16. CASE Dec(q)
  <2>1. SetRefs(Top(q), Less(fids[Top(q)].refs)) /\ Others(q) /\ Away
    BY <1>16, <1>b, DecHere
  <2> QED BY <1>a, <1>r, <2>1
<1>17. CASE Clunk(q)
  <2>1. fids' = fids /\ Others(q) /\ Away
    BY <1>17, ClunkHere
  <2> QED BY <1>a, <1>f, <2>1
<1>18. CASE FindChild(q)
  <2>1. /\ pc'[q] = "walk" /\ Top(q) \in Objs /\ fids[Top(q)].parent \in Objs /\ fids' = fids /\ Others(q)
        /\ l'[q].c = fids[fids[Top(q)].parent].children /\ l'[q].p = None /\ l'[q].stack = l[q].stack
    BY <1>18, FindChildHere DEF Walked
  <2>2. Sibling(fids[fids[Top(q)].parent].children, fids[Top(q)].parent) /\ Top(q)' = Top(q)
    BY <1>k, <2>1 DEF Top
  <2>3. SiblingsOf(q)'
    BY <2>1, <2>2 DEF SiblingsOf, Sibling
  <2> QED BY <1>l, <1>f, <2>1, <2>3
<1>19. CASE WalkChild(q)
  <2>1. /\ pc[q] = "walk" /\ fids' = fids /\ Others(q) /\ l'[q].stack = l[q].stack /\ l[q].c \in Objs
        /\ \/ pc'[q] = "cas" /\ l'[q].c = l[q].c /\ l'[q].p = l[q].p /\ l'[q].n = fids[l[q].c].cnext
           \/ pc'[q] = "walk" /\ l'[q].c = fids[l[q].c].cnext /\ l'[q].p = l[q].c
    BY <1>19, WalkChildHere DEF Walked
  <2>2. fids[l[q].c].parent = fids[Top(q)].parent /\ Sibling(l[q].p, fids[Top(q)].parent) /\ Top(q)' = Top(q)
    BY <1>s, <2>1, FidAssumption DEF SiblingsOf, Sibling, Top
  <2>3. Sibling(fids[l[q].c].cnext, fids[Top(q)].parent)
    BY <1>k, <2>1, <2>2
  <2>4. SiblingsOf(q)'
    BY <2>1, <2>2, <2>3 DEF SiblingsOf, Sibling
  <2> QED BY <1>l, <1>f, <2>1, <2>4
<1>20. CASE NotFound(q)
  <2>1. fids' = fids /\ Others(q) /\ Away
    BY <1>20, NotFoundHere DEF WentUp
  <2> QED BY <1>a, <1>f, <2>1
<1>21. CASE Remove(q)
  <2>1. /\ pc[q] = "cas" /\ Others(q) /\ Away /\ fids[Top(q)].parent \in Objs
        /\ \/ SetChildren(fids[Top(q)].parent, l[q].n)
           \/ l[q].p \in Objs /\ SetCnext(l[q].p, l[q].n)
    BY <1>21, RemoveHere DEF WentUp
  <2>2. /\ Sibling(l[q].n, fids[Top(q)].parent) /\ Known(fids, l[q].n)
        /\ l[q].p \in Objs => fids[l[q].p].parent = fids[Top(q)].parent
    BY <1>s, <2>1, FidAssumption DEF SiblingsOf, Sibling, BaseInv, KnownInv
  <2>3. SiblingsOf(q)'
    BY <2>1 DEF SiblingsOf
  <2>4. CASE SetChildren(fids[Top(q)].parent, l[q].n)
    <3>1. \A x \in Objs : /\ Sibling(fids'[x].children, x) /\ Known(fids, fids'[x].children)
                          /\ Sibling(fids'[x].cnext, fids[x].parent) /\ Known(fids, fids'[x].cnext)
      BY <1>k, <2>2, <2>4 DEF SetChildren
    <3>2. \A x \in Objs : fids'[x].parent = fids[x].parent
      BY <2>4 DEF SetChildren, SameFile
    <3> QED BY <1>0, <2>1, <2>3, <3>1, <3>2, ListStep
  <2>5. CASE l[q].p \in Objs /\ SetCnext(l[q].p, l[q].n)
    <3>1. \A x \in Objs : /\ Sibling(fids'[x].children, x) /\ Known(fids, fids'[x].children)
                          /\ Sibling(fids'[x].cnext, fids[x].parent) /\ Known(fids, fids'[x].cnext)
      BY <1>k, <2>2, <2>5 DEF SetCnext
    <3>2. \A x \in Objs : fids'[x].parent = fids[x].parent
      BY <2>5 DEF SetCnext, SameFile
    <3> QED BY <1>0, <2>1, <2>3, <3>1, <3>2, ListStep
  <2> QED BY <2>1, <2>4, <2>5
<1>22. CASE RemoveFails(q)
  <2>1. fids' = fids /\ Others(q) /\ Away
    BY <1>22, RemoveFailsHere DEF Walked
  <2> QED BY <1>a, <1>f, <2>1
<1>23. CASE Free(q)
  BY <1>23, <1>a, <1>r, <1>b, FreeHere
<1>24. CASE Undefined(q)
  BY <1>0, <1>24 DEF Undefined, ListInv, Top
<1> QED BY <1>1, <1>3, <1>4, <1>5, <1>6, <1>7, <1>8, <1>9, <1>10, <1>11, <1>12, <1>13, <1>14, <1>15,
           <1>16, <1>17, <1>18, <1>19, <1>20, <1>21, <1>22, <1>23, <1>24 DEF Finds, Frees

(* Who gives up a directory on the way has the child it goes on with. *)
LEMMA KeepStep ==
  ASSUME BaseInv, KeepInv, NEW q \in Procs, Others(q),
         \A x \in Objs : fids[x].mem # "new" => fids'[x].parent = fids[x].parent,
         pc'[q] = "dec" /\ l'[q].then = "next" /\ Len(l'[q].stack) = 1 =>
           fids[l'[q].new].parent = Top(q)' /\ Known(fids, l'[q].new) /\ l'[q].new # None
  PROVE  KeepInv'
<1> SUFFICES ASSUME NEW p \in Procs, pc'[p] = "dec", l'[p].then = "next", Len(l'[p].stack) = 1
             PROVE  fids'[l'[p].new].parent = Top(p)'
  BY DEF KeepInv
<1>1. CASE p = q
  BY <1>1 DEF Known
<1>2. CASE p # q
  <2>1. l'[p] = l[p] /\ pc'[p] = pc[p] /\ Top(p)' = Top(p)
    BY <1>2 DEF Others, Top
  <2>2. fids[l[p].new].parent = Top(p)
    BY <2>1 DEF KeepInv
  <2>3. Known(fids, l[p].new) /\ l[p].new # None
    BY <2>1 DEF BaseInv, KnownInv, PlaceInv, Placed, Giving
  <2> QED BY <2>1, <2>2, <2>3 DEF Known
<1> QED BY <1>1, <1>2

LEMMA KeepNext == BaseInv /\ CoreInv /\ Next => KeepInv'
<1> SUFFICES ASSUME BaseInv, CoreInv, Next PROVE KeepInv'
  OBVIOUS
<1>0. PushInv /\ ListInv /\ KeepInv
  BY DEF CoreInv
<1>1. PICK q \in Procs : Finds(q) \/ Frees(q) \/ Undefined(q)
  BY DEF Next
<1>n. None \notin Objs
  BY FidAssumption
<1> DEFINE Parents == \A x \in Objs : fids[x].mem # "new" => fids'[x].parent = fids[x].parent
<1>f. fids' = fids => Parents
  OBVIOUS
<1>r. (\A x, r : SetRefs(x, r) => Parents) /\ \A x : SetFreed(x) => Parents
  BY DEF SetRefs, SetFreed, SameFile
<1>c. (\A x, y : SetChildren(x, y) => Parents) /\ \A x, y : SetCnext(x, y) => Parents
  BY DEF SetChildren, SetCnext, SameFile
<1>a. ASSUME Parents, Others(q), pc'[q] # "dec" PROVE KeepInv'
  BY <1>0, <1>a, KeepStep
<1>g. ASSUME Parents, NEW x, NEW then, NEW new, GaveUp(q, x, then, new),
             then = "next" => new \in Objs /\ Known(fids, new) /\ fids[new].parent = x
      PROVE  KeepInv'
  <2>1. Others(q) /\ l'[q].then = then /\ l'[q].new = new /\ Top(q)' = x
    BY <1>g DEF GaveUp, Top
  <2> QED BY <1>0, <1>n, <1>g, <2>1, KeepStep
<1>u. ASSUME Parents, WentUp(q), pc[q] \in {"walk", "cas"} PROVE KeepInv'
  <2>1. Len(l'[q].stack) # 1
    <3>1. fids[Top(q)].parent \in Objs /\ l[q].stack \in Seq(Objs) /\ l[q].stack # <<>>
      BY <1>u, Here DEF LocalType, Giving, Ending
    <3>2. Len(l[q].stack) \in Nat /\ Len(l[q].stack) > 0 /\ Len(l'[q].stack) = Len(l[q].stack) + 1
      BY <1>u, <3>1, StackHead, StackUp DEF WentUp
    <3> QED BY <3>2
  <2> QED BY <1>0, <1>u, <2>1, KeepStep DEF WentUp
<1>b. Returned(q) \/ WentOn(q) \/ Ended(q) => pc'[q] # "dec"
  BY DEF Returned, WentOn, Ended
<1>3. ASSUME NEW path \in Paths, NEW create \in BOOLEAN, Call(q, path, create) PROVE KeepInv'
  BY <1>3, <1>a, <1>r, CallHere
<1>4. CASE Enter(q)
  <2>0. fids' = fids
    BY <1>4, EnterHere
  <2>1. CASE GaveUp(q, l[q].fid, Failed(q), None) /\ Failed(q) \in {"idle", "dead"}
    BY <1>g, <1>f, <2>0, <2>1
  <2>2. CASE pc'[q] = "scan" /\ Walked(q, fids[l[q].fid].children, l[q].p, l[q].n)
    BY <1>a, <1>f, <2>0, <2>2 DEF Walked
  <2> QED BY <1>4, <2>1, <2>2, EnterHere
<1>5. CASE Scan(q)
  <2>1. fids' = fids /\ pc'[q] # "dec" /\ Others(q)
    BY <1>5, ScanHere DEF Stayed, Walked
  <2> QED BY <1>a, <1>f, <2>1
<1>6. CASE Take(q)
  <2>1. /\ pc[q] = "take" /\ l[q].c \in Objs /\ SetRefs(l[q].c, Inc(fids[l[q].c].refs))
        /\ GaveUp(q, l[q].fid, "next", l[q].c)
    BY <1>6, TakeHere
  <2>2. fids[l[q].c].parent = l[q].fid /\ Known(fids, l[q].c)
    BY <1>0, <1>n, <2>1 DEF ListInv, BaseInv, KnownInv
  <2> QED BY <1>g, <1>r, <2>1, <2>2
<1>7. CASE AskFails(q)
  BY <1>7, <1>g, <1>f, AskFailsHere
<1>8. CASE NoChild(q)
  <2>0. fids' = fids
    BY <1>8, NoChildHere
  <2>1. CASE GaveUp(q, l[q].fid, Failed(q), None) /\ Failed(q) \in {"idle", "dead"}
    BY <1>g, <1>f, <2>0, <2>1
  <2>2. CASE Others(q) /\ pc'[q] # "dec"
    BY <1>a, <1>f, <2>0, <2>2
  <2> QED BY <1>8, <2>1, <2>2, NoChildHere DEF Stayed, Walked
<1>9. ASSUME NEW o \in Objs, Answer(q, o) PROVE KeepInv'
  <2>1. Others(q) /\ pc'[q] # "dec" /\ Parents
    BY <1>9, AnswerHere
  <2> QED BY <1>a, <2>1
<1>10. CASE NoMemory(q)
  BY <1>10, <1>g, <1>f, NoMemoryHere
<1>11. CASE Grow(q)
  BY <1>11, <1>a, <1>r, GrowHere
<1>12. CASE LoadChildren(q)
  BY <1>12, <1>a, <1>c, LoadChildrenHere
<1>13. CASE Push(q)
  <2>1. /\ pc[q] \in Pushing /\ l[q].new \in Objs /\ SetChildren(l[q].fid, l[q].new)
        /\ GaveUp(q, l[q].fid, "next", l[q].new)
    BY <1>13, PushHere DEF Pushing
  <2>2. fids[l[q].new].parent = l[q].fid /\ Known(fids, l[q].new)
    BY <1>0, <2>1 DEF PushInv, BaseInv, KnownInv
  <2> QED BY <1>g, <1>c, <2>1, <2>2
<1>14. CASE PushFails(q)
  BY <1>14, <1>a, <1>f, PushFailsHere
<1>15. CASE Drop(q)
  BY <1>15, <1>g, <1>f, DropHere
<1>16. CASE Dec(q)
  BY <1>16, <1>a, <1>r, <1>b, DecHere
<1>17. CASE Clunk(q)
  <2>1. fids' = fids /\ Others(q) /\ pc'[q] # "dec"
    BY <1>17, ClunkHere
  <2> QED BY <1>a, <1>f, <2>1
<1>18. CASE FindChild(q)
  BY <1>18, <1>a, <1>f, FindChildHere DEF Walked
<1>19. CASE WalkChild(q)
  <2>1. fids' = fids /\ Others(q) /\ pc'[q] # "dec"
    BY <1>19, WalkChildHere DEF Walked
  <2> QED BY <1>a, <1>f, <2>1
<1>20. CASE NotFound(q)
  BY <1>20, <1>u, <1>f, NotFoundHere
<1>21. CASE Remove(q)
  BY <1>21, <1>u, <1>c, RemoveHere
<1>22. CASE RemoveFails(q)
  BY <1>22, <1>a, <1>f, RemoveFailsHere DEF Walked
<1>23. CASE Free(q)
  BY <1>23, <1>a, <1>r, <1>b, FreeHere
<1>24. CASE Undefined(q)
  BY <1>0, <1>24 DEF Undefined, KeepInv, Top
<1> QED BY <1>1, <1>3, <1>4, <1>5, <1>6, <1>7, <1>8, <1>9, <1>10, <1>11, <1>12, <1>13, <1>14, <1>15,
           <1>16, <1>17, <1>18, <1>19, <1>20, <1>21, <1>22, <1>23, <1>24 DEF Finds, Frees

LEMMA InitCore == Init => CoreInv
<1> SUFFICES ASSUME Init PROVE CoreInv
  OBVIOUS
<1>0. root \in Objs /\ \A o \in Objs : None # o
  BY FidAssumption
<1>1. \A q \in Procs : /\ l[q].fid = None /\ l[q].new = None /\ l[q].c = None /\ l[q].p = None /\ l[q].n = None
                       /\ l[q].stack = <<>> /\ pc[q] = "idle"
  BY DEF Init, Clear, Locals
<1>2. \A o \in Objs : /\ fids[o].parent = None /\ fids[o].children = None /\ fids[o].cnext = None
                      /\ leaked[o] = {} /\ Ref(o) = Bit(o = root)
  BY DEF Init, NewFid, Unused, Ref, Bit
<1>3. RefInv
  <2> SUFFICES ASSUME NEW o \in Objs PROVE Ref(o) = Holders(o)
    BY DEF RefInv
  <2>1. Fids(o) = {} /\ News(o) = {} /\ Decs(o) = {}
    BY <1>0, <1>1 DEF Fids, News, Decs
  <2>2. Kids(o) = {}
    BY <1>0, <1>2 DEF Kids, Counted
  <2>3. Holders(o) = 0 + 0 + 0 + 0 + 0 + Bit(o = root)
    BY <1>2, <2>1, <2>2, FS_EmptySet DEF Holders, Fids, News, Decs, Kids, Bit
  <2> QED BY <1>2, <2>3 DEF Bit
<1>4. FreeInv
  BY <1>1 DEF FreeInv, Doomed
<1>5. PushInv /\ KeepInv
  BY <1>1 DEF PushInv, KeepInv, Pushing
<1>6. ListInv
  BY <1>1, <1>2 DEF ListInv
<1> QED BY <1>3, <1>4, <1>5, <1>6 DEF CoreInv

(* A fid without references is never taken back. *)
LEMMA RaisedStays == [Next]_vars /\ raised => raised'
<1> SUFFICES ASSUME [Next]_vars, raised PROVE raised'
  OBVIOUS
<1>1. CASE UNCHANGED vars
  BY <1>1 DEF vars
<1>2. CASE Next
  BY <1>2 DEF Next, Finds, Frees, Undefined, Call, Enter, Scan, Take, AskFails, NoChild, Answer, NoMemory,
     Grow, LoadChildren, Push, PushFails, Drop, Dec, Clunk, FindChild, WalkChild, NotFound, Remove,
     RemoveFails, Free
<1> QED BY <1>1, <1>2

LEMMA CoreNext == BaseInv /\ CoreInv /\ [Next]_vars /\ ~raised' => CoreInv'
<1> SUFFICES ASSUME BaseInv, CoreInv, [Next]_vars, ~raised' PROVE CoreInv'
  OBVIOUS
<1>1. CASE Next
  BY <1>1, RefNext, FreeNext, PushNext, ListNext, KeepNext DEF CoreInv
<1>2. CASE UNCHANGED vars
  <2>1. fids' = fids /\ l' = l /\ pc' = pc /\ leaked' = leaked
    BY <1>2 DEF vars
  <2>2. \A o \in Objs : Holders(o)' = Holders(o) /\ Ref(o)' = Ref(o)
    BY <2>1 DEF Holders, Ref, Counted, LetGo, Growing, Top
  <2>3. RefInv'
    BY <2>2 DEF RefInv, CoreInv
  <2>4. FreeInv'
    BY <2>1 DEF FreeInv, Doomed, CoreInv
  <2>5. PushInv'
    BY <2>1 DEF PushInv, Seen, CoreInv
  <2>6. ListInv'
    BY <2>1 DEF ListInv, Top, CoreInv
  <2>7. KeepInv'
    BY <2>1 DEF KeepInv, Top, CoreInv
  <2> QED BY <2>3, <2>4, <2>5, <2>6, <2>7 DEF CoreInv
<1> QED BY <1>1, <1>2

(* As long as no reference was taken of a fid without references, the      *)
(* counts are exact, nobody frees what another uses, and the lists of      *)
(* children lead among the children of one fid (kern/file.c).              *)
THEOREM CoreInductive == Spec => [](~raised => CoreInv)
<1>1. Init => (~raised => CoreInv)
  BY InitCore
<1>2. BaseInv /\ (~raised => CoreInv) /\ [Next]_vars => (~raised => CoreInv)'
  BY CoreNext, RaisedStays
<1> QED BY <1>1, <1>2, BaseInductive, PTL DEF Spec

(* For every number of processes, fids and paths: the count of each fid is *)
(* the number of its references, on every path through findfile() and      *)
(* bindingfidfree(), failures included, as long as no reference was taken  *)
(* of a fid that had none.                                                 *)
THEOREM FidsCounted == Spec => []CountsExact
<1>1. (~raised => CoreInv) => CountsExact
  BY DEF CoreInv, RefInv, Ref, CountsExact
<1> QED BY <1>1, CoreInductive, PTL

(* For every number of processes, fids and paths: findfile() never gives up *)
(* the last reference of a directory on the way to one of its children.    *)
THEOREM ParentsKept == Spec => []ParentKept
<1>1. ASSUME BaseInv, ~raised => CoreInv PROVE ParentKept
  <2> SUFFICES ASSUME ~raised, NEW q \in Procs, pc[q] = "dec", l[q].then = "next", Len(l[q].stack) = 1
               PROVE  fids[Top(q)].refs > 1
    BY DEF ParentKept
  <2>0. RefInv /\ FreeInv /\ PushInv /\ KeepInv /\ CoreInv /\ TypeInv /\ \A o \in Objs : None # o
    BY <1>1, FidAssumption DEF CoreInv, BaseInv
  <2>1. PICK x \in Objs : x = l[q].new
    BY <1>1, FidAssumption DEF BaseInv, KnownInv, Known, PlaceInv, Placed, Giving
  <2>2. PICK d \in Objs : d = Top(q)
    BY <1>1, TopHere DEF Giving
  <2>3. fids[x].parent = d /\ fids[x].mem = "used" /\ fids[x].refs >= 1 /\ fids[x].refs \in Nat
    BY <1>1, <2>0, <2>1, <2>2, Referred DEF KeepInv, Refers
  <2>4. \A p \in Procs : ~LetGo(p, x)
    <3>1. fids[x].refs # 0
      BY <2>3
    <3> QED BY <2>0, <3>1, NotDoomed
  <2>5. \A p \in Procs : ~Growing(p, x)
    <3> SUFFICES ASSUME NEW p \in Procs, pc[p] = "grow", l[p].new = x PROVE FALSE
      BY DEF Growing
    <3>1. p # q /\ Refers(q, x)
      BY <2>1 DEF Refers
    <3> QED BY <1>1, <2>0, <3>1, Alone DEF Pushing
  <2>6. Counted(x, d)
    BY <2>3, <2>4, <2>5 DEF Counted
  <2>7. Own(q, d) >= 1 /\ Own(q, d) \in Nat
    BY <2>2, OwnRefers DEF Refers
  <2>8. Holders(d) \in Nat /\ Holders(d) >= Own(q, d) + Bit(Counted(x, d))
    BY <2>0, HoldersLeast
  <2>9. Holders(d) > 1
    BY <2>6, <2>7, <2>8 DEF Bit
  <2>10. fids[d].refs = Holders(d)
    <3>1. fids[d].mem = "used"
      BY <1>1, <2>0, <2>2, Referred DEF Refers
    <3> QED BY <2>0, <3>1 DEF RefInv, Ref
  <2> QED BY <2>2, <2>9, <2>10
<1> QED BY <1>1, BaseInductive, CoreInductive, PTL
-----------------------------------------------------------------------------
(* UseInv: a fid in use stays known to the kernel and to its server.       *)

(* All fids but the root have a parent. *)
RootInv == /\ fids[root].parent = None
           /\ \A x \in Objs \ {root} : fids[x].mem # "new" => fids[x].parent \in Objs

InUse(x) == fids[x].mem = "used" /\ fids[x].refs > 0
Fresh(x) == \E q \in Procs : pc[q] \in Pushing /\ l[q].new = x

(* The fids that were put on a list, in the order of age. *)
On(x) == fids[x].mem # "new" /\ x # root /\ ~Fresh(x)

(* From y on a list leads to w, and who goes on from x to y goes to what is *)
(* older and misses nobody in use.                                         *)
Leads(age, y, w) == y # None /\ age[y] >= age[w]
Passes(age, x, y) ==
  /\ y # None => age[y] < age[x]
  /\ \A w \in Objs : On(w) /\ InUse(w) /\ fids[w].parent = fids[x].parent /\ age[w] < age[x] => Leads(age, y, w)
Ordered(age) ==
  /\ \A x, y \in Objs : On(x) /\ On(y) /\ age[x] = age[y] => x = y
  /\ \A x \in Objs : On(x) => Passes(age, x, fids[x].cnext)
  /\ \A w \in Objs : On(w) /\ InUse(w) => Leads(age, fids[fids[w].parent].children, w)
  /\ \A q \in Procs : pc[q] = "cas" => Passes(age, Top(q), l[q].n)
OrderInv == \E b \in Nat : \E age \in [Objs -> 0..b] : Ordered(age)

(* The server was told to forget x, by the one that frees it. *)
ToldAt(q, i) == i > 1 \/ pc[q] \in {"find", "walk", "cas", "free"}
Told(x) == \E q \in Procs : \E i \in DOMAIN l[q].stack : l[q].stack[i] = x /\ ToldAt(q, i)
Kept(f) == {x \in Objs : fids[x].mem = "used" /\ fids[x].file = f /\ ~Told(x)}
ServeInv == served \in [Files -> Int] /\ \A f \in Files : served[f] >= Cardinality(Kept(f))

UseInv == RootInv /\ OrderInv /\ ServeInv

-----------------------------------------------------------------------------
(* The fids on a list and the links. *)

(* What a link leads to is on a list. *)
LEMMA OnHere ==
  ASSUME BaseInv, CoreInv, RootInv, NEW x \in Objs, Seen(x), Known(fids, x), fids[x].parent # None
  PROVE  On(x)
<1>1. fids[x].mem # "new" /\ x # root
  BY FidAssumption DEF Known, RootInv
<1>2. ~Fresh(x)
  BY DEF CoreInv, PushInv, Fresh
<1> QED BY <1>1, <1>2 DEF On

LEMMA LinksOn ==
  ASSUME BaseInv, CoreInv, RootInv
  PROVE  /\ \A d \in Objs : fids[d].children # None => On(fids[d].children) /\ fids[d].children \in Objs
                                                       /\ fids[fids[d].children].parent = d
         /\ \A x \in Objs : On(x) => fids[x].parent \in Objs
         /\ \A x \in Objs : On(x) /\ fids[x].cnext # None =>
              On(fids[x].cnext) /\ fids[x].cnext \in Objs /\ fids[fids[x].cnext].parent = fids[x].parent
<1>0. \A x \in Objs : x # None
  BY FidAssumption
<1>1. ASSUME NEW d \in Objs, fids[d].children # None
      PROVE  On(fids[d].children) /\ fids[d].children \in Objs /\ fids[fids[d].children].parent = d
  <2>1. PICK y \in Objs : y = fids[d].children /\ Known(fids, y)
    BY <1>1 DEF BaseInv, KnownInv, Known
  <2>2. Seen(y) /\ fids[y].parent = d
    BY <1>0, <2>1 DEF Seen, CoreInv, ListInv
  <2> QED BY <1>0, <2>1, <2>2, OnHere
<1>2. ASSUME NEW x \in Objs, On(x) PROVE fids[x].parent \in Objs
  BY <1>2 DEF On, RootInv
<1>3. ASSUME NEW x \in Objs, On(x), fids[x].cnext # None
      PROVE  On(fids[x].cnext) /\ fids[x].cnext \in Objs /\ fids[fids[x].cnext].parent = fids[x].parent
  <2>1. PICK y \in Objs : y = fids[x].cnext /\ Known(fids, y)
    BY <1>3 DEF BaseInv, KnownInv, Known
  <2>2. Seen(y) /\ fids[y].parent = fids[x].parent
    BY <1>0, <2>1 DEF Seen, CoreInv, ListInv
  <2>3. fids[y].parent # None
    BY <1>0, <1>2, <1>3, <2>2
  <2> QED BY <2>1, <2>2, <2>3, OnHere
<1> QED BY <1>1, <1>2, <1>3

(* A fid that is on a list and in use is found by who walks the list. *)
LEMMA FoundOnList ==
  ASSUME BaseInv, CoreInv, RootInv, OrderInv, NEW x \in Objs, On(x), InUse(x)
  PROVE  x \in Listed(fids[x].parent)
<1>1. PICK b \in Nat : \E age \in [Objs -> 0..b] : Ordered(age)
  BY DEF OrderInv
<1>2. PICK age \in [Objs -> 0..b] : Ordered(age)
  BY <1>1
<1>3. \A y \in Objs : age[y] \in Nat
  BY <1>1, <1>2
<1> DEFINE d == fids[x].parent
<1> SUFFICES ASSUME NEW X \in SUBSET Objs, Closed(X), fids[d].children \in X \cup {None}
             PROVE  x \in X
  BY DEF Listed
<1> DEFINE Ahead == {y \in X : On(y) /\ fids[y].parent = d /\ age[y] >= age[x]}
           Ages == {age[y] : y \in Ahead}
<1>4. fids[d].children \in Ahead
  <2>1. Leads(age, fids[d].children, x)
    BY <1>2 DEF Ordered
  <2>2. d \in Objs
    BY LinksOn
  <2> QED BY <2>1, <2>2, LinksOn DEF Leads
<1>5. Ages \subseteq Nat /\ Ages # {}
  BY <1>3, <1>4
<1> HIDE DEF Ages
<1>6. PICK k \in Ages : \A m \in Ages : <<m, k>> \notin OpToRel(<, Nat)
  BY <1>5, NatLessThanWellFounded, WFMin
<1>7. PICK y \in Ahead : age[y] = k
  BY <1>6 DEF Ages
<1>8. \A z \in Ahead : ~(age[z] < age[y])
  BY <1>3, <1>6, <1>7 DEF Ages, OpToRel
<1>9. SUFFICES ASSUME y # x PROVE FALSE
  BY <1>7
<1>10. age[x] < age[y]
  <2>1. age[x] # age[y]
    BY <1>2, <1>7, <1>9 DEF Ordered
  <2> QED BY <1>3, <1>7, <2>1
<1>11. /\ fids[y].cnext # None /\ age[fids[y].cnext] >= age[x] /\ age[fids[y].cnext] < age[y]
  BY <1>2, <1>7, <1>10 DEF Ordered, Passes, Leads
<1>12. fids[y].cnext \in X
  BY <1>7, <1>11 DEF Closed
<1>13. fids[y].cnext \in Ahead
  BY <1>7, <1>11, <1>12, LinksOn
<1> QED BY <1>8, <1>11, <1>13

(* Steps that put nothing on a list and take nothing off. *)
LEMMA OrderStep ==
  ASSUME NEW age, Ordered(age), BaseInv, RootInv,
         \A x \in Objs : On(x)' => /\ On(x) /\ fids'[x].cnext = fids[x].cnext
                                   /\ fids'[x].parent = fids[x].parent
                                   /\ (InUse(x)' => InUse(x)),
         \A x \in Objs : On(x) => fids'[fids[x].parent].children = fids[fids[x].parent].children,
         \A q \in Procs : pc'[q] = "cas" =>
           /\ Top(q)' = Top(q) /\ fids'[Top(q)].parent = fids[Top(q)].parent
           /\ \/ pc[q] = "cas" /\ l'[q].n = l[q].n
              \/ Top(q) \in Objs /\ On(Top(q)) /\ l'[q].n = fids[Top(q)].cnext
  PROVE  Ordered(age)'
<1>1. \A x, y : fids'[x].parent = fids[x].parent /\ Passes(age, x, y) => Passes(age, x, y)'
  BY DEF Passes, Leads
<1>2. \A x, y \in Objs : On(x)' /\ On(y)' /\ age[x] = age[y] => x = y
  BY DEF Ordered
<1>3. \A x \in Objs : On(x)' => Passes(age, x, fids[x].cnext)'
  BY <1>1 DEF Ordered
<1> QED BY <1>1, <1>2, <1>3 DEF Ordered, Leads

(* A fid that is being freed is not in use, and one that is put on a list  *)
(* is known to nobody else.                                                *)
LEMMA EndingUnused ==
  ASSUME BaseInv, CoreInv, NEW q \in Procs, pc[q] \in Ending
  PROVE  ~InUse(Top(q)) /\ Top(q) \in Objs /\ Known(fids, Top(q)) /\ ~Fresh(Top(q))
<1>1. Top(q) \in Objs /\ fids[Top(q)].mem = "used" /\ fids[Top(q)].refs = 0
  BY EndingHere DEF CoreInv
<1>2. ASSUME NEW p \in Procs, pc[p] \in Pushing, l[p].new = Top(q) PROVE FALSE
  BY <1>1, <1>2 DEF CoreInv, PushInv
<1> QED BY <1>1, <1>2 DEF InUse, Known, Fresh

LEMMA OrderPush ==
  ASSUME BaseInv, CoreInv, RootInv, OrderInv, NEW q \in Procs, Push(q)
  PROVE  OrderInv'
<1>1. PICK b \in Nat : \E age \in [Objs -> 0..b] : Ordered(age)
  BY DEF OrderInv
<1>2. PICK age \in [Objs -> 0..b] : Ordered(age)
  BY <1>1
<1>3. /\ pc[q] = "push" /\ l[q].fid \in Objs /\ l[q].new \in Objs
      /\ fids[l[q].fid].children = fids[l[q].new].cnext
      /\ SetChildren(l[q].fid, l[q].new) /\ GaveUp(q, l[q].fid, "next", l[q].new) /\ Others(q)
  BY PushHere DEF GaveUp
<1>4. PICK o \in Objs : o = l[q].new
  BY <1>3
<1>5. PICK d \in Objs : d = l[q].fid
  BY <1>3
<1>6. fids[o].parent = d /\ ~Seen(o) /\ o # None /\ fids[o].refs = 1 /\ o # root
      /\ \A p \in Procs : p # q => l[p].new # o
  BY <1>3, <1>4, <1>5, Alone, FidAssumption DEF CoreInv, PushInv, Pushing, Refers
<1>7. /\ \A x \in Objs : age[x] \in Nat /\ age[x] <= b
      /\ [age EXCEPT ![o] = b + 1] \in [Objs -> 0..b + 1]
  BY <1>1, <1>2
<1> DEFINE new == [age EXCEPT ![o] = b + 1]
<1>8. \A x \in Objs : new[x] = IF x = o THEN b + 1 ELSE age[x]
  BY <1>2
<1> HIDE DEF new
<1>9. \A x \in Objs : /\ fids'[x].parent = fids[x].parent /\ fids'[x].cnext = fids[x].cnext
                      /\ fids'[x].mem = fids[x].mem /\ fids'[x].refs = fids[x].refs
                      /\ fids'[x].children = (IF x = d THEN o ELSE fids[x].children)
                      /\ InUse(x)' <=> InUse(x)
  BY <1>3, <1>4, <1>5 DEF SetChildren, SameFile, InUse
<1>10. \A x \in Objs : (On(x)' <=> On(x) \/ x = o) /\ (On(x) => x # o)
  <2>1. ~Fresh(o)' /\ Fresh(o)
    <3>1. \A p \in Procs : pc'[p] \in Pushing => p # q /\ l'[p].new = l[p].new
      BY <1>3 DEF GaveUp, Others, Pushing
    <3>2. Fresh(o)
      BY <1>3, <1>4 DEF Fresh, Pushing
    <3> QED BY <1>6, <3>1, <3>2 DEF Fresh
  <2>2. \A x \in Objs : x # o => (Fresh(x)' <=> Fresh(x))
    <3> SUFFICES ASSUME NEW x \in Objs, x # o PROVE Fresh(x)' <=> Fresh(x)
      OBVIOUS
    <3>1. \A p \in Procs : (pc'[p] \in Pushing /\ l'[p].new = x) <=> (pc[p] \in Pushing /\ l[p].new = x)
      <4>1. ~(pc'[q] \in Pushing) /\ l[q].new # x
        BY <1>3, <1>4 DEF GaveUp, Pushing
      <4> QED BY <1>3, <4>1 DEF Others
    <3> QED BY <3>1 DEF Fresh
  <2>3. fids[o].mem # "new"
    BY <1>3, <1>4, <1>6 DEF BaseInv, KnownInv, Known
  <2> QED BY <1>6, <1>9, <2>1, <2>2, <2>3 DEF On
<1>11. /\ \A x \in Objs : fids[x].children # o /\ fids[x].cnext # o
       /\ \A p \in Procs : l[p].n # o
  BY <1>6 DEF Seen
<1>12. ASSUME NEW x \in Objs, x # o, NEW y \in Some, y # o, Passes(age, x, y) PROVE Passes(new, x, y)'
  <2>1. y # None => new[y] < new[x]
    BY <1>8, <1>12 DEF Passes, Some
  <2>2. ASSUME NEW w \in Objs, On(w)', InUse(w)', fids'[w].parent = fids'[x].parent, new[w] < new[x]
        PROVE  y # None /\ new[y] >= new[w]
    <3>1. w # o
      BY <1>7, <1>8, <1>12, <2>2
    <3>2. y # None /\ age[y] >= age[w]
      BY <1>8, <1>9, <1>10, <1>12, <2>2, <3>1 DEF Passes, Leads
    <3> QED BY <1>8, <1>12, <3>1, <3>2 DEF Some
  <2> QED BY <2>1, <2>2 DEF Passes, Leads
<1>13. \A x \in Objs : fids[x].cnext \in Some /\ fids[x].children \in Some
  BY DEF BaseInv, TypeInv, FidType
<1>14. \A x, y \in Objs : On(x)' /\ On(y)' /\ new[x] = new[y] => x = y
  <2> SUFFICES ASSUME NEW x \in Objs, NEW y \in Objs, On(x)', On(y)', new[x] = new[y] PROVE x = y
    OBVIOUS
  <2>1. CASE x # o /\ y # o
    BY <1>2, <1>8, <1>10, <2>1 DEF Ordered
  <2>2. CASE x = o \/ y = o
    BY <1>7, <1>8, <2>2
  <2> QED BY <2>1, <2>2
<1>15. ASSUME NEW x \in Objs, On(x)' PROVE Passes(new, x, fids[x].cnext)'
  <2>1. CASE x # o
    <3>1. PICK y \in Some : y = fids[x].cnext /\ y # o
      BY <1>11, <1>13
    <3>2. Passes(age, x, y)
      BY <1>2, <1>10, <1>15, <2>1, <3>1 DEF Ordered
    <3>3. Passes(new, x, y)'
      BY <1>12, <2>1, <3>1, <3>2
    <3> QED BY <1>9, <3>1, <3>3
  <2>2. CASE x = o
    <3>1. PICK y \in Some : y = fids[o].cnext /\ y # o /\ y = fids[d].children
      BY <1>3, <1>4, <1>5, <1>11, <1>13
    <3>2. y # None => new[y] < new[o]
      BY <1>7, <1>8, <3>1 DEF Some
    <3>3. ASSUME NEW w \in Objs, On(w)', InUse(w)', fids'[w].parent = fids'[o].parent, new[w] < new[o]
          PROVE  y # None /\ new[y] >= new[w]
      <4>1. w # o
        BY <1>7, <1>8, <3>3
      <4>2. y # None /\ age[y] >= age[w]
        BY <1>2, <1>6, <1>9, <1>10, <3>1, <3>3, <4>1 DEF Ordered, Leads
      <4> QED BY <1>8, <3>1, <4>1, <4>2 DEF Some
    <3>4. Passes(new, o, y)'
      BY <3>2, <3>3 DEF Passes, Leads
    <3> QED BY <1>9, <2>2, <3>1, <3>4
  <2> QED BY <2>1, <2>2
<1>16. ASSUME NEW w \in Objs, On(w)', InUse(w)' PROVE Leads(new, fids[fids[w].parent].children, w)'
  <2>1. fids'[w].parent = fids[w].parent
    BY <1>9
  <2>2. CASE w = o
    BY <1>6, <1>9, <1>7, <1>8, <2>1, <2>2 DEF Leads
  <2>3. CASE w # o
    <3>1. PICK e \in Objs : e = fids[w].parent
      BY <1>10, <1>16, <2>3, LinksOn
    <3>2. PICK y \in Some : y = fids[e].children /\ y # o /\ y # None /\ age[y] >= age[w]
      BY <1>2, <1>9, <1>10, <1>11, <1>13, <1>16, <2>3, <3>1 DEF Ordered, Leads
    <3>3. fids'[e].children = IF e = d THEN o ELSE y
      BY <1>9, <3>2
    <3> QED BY <1>6, <1>7, <1>8, <2>1, <2>3, <3>1, <3>2, <3>3 DEF Leads, Some
  <2> QED BY <2>2, <2>3
<1>17. ASSUME NEW p \in Procs, pc'[p] = "cas" PROVE Passes(new, Top(p), l[p].n)'
  <2>1. p # q /\ pc[p] = "cas" /\ l'[p] = l[p]
    BY <1>3, <1>17 DEF GaveUp, Others
  <2>2. PICK x \in Objs : x = Top(p) /\ x # o
    BY <1>3, <1>4, <2>1, EndingUnused DEF Ending, Fresh, Pushing
  <2>3. PICK y \in Some : y = l[p].n /\ y # o
    BY <1>11 DEF BaseInv, TypeInv, LocalType
  <2>4. Passes(age, x, y)
    BY <1>2, <2>1, <2>2, <2>3 DEF Ordered
  <2>5. Passes(new, x, y)'
    BY <1>12, <2>2, <2>3, <2>4
  <2>6. Top(p)' = x /\ l'[p].n = y
    BY <2>1, <2>2, <2>3 DEF Top
  <2> QED BY <2>5, <2>6
<1>18. Ordered(new)'
  BY <1>14, <1>15, <1>16, <1>17 DEF Ordered
<1>19. b + 1 \in Nat /\ new \in [Objs -> 0..b + 1]
  BY <1>1, <1>7 DEF new
<1> QED BY <1>18, <1>19 DEF OrderInv

LEMMA OrderRemove ==
  ASSUME BaseInv, CoreInv, RootInv, OrderInv, NEW q \in Procs, Remove(q)
  PROVE  OrderInv'
<1>1. PICK b \in Nat : \E age \in [Objs -> 0..b] : Ordered(age)
  BY DEF OrderInv
<1>2. PICK age \in [Objs -> 0..b] : Ordered(age)
  BY <1>1
<1>3. /\ pc[q] = "cas" /\ Top(q) \in Objs /\ fids[Top(q)].parent \in Objs /\ WentUp(q) /\ Others(q)
      /\ \/ /\ fids[fids[Top(q)].parent].children = Top(q)
            /\ SetChildren(fids[Top(q)].parent, l[q].n)
         \/ /\ l[q].p \in Objs /\ fids[l[q].p].cnext = Top(q)
            /\ SetCnext(l[q].p, l[q].n)
  BY RemoveHere DEF WentUp
<1>4. PICK o \in Objs : o = Top(q)
  BY <1>3
<1>5. PICK n \in Some : n = l[q].n
  BY DEF BaseInv, TypeInv, LocalType
<1>6. PICK d \in Objs : d = fids[o].parent
  BY <1>3, <1>4
<1>7. On(o) /\ ~InUse(o) /\ o # None
  <2>1. Seen(o) /\ Known(fids, o) /\ fids[o].parent # None /\ ~InUse(o) /\ o # None
    BY <1>3, <1>4, <1>6, EndingUnused, FidAssumption DEF Seen, Ending
  <2> QED BY <2>1, OnHere
<1>8. Passes(age, o, n)
  BY <1>2, <1>3, <1>4, <1>5 DEF Ordered
<1>9. \A x \in Objs : age[x] \in Nat
  BY <1>1, <1>2
<1>10. ASSUME NEW w \in Objs, On(w), InUse(w), fids[w].parent = d, age[o] >= age[w]
       PROVE  n # None /\ age[n] >= age[w]
  <2>1. age[w] < age[o]
    BY <1>2, <1>7, <1>9, <1>10 DEF Ordered
  <2> QED BY <1>6, <1>8, <1>10, <2>1 DEF Passes, Leads
<1>11. \A x \in Objs : /\ fids'[x].parent = fids[x].parent /\ fids'[x].mem = fids[x].mem
                       /\ fids'[x].refs = fids[x].refs /\ (InUse(x)' <=> InUse(x)) /\ (On(x)' <=> On(x))
  <2>1. \A x \in Objs : /\ fids'[x].parent = fids[x].parent /\ fids'[x].mem = fids[x].mem
                        /\ fids'[x].refs = fids[x].refs
    BY <1>3 DEF SetChildren, SetCnext, SameFile
  <2>2. \A p \in Procs : (pc'[p] \in Pushing <=> pc[p] \in Pushing) /\ l'[p].new = l[p].new
    BY <1>3 DEF WentUp, Others, Pushing
  <2> QED BY <2>1, <2>2 DEF On, InUse, Fresh
<1>12. ASSUME NEW x \in Objs, NEW y, Passes(age, x, y) PROVE Passes(age, x, y)'
  BY <1>11, <1>12 DEF Passes, Leads
<1>13. ASSUME NEW p \in Procs, pc'[p] = "cas" PROVE Passes(age, Top(p), l[p].n)'
  <2>1. p # q /\ pc[p] = "cas" /\ l'[p] = l[p]
    BY <1>3, <1>13 DEF WentUp, Others
  <2>2. PICK x \in Objs : x = Top(p)
    BY <2>1, EndingUnused DEF Ending
  <2>3. Passes(age, x, l[p].n)
    BY <1>2, <2>1, <2>2 DEF Ordered
  <2>4. Top(p)' = x
    BY <2>1, <2>2 DEF Top
  <2>5. PICK y : y = l[p].n
    OBVIOUS
  <2>6. Passes(age, x, y)'
    BY <1>12, <2>3, <2>5
  <2> QED BY <2>1, <2>4, <2>5, <2>6
<1>14. \A x, y \in Objs : On(x)' /\ On(y)' /\ age[x] = age[y] => x = y
  BY <1>2, <1>11 DEF Ordered
<1>15. CASE fids[d].children = o /\ SetChildren(d, n)
  <2>1. ASSUME NEW x \in Objs, On(x)' PROVE Passes(age, x, fids[x].cnext)'
    <3>1. PICK y : y = fids[x].cnext /\ fids'[x].cnext = y
      BY <1>15 DEF SetChildren
    <3>2. Passes(age, x, y)
      BY <1>2, <1>11, <2>1, <3>1 DEF Ordered
    <3>3. Passes(age, x, y)'
      BY <1>12, <3>2
    <3> QED BY <3>1, <3>3
  <2>2. ASSUME NEW w \in Objs, On(w)', InUse(w)' PROVE Leads(age, fids[fids[w].parent].children, w)'
    <3>1. PICK e \in Objs : e = fids[w].parent /\ e = fids'[w].parent
      BY <1>11, <2>2, LinksOn
    <3>2. Leads(age, fids[e].children, w)
      BY <1>2, <1>11, <2>2, <3>1 DEF Ordered
    <3>3. fids'[e].children = IF e = d THEN n ELSE fids[e].children
      BY <1>15 DEF SetChildren
    <3>4. CASE e = d
      BY <1>10, <1>11, <1>15, <2>2, <3>1, <3>2, <3>3, <3>4 DEF Leads
    <3>5. CASE e # d
      BY <3>1, <3>2, <3>3, <3>5 DEF Leads
    <3> QED BY <3>4, <3>5
  <2> QED BY <1>1, <1>2, <1>13, <1>14, <2>1, <2>2 DEF Ordered, OrderInv
<1>16. CASE l[q].p \in Objs /\ fids[l[q].p].cnext = o /\ SetCnext(l[q].p, n)
  <2>0. PICK p \in Objs : p = l[q].p
    BY <1>16
  <2>1. ASSUME NEW x \in Objs, On(x)' PROVE Passes(age, x, fids[x].cnext)'
    <3>1. Passes(age, x, fids[x].cnext) /\ On(x)
      BY <1>2, <1>11, <2>1 DEF Ordered
    <3>2. CASE x # p
      <4>1. PICK y : y = fids[x].cnext /\ fids'[x].cnext = y
        BY <1>16, <2>0, <3>2 DEF SetCnext
      <4>2. Passes(age, x, y)'
        BY <1>12, <3>1, <4>1
      <4> QED BY <4>1, <4>2
    <3>3. CASE x = p
      <4>1. fids'[x].cnext = n /\ fids[x].cnext = o
        BY <1>16, <2>0, <3>3 DEF SetCnext
      <4>2. Passes(age, x, o) /\ age[o] < age[x] /\ fids[x].parent = d
        BY <1>6, <1>7, <3>1, <4>1, LinksOn DEF Passes
      <4>3. n # None => age[n] < age[x]
        BY <1>8, <1>9, <4>2 DEF Passes, Some
      <4>4. ASSUME NEW w \in Objs, On(w), InUse(w), fids[w].parent = d, age[w] < age[x]
            PROVE  n # None /\ age[n] >= age[w]
        BY <1>10, <4>2, <4>4 DEF Passes, Leads
      <4>5. Passes(age, x, n)
        BY <4>2, <4>3, <4>4 DEF Passes, Leads
      <4>6. Passes(age, x, n)'
        BY <1>12, <4>5
      <4> QED BY <4>1, <4>6
    <3> QED BY <3>2, <3>3
  <2>2. ASSUME NEW w \in Objs, On(w)', InUse(w)' PROVE Leads(age, fids[fids[w].parent].children, w)'
    <3>1. PICK e \in Objs : e = fids[w].parent /\ e = fids'[w].parent
      BY <1>11, <2>2, LinksOn
    <3>2. Leads(age, fids[e].children, w)
      BY <1>2, <1>11, <2>2, <3>1 DEF Ordered
    <3>3. fids'[e].children = fids[e].children
      BY <1>16 DEF SetCnext
    <3> QED BY <3>1, <3>2, <3>3 DEF Leads
  <2> QED BY <1>1, <1>2, <1>13, <1>14, <2>1, <2>2 DEF Ordered, OrderInv
<1> QED BY <1>3, <1>4, <1>5, <1>6, <1>15, <1>16

(* The other steps: q is at a fid of the list when it loads what comes next. *)
LEMMA OrderKept ==
  ASSUME BaseInv, CoreInv, RootInv, OrderInv, NEW q \in Procs, Others(q),
         pc[q] \in Pushing => pc'[q] \in Pushing /\ l'[q].new = l[q].new,
         \A x \in Objs : On(x)' => /\ fids[x].mem # "new" /\ fids'[x].cnext = fids[x].cnext
                                   /\ (InUse(x)' => InUse(x)),
         \A x \in Objs : fids[x].mem # "new" =>
           fids'[x].parent = fids[x].parent /\ fids'[x].children = fids[x].children,
         pc'[q] = "cas" => /\ pc[q] = "walk" /\ l'[q].stack = l[q].stack /\ l[q].c = Top(q)
                           /\ l'[q].n = fids[Top(q)].cnext
  PROVE  OrderInv'
<1>1. PICK b \in Nat : \E age \in [Objs -> 0..b] : Ordered(age)
  BY DEF OrderInv
<1>2. PICK age \in [Objs -> 0..b] : Ordered(age)
  BY <1>1
<1>3. \A x \in Objs : On(x)' => On(x)
  <2> SUFFICES ASSUME NEW x \in Objs, On(x)' PROVE On(x)
    OBVIOUS
  <2>1. \A p \in Procs : pc[p] \in Pushing /\ l[p].new = x => pc'[p] \in Pushing /\ l'[p].new = x
    BY DEF Others
  <2> QED BY <2>1 DEF On, Fresh
<1>4. ASSUME NEW x \in Objs, On(x)
      PROVE  fids'[fids[x].parent].children = fids[fids[x].parent].children
  <2>1. fids[x].parent \in Objs /\ Known(fids, fids[x].parent)
    BY <1>4, LinksOn DEF BaseInv, KnownInv
  <2> QED BY <2>1, FidAssumption DEF Known
<1>5. ASSUME NEW p \in Procs, pc'[p] = "cas"
      PROVE  /\ Top(p)' = Top(p) /\ fids'[Top(p)].parent = fids[Top(p)].parent
             /\ \/ pc[p] = "cas" /\ l'[p].n = l[p].n
                \/ Top(p) \in Objs /\ On(Top(p)) /\ l'[p].n = fids[Top(p)].cnext
  <2>1. /\ pc[p] \in {"walk", "cas"} /\ l'[p].stack = l[p].stack
        /\ p # q => pc[p] = "cas" /\ l'[p].n = l[p].n
    BY <1>5 DEF Others
  <2>2. PICK x \in Objs : x = Top(p) /\ Known(fids, x) /\ ~Fresh(x) /\ x # None
    BY <2>1, EndingUnused, FidAssumption DEF Ending
  <2>3. fids[x].mem # "new" /\ Top(p)' = x
    BY <2>1, <2>2 DEF Known, Top
  <2>4. CASE p # q
    BY <2>1, <2>2, <2>3, <2>4
  <2>5. CASE p = q
    <3>1. fids[x].parent # None
      BY <1>5, <2>2, <2>5 DEF BaseInv, PlaceInv, Placed
    <3>2. On(x)
      BY <2>2, <2>3, <3>1 DEF On, RootInv
    <3> QED BY <1>5, <2>2, <2>3, <2>5, <3>2
  <2> QED BY <2>4, <2>5
<1>6. \A x \in Objs : On(x)' => /\ On(x) /\ fids'[x].cnext = fids[x].cnext
                                /\ fids'[x].parent = fids[x].parent
                                /\ (InUse(x)' => InUse(x))
  BY <1>3 DEF On
<1>7. Ordered(age)'
  BY <1>2, <1>4, <1>5, <1>6, OrderStep
<1> QED BY <1>1, <1>2, <1>7 DEF OrderInv

LEMMA OrderAnswer ==
  ASSUME BaseInv, CoreInv, RootInv, OrderInv, NEW q \in Procs, NEW o \in Objs, Answer(q, o)
  PROVE  OrderInv'
<1>1. /\ pc[q] \in {"scan", "create"} /\ pc'[q] = "grow" /\ fids[o].mem = "new"
      /\ \A x \in Objs \ {o} : fids'[x] = fids[x]
      /\ Others(q) /\ l'[q].new = o
  BY AnswerHere
<1>2. Fresh(o)'
  BY <1>1 DEF Fresh, Pushing
<1>3. ASSUME NEW x \in Objs, On(x)'
      PROVE  fids[x].mem # "new" /\ fids'[x].cnext = fids[x].cnext /\ (InUse(x)' => InUse(x))
  <2>1. x # o
    BY <1>2, <1>3 DEF On
  <2> QED BY <1>1, <1>3, <2>1 DEF On, InUse
<1>4. \A x \in Objs : fids[x].mem # "new" =>
        fids'[x].parent = fids[x].parent /\ fids'[x].children = fids[x].children
  BY <1>1
<1>5. pc[q] \notin Pushing /\ pc'[q] # "cas"
  BY <1>1 DEF Pushing
<1> QED BY <1>1, <1>3, <1>4, <1>5, OrderKept

LEMMA OrderLoad ==
  ASSUME BaseInv, CoreInv, RootInv, OrderInv, NEW q \in Procs, LoadChildren(q)
  PROVE  OrderInv'
<1>1. /\ pc[q] = "load" /\ pc'[q] = "push" /\ l[q].new \in Objs
      /\ SetCnext(l[q].new, fids[l[q].fid].children) /\ Others(q) /\ l'[q].new = l[q].new
  BY LoadChildrenHere DEF Stayed, Walked
<1>2. PICK o \in Objs : o = l[q].new
  BY <1>1
<1>3. Fresh(o)'
  BY <1>1, <1>2 DEF Fresh, Pushing
<1>4. ASSUME NEW x \in Objs, On(x)'
      PROVE  fids[x].mem # "new" /\ fids'[x].cnext = fids[x].cnext /\ (InUse(x)' => InUse(x))
  <2>1. x # o
    BY <1>3, <1>4 DEF On
  <2> QED BY <1>1, <1>2, <1>4, <2>1 DEF On, InUse, SetCnext
<1>5. \A x \in Objs : fids[x].mem # "new" =>
        fids'[x].parent = fids[x].parent /\ fids'[x].children = fids[x].children
  BY <1>1 DEF SetCnext, SameFile
<1>6. pc'[q] \in Pushing /\ pc'[q] # "cas"
  BY <1>1 DEF Pushing
<1> QED BY <1>1, <1>4, <1>5, <1>6, OrderKept

(* A step that counts, or frees. *)
LEMMA OrderRefs ==
  ASSUME BaseInv, CoreInv, RootInv, OrderInv, NEW q \in Procs, Others(q),
         pc[q] \in Pushing => pc'[q] \in Pushing /\ l'[q].new = l[q].new,
         \/ fids' = fids
         \/ \E x \in Objs : InUse(x) /\ \E r : SetRefs(x, r)
         \/ \E x : SetFreed(x) /\ pc'[q] # "cas",
         pc'[q] = "cas" => /\ pc[q] = "walk" /\ l'[q].stack = l[q].stack /\ l[q].c = Top(q)
                           /\ l'[q].n = fids[Top(q)].cnext,
         \A x \in Objs : fids[x].mem = "new" => fids'[x].mem = "new"
  PROVE  OrderInv'
<1>1. \A x \in Objs : /\ fids'[x].parent = fids[x].parent /\ fids'[x].children = fids[x].children
                      /\ fids'[x].cnext = fids[x].cnext
  BY DEF SetRefs, SetFreed, SameFile
<1>2. \A x \in Objs : InUse(x)' => InUse(x)
  <2>1. CASE fids' = fids
    BY <2>1 DEF InUse
  <2>2. ASSUME NEW y \in Objs, InUse(y), NEW r, SetRefs(y, r) PROVE \A x \in Objs : InUse(x)' => InUse(x)
    BY <2>2 DEF SetRefs, InUse
  <2>3. ASSUME NEW y, SetFreed(y) PROVE \A x \in Objs : InUse(x)' => InUse(x)
    BY <2>3 DEF SetFreed, InUse
  <2> QED BY <2>1, <2>2, <2>3
<1>3. \A x \in Objs : On(x)' => fids[x].mem # "new"
  BY DEF On
<1> QED BY <1>1, <1>2, <1>3, OrderKept

(* Who is referred to is in use. *)
LEMMA ReferredInUse ==
  ASSUME BaseInv, CoreInv, NEW q \in Procs, NEW o \in Objs, Refers(q, o) \/ o = root
  PROVE  InUse(o)
<1>1. fids[o].mem = "used" /\ fids[o].refs \in Nat /\ fids[o].refs >= 1
  BY Referred DEF CoreInv
<1> QED BY <1>1 DEF InUse

LEMMA OrderNext == BaseInv /\ CoreInv /\ RootInv /\ OrderInv /\ Next /\ ~raised' => OrderInv'
<1> SUFFICES ASSUME BaseInv, CoreInv, RootInv, OrderInv, Next, ~raised' PROVE OrderInv'
  OBVIOUS
<1>1. PICK q \in Procs : Finds(q) \/ Frees(q) \/ Undefined(q)
  BY DEF Next
<1>m. (\A x, r : SetRefs(x, r) => \A y \in Objs : fids[y].mem = "new" => fids'[y].mem = "new")
      /\ (fids' = fids => \A y \in Objs : fids[y].mem = "new" => fids'[y].mem = "new")
  BY DEF SetRefs
<1> DEFINE Off == pc[q] \notin Pushing /\ pc'[q] # "cas"
<1>a. ASSUME fids' = fids, Others(q), Off PROVE OrderInv'
  BY <1>a, <1>m, OrderRefs
<1>r. ASSUME NEW x \in Objs, InUse(x), NEW r, SetRefs(x, r), Others(q), Off PROVE OrderInv'
  BY <1>r, <1>m, OrderRefs
<1>g. \A x, then, new : GaveUp(q, x, then, new) => Others(q) /\ pc'[q] # "cas"
  BY DEF GaveUp
<1>b. Returned(q) \/ WentOn(q) \/ Ended(q) => pc'[q] # "cas"
  BY DEF Returned, WentOn, Ended
<1>3. ASSUME NEW path \in Paths, NEW create \in BOOLEAN, Call(q, path, create) PROVE OrderInv'
  <2>1. SetRefs(root, Inc(fids[root].refs)) /\ Others(q) /\ Off /\ root \in Objs
    BY <1>3, CallHere DEF Pushing
  <2>2. InUse(root)
    BY <2>1, ReferredInUse
  <2> QED BY <1>r, <2>1, <2>2
<1>4. CASE Enter(q)
  <2>1. fids' = fids /\ Others(q) /\ Off
    BY <1>4, <1>g, EnterHere DEF Walked, Pushing
  <2> QED BY <1>a, <2>1
<1>5. CASE Scan(q)
  <2>1. fids' = fids /\ Others(q) /\ Off
    BY <1>5, ScanHere DEF Stayed, Walked, Pushing
  <2> QED BY <1>a, <2>1
<1>6. CASE Take(q)
  <2>1. /\ l[q].c \in Objs /\ fids[l[q].c].mem = "used" /\ SetRefs(l[q].c, Inc(fids[l[q].c].refs))
        /\ Others(q) /\ Off /\ fids[l[q].c].refs # 0
    BY <1>6, <1>g, TakeHere DEF Pushing
  <2>2. InUse(l[q].c)
    <3>1. fids[l[q].c].refs \in Nat
      BY <2>1, RefsType DEF BaseInv, TypeInv
    <3> QED BY <2>1, <3>1 DEF InUse
  <2> QED BY <1>r, <2>1, <2>2
<1>7. CASE AskFails(q)
  <2>1. fids' = fids /\ Others(q) /\ Off
    BY <1>7, <1>g, AskFailsHere DEF Pushing
  <2> QED BY <1>a, <2>1
<1>8. CASE NoChild(q)
  <2>1. fids' = fids /\ Others(q) /\ Off
    BY <1>8, <1>g, NoChildHere DEF Stayed, Walked, Pushing
  <2> QED BY <1>a, <2>1
<1>9. ASSUME NEW o \in Objs, Answer(q, o) PROVE OrderInv'
  BY <1>9, OrderAnswer
<1>10. CASE NoMemory(q)
  <2>1. fids' = fids /\ Others(q) /\ Off
    BY <1>10, <1>g, NoMemoryHere DEF Pushing
  <2> QED BY <1>a, <2>1
<1>11. CASE Grow(q)
  <2>1. /\ pc'[q] = "load" /\ l[q].fid \in Objs /\ l'[q].new = l[q].new
        /\ SetRefs(l[q].fid, Inc(fids[l[q].fid].refs)) /\ Others(q)
    BY <1>11, GrowHere DEF Stayed, Walked
  <2>2. InUse(l[q].fid)
    BY <2>1, ReferredInUse DEF Refers
  <2>3. pc'[q] \in Pushing /\ pc'[q] # "cas"
    BY <2>1 DEF Pushing
  <2> QED BY <1>m, <2>1, <2>2, <2>3, OrderRefs
<1>12. CASE LoadChildren(q)
  BY <1>12, OrderLoad
<1>13. CASE Push(q)
  BY <1>13, OrderPush
<1>14. CASE PushFails(q)
  <2>1. pc'[q] = "load" /\ fids' = fids /\ l'[q].new = l[q].new /\ Others(q)
    BY <1>14, PushFailsHere DEF Stayed, Walked
  <2>2. pc'[q] \in Pushing /\ pc'[q] # "cas"
    BY <2>1 DEF Pushing
  <2> QED BY <1>m, <2>1, <2>2, OrderRefs
<1>15. CASE Drop(q)
  <2>1. fids' = fids /\ Others(q) /\ Off
    BY <1>15, <1>g, DropHere DEF Pushing
  <2> QED BY <1>a, <2>1
<1>16. CASE Dec(q)
  <2>1. /\ pc[q] = "dec" /\ Top(q) \in Objs /\ SetRefs(Top(q), Less(fids[Top(q)].refs)) /\ Others(q) /\ Off
    BY <1>16, <1>b, DecHere DEF Pushing
  <2>2. InUse(Top(q))
    BY <2>1, ReferredInUse DEF Refers
  <2> QED BY <1>r, <2>1, <2>2
<1>17. CASE Clunk(q)
  <2>1. fids' = fids /\ Others(q) /\ Off
    BY <1>17, ClunkHere DEF Pushing
  <2> QED BY <1>a, <2>1
<1>18. CASE FindChild(q)
  <2>1. fids' = fids /\ Others(q) /\ Off
    BY <1>18, FindChildHere DEF Walked, Pushing
  <2> QED BY <1>a, <2>1
<1>19. CASE WalkChild(q)
  <2>1. /\ pc[q] = "walk" /\ fids' = fids /\ Others(q) /\ l'[q].stack = l[q].stack
        /\ pc'[q] = "cas" => l[q].c = Top(q) /\ l'[q].n = fids[Top(q)].cnext
    BY <1>19, WalkChildHere DEF Walked
  <2>2. pc[q] \notin Pushing
    BY <2>1 DEF Pushing
  <2> QED BY <1>m, <2>1, <2>2, OrderRefs
<1>20. CASE NotFound(q)
  <2>1. fids' = fids /\ Others(q) /\ Off
    BY <1>20, NotFoundHere DEF WentUp, Pushing
  <2> QED BY <1>a, <2>1
<1>21. CASE Remove(q)
  BY <1>21, OrderRemove
<1>22. CASE RemoveFails(q)
  <2>1. fids' = fids /\ Others(q) /\ Off
    BY <1>22, RemoveFailsHere DEF Walked, Pushing
  <2> QED BY <1>a, <2>1
<1>23. CASE Free(q)
  <2>1. pc[q] = "free" /\ SetFreed(Top(q)) /\ Others(q) /\ Off /\ Top(q) \in Objs
    BY <1>23, <1>b, FreeHere DEF Pushing
  <2>2. fids[Top(q)].mem = "used"
    BY <2>1, EndingHere DEF CoreInv, Ending
  <2>3. \A y \in Objs : fids[y].mem = "new" => fids'[y].mem = "new"
    BY <2>1, <2>2 DEF SetFreed
  <2> QED BY <2>1, <2>3, OrderRefs
<1>24. CASE Undefined(q)
  BY <1>24 DEF Undefined, OrderInv, Ordered, Passes, Leads, On, InUse, Fresh, Top
<1> QED BY <1>1, <1>3, <1>4, <1>5, <1>6, <1>7, <1>8, <1>9, <1>10, <1>11, <1>12, <1>13, <1>14, <1>15,
           <1>16, <1>17, <1>18, <1>19, <1>20, <1>21, <1>22, <1>23, <1>24 DEF Finds, Frees

-----------------------------------------------------------------------------
(* What the server was told. *)

(* A fid has its file and parent from the answer that made it. *)
LEMMA FilesStay ==
  ASSUME BaseInv, CoreInv, NEW q \in Procs, Finds(q) \/ Frees(q) \/ Undefined(q)
  PROVE  \/ \E o \in Objs : Answer(q, o)
         \/ \A x \in Objs : /\ SameFile(x)
                            /\ \/ fids'[x].mem = fids[x].mem
                               \/ fids[x].mem = "used" /\ fids'[x].mem = "freed"
<1> DEFINE Stays == \A x \in Objs : /\ SameFile(x)
                                    /\ \/ fids'[x].mem = fids[x].mem
                                       \/ fids[x].mem = "used" /\ fids'[x].mem = "freed"
<1>1. fids' = fids => Stays
  BY DEF SameFile
<1>2. /\ \A x, r : SetRefs(x, r) => Stays
      /\ \A x, y : SetChildren(x, y) => Stays
      /\ \A x, y : SetCnext(x, y) => Stays
      /\ \A x : SetFreed(x) /\ fids[x].mem = "used" => Stays
  BY DEF SetRefs, SetChildren, SetCnext, SetFreed
<1> HIDE DEF Stays
<1>3. ASSUME NEW path \in Paths, NEW create \in BOOLEAN, Call(q, path, create) PROVE Stays
  BY <1>2, <1>3, CallHere
<1>4. ASSUME Enter(q) \/ Scan(q) \/ AskFails(q) \/ NoChild(q) \/ NoMemory(q) \/ PushFails(q) \/ Drop(q) PROVE Stays
  BY <1>1, <1>4 DEF Enter, Scan, AskFails, NoChild, NoMemory, PushFails, Drop
<1>5. ASSUME Clunk(q) \/ FindChild(q) \/ WalkChild(q) \/ NotFound(q) \/ RemoveFails(q) \/ Undefined(q) PROVE Stays
  BY <1>1, <1>5 DEF Clunk, FindChild, WalkChild, NotFound, RemoveFails, Undefined
<1>6. ASSUME Take(q) PROVE Stays
  BY <1>2, <1>6, TakeHere
<1>7. ASSUME Grow(q) PROVE Stays
  BY <1>2, <1>7, GrowHere
<1>8. ASSUME LoadChildren(q) PROVE Stays
  BY <1>2, <1>8, LoadChildrenHere
<1>9. ASSUME Push(q) PROVE Stays
  BY <1>2, <1>9, PushHere
<1>10. ASSUME Dec(q) PROVE Stays
  BY <1>2, <1>10, DecHere
<1>11. ASSUME Remove(q) PROVE Stays
  BY <1>2, <1>11, RemoveHere
<1>12. ASSUME Free(q) PROVE Stays
  <2>1. SetFreed(Top(q)) /\ fids[Top(q)].mem = "used"
    BY <1>12, FreeHere, EndingHere DEF Ending, CoreInv
  <2> QED BY <1>2, <2>1
<1>13. Stays \/ \E o \in Objs : Answer(q, o)
  BY <1>3, <1>4, <1>5, <1>6, <1>7, <1>8, <1>9, <1>10, <1>11, <1>12 DEF Finds, Frees
<1> QED BY <1>13 DEF Stays

LEMMA RootNext == BaseInv /\ CoreInv /\ RootInv /\ Next => RootInv'
<1> SUFFICES ASSUME BaseInv, CoreInv, RootInv, Next PROVE RootInv'
  OBVIOUS
<1>0. root \in Objs
  BY FidAssumption
<1>1. PICK q \in Procs : Finds(q) \/ Frees(q) \/ Undefined(q)
  BY DEF Next
<1>2. CASE \E o \in Objs : Answer(q, o)
  <2>1. PICK o \in Objs : Answer(q, o)
    BY <1>2
  <2>2. /\ l[q].fid \in Objs /\ fids[o].mem = "new"
        /\ fids'[o] = NewFid(File(q), Head(l[q].path), l[q].fid)
        /\ \A x \in Objs \ {o} : fids'[x] = fids[x]
    BY <2>1, AnswerHere
  <2>3. fids'[o].parent \in Objs
    BY <2>2 DEF NewFid
  <2>4. o # root
    BY <1>0, <2>2, FidAssumption DEF BaseInv, KnownInv, Known
  <2> QED BY <1>0, <2>2, <2>3, <2>4 DEF RootInv
<1>3. CASE \A x \in Objs : /\ SameFile(x)
                           /\ \/ fids'[x].mem = fids[x].mem
                              \/ fids[x].mem = "used" /\ fids'[x].mem = "freed"
  BY <1>0, <1>3 DEF RootInv, SameFile
<1> QED BY <1>1, <1>2, <1>3, FilesStay

LEMMA KeptFinite ==
  ASSUME NEW f
  PROVE  IsFiniteSet(Kept(f)) /\ Cardinality(Kept(f)) \in Nat
<1>1. Kept(f) \subseteq Objs /\ IsFiniteSet(Objs)
  BY FewReferences DEF Kept
<1> QED BY <1>1, FS_Subset, FS_CardinalityType

(* Who was told stays told until the fid is freed. *)
StillTold(q) ==
  \A i \in DOMAIN l[q].stack : ToldAt(q, i) /\ fids'[l[q].stack[i]].mem = "used" =>
    \E j \in DOMAIN l'[q].stack : ToldAt(q, j)' /\ l'[q].stack[j] = l[q].stack[i]

LEMMA ToldStays ==
  ASSUME NEW q \in Procs, Others(q), StillTold(q), NEW x, Told(x), fids'[x].mem = "used"
  PROVE  Told(x)'
<1>1. PICK p \in Procs : \E i \in DOMAIN l[p].stack : l[p].stack[i] = x /\ ToldAt(p, i)
  BY DEF Told
<1>2. PICK i \in DOMAIN l[p].stack : l[p].stack[i] = x /\ ToldAt(p, i)
  BY <1>1
<1>3. CASE p = q
  BY <1>2, <1>3 DEF StillTold, Told
<1>4. CASE p # q
  BY <1>2, <1>4 DEF Others, Told, ToldAt
<1> QED BY <1>3, <1>4

LEMMA ServeStep ==
  ASSUME ServeInv, NEW q \in Procs, Others(q), StillTold(q),
         served' \in [Files -> Int], \A f \in Files : served'[f] >= served[f],
         \A x \in Objs : SameFile(x) /\ (fids'[x].mem = "used" => fids[x].mem = "used")
  PROVE  ServeInv'
<1>1. ASSUME NEW f \in Files PROVE served'[f] >= Cardinality(Kept(f)')
  <2>1. Kept(f)' \subseteq Kept(f)
    BY ToldStays DEF Kept, SameFile
  <2>2. Cardinality(Kept(f)') <= Cardinality(Kept(f)) /\ Cardinality(Kept(f)') \in Nat /\ Cardinality(Kept(f)) \in Nat
    BY <2>1, KeptFinite, FS_Subset, FS_CardinalityType
  <2> QED BY <2>2 DEF ServeInv
<1> QED BY <1>1 DEF ServeInv

LEMMA ServeAnswer ==
  ASSUME BaseInv, ServeInv, NEW q \in Procs, NEW o \in Objs, Answer(q, o)
  PROVE  ServeInv'
<1>1. /\ pc[q] \in {"scan", "create"} /\ pc'[q] = "grow" /\ fids[o].mem = "new"
      /\ fids'[o] = NewFid(File(q), Head(l[q].path), l[q].fid)
      /\ \A x \in Objs \ {o} : fids'[x] = fids[x]
      /\ Others(q) /\ l'[q].stack = l[q].stack /\ File(q) \in Files
  BY AnswerHere
<1>2. PICK g \in Files : g = File(q)
  BY <1>1
<1>3. served' = [served EXCEPT ![g] = served[g] + 1] /\ served \in [Files -> Int]
  BY <1>2 DEF Answer, ServeInv
<1>4. \A x : Told(x) => Told(x)'
  <2>1. \A p \in Procs : l'[p].stack = l[p].stack /\ \A i : ToldAt(p, i) => ToldAt(p, i)'
    BY <1>1 DEF Others, ToldAt
  <2> QED BY <2>1 DEF Told
<1>5. ASSUME NEW f \in Files PROVE served'[f] >= Cardinality(Kept(f)')
  <2>1. Kept(f)' \subseteq Kept(f) \cup (IF f = g THEN {o} ELSE {})
    <3>1. fids'[o].file = g
      BY <1>1, <1>2 DEF NewFid
    <3> QED BY <1>1, <1>4, <3>1 DEF Kept
  <2>2. IsFiniteSet(Kept(f)) /\ Cardinality(Kept(f)) \in Nat /\ served[f] \in Int /\ served[f] >= Cardinality(Kept(f))
    BY <1>3, KeptFinite DEF ServeInv
  <2>3. CASE f = g
    <3>1. /\ IsFiniteSet(Kept(f) \cup {o}) /\ Cardinality(Kept(f) \cup {o}) \in Nat
          /\ Cardinality(Kept(f) \cup {o}) <= Cardinality(Kept(f)) + 1
      <4>1. /\ IsFiniteSet(Kept(f) \cup {o})
            /\ Cardinality(Kept(f) \cup {o}) = IF o \in Kept(f) THEN Cardinality(Kept(f)) ELSE Cardinality(Kept(f)) + 1
        BY <2>2, FS_AddElement
      <4> QED BY <2>2, <4>1, FS_CardinalityType
    <3>2. Cardinality(Kept(f)') <= Cardinality(Kept(f) \cup {o}) /\ Cardinality(Kept(f)') \in Nat
      BY <2>1, <2>3, <3>1, FS_Subset, FS_CardinalityType
    <3> QED BY <1>3, <2>2, <2>3, <3>1, <3>2
  <2>4. CASE f # g
    <3>1. Cardinality(Kept(f)') <= Cardinality(Kept(f)) /\ Cardinality(Kept(f)') \in Nat
      BY <2>1, <2>2, <2>4, FS_Subset, FS_CardinalityType
    <3> QED BY <1>3, <2>2, <2>4, <3>1
  <2> QED BY <2>3, <2>4
<1> QED BY <1>3, <1>5 DEF ServeInv

(* The one who clunks a fid is the only one to tell the server of it. *)
LEMMA ServeClunk ==
  ASSUME BaseInv, CoreInv, ServeInv, NEW q \in Procs, Clunk(q)
  PROVE  ServeInv'
<1>1. /\ pc[q] = "clunk" /\ Top(q) \in Objs /\ pc'[q] \in {"free", "find"}
      /\ fids' = fids /\ l'[q].stack = l[q].stack /\ Others(q)
  BY ClunkHere DEF Stayed, Walked
<1>2. PICK o \in Objs : o = Top(q)
  BY <1>1
<1>3. /\ o = l[q].stack[1] /\ 1 \in DOMAIN l[q].stack /\ Doomed(q, 1) /\ fids[o].mem = "used"
  BY <1>1, <1>2, EndingHere DEF CoreInv, Ending
<1>4. StillTold(q)
  BY <1>1 DEF StillTold, ToldAt
<1>5. ~Told(o) /\ Told(o)'
  <2>1. ASSUME NEW p \in Procs, NEW i \in DOMAIN l[p].stack, l[p].stack[i] = o, ToldAt(p, i) PROVE FALSE
    <3>1. Doomed(p, i)
      BY <2>1 DEF Doomed, ToldAt, Ending
    <3>2. p = q /\ i = 1
      BY <1>3, <2>1, <3>1 DEF CoreInv, FreeInv
    <3> QED BY <1>1, <2>1, <3>2 DEF ToldAt
  <2>2. ToldAt(q, 1)'
    BY <1>1 DEF ToldAt
  <2>3. Told(o)'
    BY <1>1, <1>3, <2>2 DEF Told
  <2> QED BY <2>1, <2>3 DEF Told
<1>6. CASE served' = served
  <2>1. \A f \in Files : served'[f] >= served[f]
    BY <1>6 DEF ServeInv
  <2> QED BY <1>1, <1>4, <1>6, <2>1, ServeStep DEF ServeInv, SameFile
<1>7. CASE served' = [served EXCEPT ![fids[o].file] = served[fids[o].file] - 1]
  <2>0. served \in [Files -> Int] /\ served' \in [Files -> Int]
    <3>1. served \in [Files -> Int]
      BY DEF ServeInv
    <3>2. \A f \in Files : served[f] \in Int /\ served[f] - 1 \in Int
      BY <3>1
    <3> QED BY <1>7, <3>1, <3>2
  <2>1. ASSUME NEW f \in Files PROVE served'[f] >= Cardinality(Kept(f)')
    <3>1. Kept(f)' \subseteq Kept(f) \ {o}
      <4>1. \A x \in Objs : Told(x) /\ fids'[x].mem = "used" => Told(x)'
        BY <1>1, <1>4, ToldStays
      <4>2. Kept(f)' \subseteq Kept(f)
        BY <1>1, <4>1 DEF Kept
      <4>3. o \notin Kept(f)'
        BY <1>5 DEF Kept
      <4> QED BY <4>2, <4>3
    <3>2. IsFiniteSet(Kept(f)) /\ Cardinality(Kept(f)) \in Nat /\ served[f] \in Int /\ served[f] >= Cardinality(Kept(f))
      BY <2>0, KeptFinite DEF ServeInv
    <3>3. /\ IsFiniteSet(Kept(f) \ {o}) /\ Cardinality(Kept(f) \ {o}) \in Nat
          /\ Cardinality(Kept(f) \ {o}) = IF o \in Kept(f) THEN Cardinality(Kept(f)) - 1 ELSE Cardinality(Kept(f))
      BY <3>2, FS_RemoveElement, FS_CardinalityType
    <3>4. Cardinality(Kept(f)') <= Cardinality(Kept(f) \ {o}) /\ Cardinality(Kept(f)') \in Nat
      BY <3>1, <3>3, FS_Subset, FS_CardinalityType
    <3>5. f = fids[o].file => o \in Kept(f)
      BY <1>3, <1>5 DEF Kept
    <3>6. served'[f] = IF f = fids[o].file THEN served[f] - 1 ELSE served[f]
      BY <1>7, <2>0
    <3> QED BY <3>2, <3>3, <3>4, <3>5, <3>6
  <2> QED BY <2>0, <2>1 DEF ServeInv
<1>8. \/ served' = [served EXCEPT ![fids[o].file] = served[fids[o].file] - 1]
      \/ served' = served
  BY <1>2 DEF Clunk
<1> QED BY <1>6, <1>7, <1>8

(* The stacks of the steps: one that is going to be freed stays above or    *)
(* becomes the first at "free".                                            *)
LEMMA ToldStack ==
  ASSUME BaseInv, NEW q \in Procs
  PROVE  /\ pc[q] \notin Giving => StillTold(q)
         /\ l'[q].stack = l[q].stack /\ (pc'[q] = "clunk" => pc[q] = "dec") /\ pc'[q] \in Ending => StillTold(q)
         /\ pc[q] \in {"walk", "cas"} /\ WentUp(q) => StillTold(q)
         /\ pc[q] = "dec" /\ (Returned(q) \/ WentOn(q) \/ Ended(q)) => StillTold(q)
         /\ pc[q] = "free" /\ fids'[Top(q)].mem = "freed" /\ (Returned(q) \/ WentOn(q) \/ Ended(q)) => StillTold(q)
<1>0. l[q].stack \in Seq(Objs) /\ Len(l[q].stack) \in Nat /\ DOMAIN l[q].stack = 1..Len(l[q].stack)
  BY DEF BaseInv, TypeInv, LocalType
<1>1. ASSUME pc[q] \notin Giving PROVE StillTold(q)
  <2>1. l[q].stack = <<>>
    BY <1>1 DEF BaseInv, PlaceInv, Placed
  <2> QED BY <2>1 DEF StillTold
<1>2. ASSUME l'[q].stack = l[q].stack, pc'[q] = "clunk" => pc[q] = "dec", pc'[q] \in Ending PROVE StillTold(q)
  BY <1>2 DEF StillTold, ToldAt, Ending
<1>3. ASSUME pc[q] \in {"walk", "cas"}, WentUp(q) PROVE StillTold(q)
  <2>1. PICK d \in Objs : d = fids[Top(q)].parent
    BY <1>3, Here
  <2>2. l'[q].stack = <<d>> \o l[q].stack
    BY <1>3, <2>1 DEF WentUp
  <2>3. \A i \in 1..Len(l[q].stack) : i + 1 > 1 /\ i + 1 \in 1..Len(l[q].stack) + 1
    BY <1>0
  <2>4. \A i \in DOMAIN l[q].stack : i + 1 \in DOMAIN l'[q].stack /\ l'[q].stack[i + 1] = l[q].stack[i]
    BY <1>0, <2>2
  <2>5. \A i \in DOMAIN l[q].stack : ToldAt(q, i + 1)'
    BY <1>0, <2>3 DEF ToldAt
  <2> QED BY <2>4, <2>5 DEF StillTold
<1>4. ASSUME NEW i \in DOMAIN l[q].stack, i > 1, Returned(q) \/ WentOn(q) \/ Ended(q)
      PROVE  \E j \in DOMAIN l'[q].stack : ToldAt(q, j)' /\ l'[q].stack[j] = l[q].stack[i]
  <2>0. Len(l[q].stack) # 1
    <3>1. i \in 1..Len(l[q].stack) /\ i > 1
      BY <1>0, <1>4
    <3>2. \A k \in Nat : \A j \in 1..k : j > 1 => k # 1
      OBVIOUS
    <3> QED BY <1>0, <3>1, <3>2
  <2>1. ~(WentOn(q) \/ Ended(q))
    BY <2>0 DEF WentOn, Ended
  <2>2. /\ pc'[q] = "free" /\ DOMAIN l'[q].stack = 1..Len(l[q].stack) - 1
        /\ \A j \in DOMAIN l'[q].stack : l'[q].stack[j] = l[q].stack[j + 1]
    BY <1>4, <2>1, StackStep DEF Returned
  <2>3. i - 1 \in 1..Len(l[q].stack) - 1 /\ (i - 1) + 1 = i
    BY <1>0, <1>4
  <2>4. ToldAt(q, i - 1)'
    BY <2>2 DEF ToldAt
  <2>5. l'[q].stack[i - 1] = l[q].stack[i]
    BY <2>2, <2>3
  <2> QED BY <2>2, <2>3, <2>4, <2>5
<1>5. ASSUME pc[q] = "dec", Returned(q) \/ WentOn(q) \/ Ended(q) PROVE StillTold(q)
  BY <1>4, <1>5 DEF StillTold, ToldAt
<1>6. ASSUME pc[q] = "free", fids'[Top(q)].mem = "freed", Returned(q) \/ WentOn(q) \/ Ended(q) PROVE StillTold(q)
  <2>1. Top(q) = l[q].stack[1]
    BY <1>6, TopHere DEF Giving, Ending
  <2>2. \A i \in DOMAIN l[q].stack : i = 1 \/ i > 1
    BY <1>0
  <2> QED BY <1>4, <1>6, <2>1, <2>2 DEF StillTold
<1> QED BY <1>1, <1>2, <1>3, <1>5, <1>6

LEMMA ServeNext == BaseInv /\ CoreInv /\ ServeInv /\ Next => ServeInv'
<1> SUFFICES ASSUME BaseInv, CoreInv, ServeInv, Next PROVE ServeInv'
  OBVIOUS
<1>1. PICK q \in Procs : Finds(q) \/ Frees(q) \/ Undefined(q)
  BY DEF Next
<1>2. CASE \E o \in Objs : Answer(q, o)
  BY <1>2, ServeAnswer
<1>3. ASSUME \A x \in Objs : /\ SameFile(x)
                             /\ \/ fids'[x].mem = fids[x].mem
                                \/ fids[x].mem = "used" /\ fids'[x].mem = "freed"
      PROVE ServeInv'
  <2>0. \A x \in Objs : SameFile(x) /\ (fids'[x].mem = "used" => fids[x].mem = "used")
    BY <1>3
  <2>s. ASSUME Others(q), StillTold(q), served' = served PROVE ServeInv'
    <3>1. served' \in [Files -> Int] /\ \A f \in Files : served'[f] >= served[f]
      BY <2>s DEF ServeInv
    <3> QED BY <2>0, <2>s, <3>1, ServeStep
  <2>g. \A x, then, new : GaveUp(q, x, then, new) => Others(q)
    BY DEF GaveUp
  <2>3. ASSUME NEW path \in Paths, NEW create \in BOOLEAN, Call(q, path, create) PROVE ServeInv'
    BY <2>3, <2>s, CallHere, ToldStack DEF Call, Giving, Ending
  <2>4. CASE Enter(q)
    BY <2>4, <2>s, <2>g, EnterHere, ToldStack DEF Enter, Walked, Giving, Ending
  <2>5. CASE Scan(q)
    BY <2>5, <2>s, ScanHere, ToldStack DEF Scan, Stayed, Walked, Giving, Ending
  <2>6. CASE Take(q)
    BY <2>6, <2>s, <2>g, TakeHere, ToldStack DEF Take, Giving, Ending
  <2>7. CASE AskFails(q)
    BY <2>7, <2>s, <2>g, AskFailsHere, ToldStack DEF AskFails, Giving, Ending
  <2>8. CASE NoChild(q)
    BY <2>8, <2>s, <2>g, NoChildHere, ToldStack DEF NoChild, Stayed, Walked, Giving, Ending
  <2>10. CASE NoMemory(q)
    <3>1. Others(q) /\ pc[q] \notin Giving /\ fids' = fids
      BY <2>10, <2>g, NoMemoryHere DEF Giving, Ending
    <3>2. served' \in [Files -> Int] /\ \A f \in Files : served'[f] >= served[f]
      <4>1. served' = [served EXCEPT ![File(q)] = served[File(q)] + 1] /\ served \in [Files -> Int]
        BY <2>10 DEF NoMemory, ServeInv
      <4>2. \A f \in Files : served[f] \in Int /\ served[f] + 1 \in Int /\ served[f] + 1 >= served[f] /\ served[f] >= served[f]
        BY <4>1
      <4> QED BY <4>1, <4>2
    <3> QED BY <2>0, <3>1, <3>2, ToldStack, ServeStep
  <2>11. CASE Grow(q)
    BY <2>11, <2>s, GrowHere, ToldStack DEF Grow, Giving, Ending
  <2>12. CASE LoadChildren(q)
    BY <2>12, <2>s, LoadChildrenHere, ToldStack DEF LoadChildren, Giving, Ending
  <2>13. CASE Push(q)
    BY <2>13, <2>s, <2>g, PushHere, ToldStack DEF Push, Giving, Ending
  <2>14. CASE PushFails(q)
    BY <2>14, <2>s, PushFailsHere, ToldStack DEF PushFails, Giving, Ending
  <2>15. CASE Drop(q)
    BY <2>15, <2>s, <2>g, DropHere, ToldStack DEF Drop, Giving, Ending
  <2>16. CASE Dec(q)
    <3>1. Others(q) /\ pc[q] = "dec" /\ served' = served
      BY <2>16, DecHere DEF Dec
    <3>2. \/ Returned(q) \/ WentOn(q) \/ Ended(q)
          \/ pc'[q] = "clunk" /\ l'[q].stack = l[q].stack
      BY <2>16, DecHere DEF Stayed, Walked
    <3>3. StillTold(q)
      BY <3>1, <3>2, ToldStack DEF Ending
    <3> QED BY <2>s, <3>1, <3>3
  <2>17. CASE Clunk(q)
    BY <2>17, ServeClunk
  <2>18. CASE FindChild(q)
    BY <2>18, <2>s, FindChildHere, ToldStack DEF FindChild, Walked, Ending
  <2>19. CASE WalkChild(q)
    <3>1. Others(q) /\ l'[q].stack = l[q].stack /\ pc'[q] \in {"walk", "cas"} /\ served' = served
      BY <2>19, WalkChildHere DEF WalkChild, Walked
    <3>2. StillTold(q)
      BY <3>1, ToldStack DEF Ending
    <3> QED BY <2>s, <3>1, <3>2
  <2>20. CASE NotFound(q)
    BY <2>20, <2>s, NotFoundHere, ToldStack DEF NotFound, WentUp
  <2>21. CASE Remove(q)
    BY <2>21, <2>s, RemoveHere, ToldStack DEF Remove, WentUp
  <2>22. CASE RemoveFails(q)
    BY <2>22, <2>s, RemoveFailsHere, ToldStack DEF RemoveFails, Walked, Ending
  <2>23. CASE Free(q)
    <3>1. /\ Others(q) /\ pc[q] = "free" /\ served' = served /\ fids'[Top(q)].mem = "freed"
          /\ Returned(q) \/ WentOn(q) \/ Ended(q)
      BY <2>23, FreeHere DEF Free, SetFreed
    <3> QED BY <2>s, <3>1, ToldStack
  <2>24. CASE Undefined(q)
    BY <2>24 DEF Undefined, ServeInv, Kept, Told, ToldAt
  <2>25. CASE \E o \in Objs : Answer(q, o)
    BY <2>25, ServeAnswer
  <2> QED BY <1>1, <2>3, <2>4, <2>5, <2>6, <2>7, <2>8, <2>10, <2>11, <2>12, <2>13, <2>14, <2>15,
             <2>16, <2>17, <2>18, <2>19, <2>20, <2>21, <2>22, <2>23, <2>24, <2>25 DEF Finds, Frees
<1> QED BY <1>1, <1>2, <1>3, FilesStay

LEMMA InitUse == Init => UseInv
<1> SUFFICES ASSUME Init PROVE UseInv
  OBVIOUS
<1>0. /\ root \in Objs /\ Root \in Files /\ None \notin Objs
      /\ \A x \in Objs : fids[x] = IF x = root THEN NewFid(Root, None, None) ELSE Unused
      /\ \A q \in Procs : pc[q] = "idle" /\ l[q] = Clear
  BY FidAssumption DEF Init
<1>1. RootInv
  BY <1>0 DEF RootInv, NewFid, Unused
<1>2. \A x \in Objs : ~On(x)
  BY <1>0 DEF On, Unused
<1>3. OrderInv
  <2>1. [x \in Objs |-> 0] \in [Objs -> 0..0] /\ 0 \in Nat
    OBVIOUS
  <2>2. Ordered([x \in Objs |-> 0])
    BY <1>0, <1>2 DEF Ordered
  <2> QED BY <2>1, <2>2 DEF OrderInv
<1>4. ServeInv
  <2>1. served = [f \in Files |-> IF f = Root THEN 1 ELSE 0]
    BY DEF Init
  <2>2. \A f : Kept(f) \subseteq (IF f = Root THEN {root} ELSE {})
    BY <1>0 DEF Kept, NewFid, Unused
  <2>3. ASSUME NEW f \in Files PROVE served[f] >= Cardinality(Kept(f))
    <3>1. IsFiniteSet({root}) /\ Cardinality({root}) = 1 /\ IsFiniteSet({}) /\ Cardinality({}) = 0
      BY FS_Singleton, FS_EmptySet
    <3>2. CASE f = Root
      <4>1. Cardinality(Kept(f)) <= 1 /\ Cardinality(Kept(f)) \in Nat
        BY <2>2, <3>1, <3>2, FS_Subset, KeptFinite
      <4> QED BY <2>1, <3>2, <4>1
    <3>3. CASE f # Root
      <4>1. Kept(f) = {}
        BY <2>2, <3>3
      <4> QED BY <2>1, <3>1, <3>3, <4>1
    <3> QED BY <3>2, <3>3
  <2> QED BY <2>1, <2>3 DEF ServeInv
<1> QED BY <1>1, <1>3, <1>4 DEF UseInv

LEMMA UseNext == BaseInv /\ CoreInv /\ UseInv /\ [Next]_vars /\ ~raised' => UseInv'
<1> SUFFICES ASSUME BaseInv, CoreInv, UseInv, [Next]_vars, ~raised' PROVE UseInv'
  OBVIOUS
<1>1. CASE Next
  BY <1>1, RootNext, OrderNext, ServeNext DEF UseInv
<1>2. CASE UNCHANGED vars
  <2>1. fids' = fids /\ l' = l /\ pc' = pc /\ served' = served
    BY <1>2 DEF vars
  <2>2. RootInv' /\ OrderInv'
    BY <2>1 DEF UseInv, RootInv, OrderInv, Ordered, Passes, Leads, On, InUse, Fresh, Top
  <2>3. ServeInv'
    BY <2>1 DEF UseInv, ServeInv, Kept, Told, ToldAt
  <2> QED BY <2>2, <2>3 DEF UseInv
<1> QED BY <1>1, <1>2

LEMMA UseInductive == Spec => [](~raised => CoreInv /\ UseInv)
<1>1. Init => (~raised => UseInv)
  BY InitUse
<1>2. BaseInv /\ (~raised => CoreInv) /\ (~raised => UseInv) /\ [Next]_vars => (~raised => UseInv)'
  BY UseNext, RaisedStays
<1> QED BY <1>1, <1>2, BaseInductive, CoreInductive, PTL DEF Spec

(* For every number of processes, fids and paths: as long as no reference  *)
(* was taken of a fid that had none, the list of a directory leads to each *)
(* of its fids that is in use, whatever is pushed and removed meanwhile    *)
(* (findfileindir(), bindingfidfree()), and the server has given out a fid *)
(* of its file for each of them that it has not been told to forget.       *)
THEOREM InUseFound == Spec => []InUseKept
<1>1. ASSUME BaseInv, ~raised => CoreInv /\ UseInv PROVE InUseKept
  <2>1. InUseIsListed
    <3> SUFFICES ASSUME ~raised, NEW x \in Objs \ {root}, fids[x].mem = "used", fids[x].refs > 0, ~Fresh(x)
                 PROVE  x \in Listed(fids[x].parent)
      BY DEF InUseIsListed, Fresh, Pushing
    <3>1. On(x) /\ InUse(x)
      BY DEF On, InUse
    <3> QED BY <1>1, <3>1, FoundOnList DEF UseInv
  <2>2. ServerKeepsInUse
    <3> SUFFICES ASSUME ~raised, NEW f \in Files
                 PROVE  served[f] >= Cardinality({x \in Objs : fids[x].mem = "used" /\ fids[x].file = f
                                                               /\ fids[x].refs > 0})
      BY DEF ServerKeepsInUse
    <3> DEFINE Used == {x \in Objs : fids[x].mem = "used" /\ fids[x].file = f /\ fids[x].refs > 0}
    <3>1. Used \subseteq Kept(f)
      <4>1. ASSUME NEW x \in Used PROVE ~Told(x)
        <5>1. fids[x].refs # 0
          BY <4>1
        <5>2. \A q \in Procs : \A i \in DOMAIN l[q].stack : ToldAt(q, i) => Doomed(q, i)
          BY DEF ToldAt, Doomed, Ending
        <5> QED BY <1>1, <5>1, <5>2, NotDoomed DEF Told, CoreInv
      <4> QED BY <4>1 DEF Kept
    <3>2. Cardinality(Used) <= Cardinality(Kept(f)) /\ Cardinality(Used) \in Nat /\ Cardinality(Kept(f)) \in Nat
      BY <3>1, KeptFinite, FS_Subset, FS_CardinalityType
    <3>3. served[f] \in Int /\ served[f] >= Cardinality(Kept(f))
      BY <1>1 DEF UseInv, ServeInv
    <3> QED BY <3>2, <3>3
  <2> QED BY <2>1, <2>2 DEF InUseKept
<1> QED BY <1>1, BaseInductive, UseInductive, PTL
=============================================================================
