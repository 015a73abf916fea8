------------------------------- MODULE Sched -------------------------------
(***************************************************************************)
(* kern/proc.c: the ready, sleeping and suspended lists, which share the   *)
(* one link field snext, and the functions that move a process between     *)
(* them.  There is one cpu.  Only the process on it takes a step, one per  *)
(* access to a list; between two steps the tick may arrive, whose handler  *)
(* runs schedule() to the end with interrupts disabled.  procwait(), and   *)
(* procsleep() and procyield() once they have turned interrupts off, run   *)
(* schedule() themselves.  procexit() and waitchild() are not here.        *)
(***************************************************************************)
EXTENDS Naturals, Sequences, FiniteSets, SequencesExt, TLC

CONSTANTS Procs,     \* process structures, all but one to be made by fork
          First,     \* the process made by initmainproc()
          Null,      \* nullproc
          None,      \* nil
          MaxSleep,  \* sleeps, and times between two ticks, are at most this
          Loads      \* what processes do and which are forked: [ops, procs]

All == Procs \cup {Null}

ASSUME SchedAssumption == /\ First \in Procs /\ Null \notin Procs
                          /\ None \notin All /\ MaxSleep \in Nat
                          /\ \A l \in Loads : /\ l.ops \subseteq {"fork", "wait", "sleep", "yield"}
                                                /\ l.procs \subseteq Procs

VARIABLES up, ready, sleeping, suspended, \* the globals of proc.c
          snext,    \* snext[p]: p->snext
          state,    \* state[p]: p->state; "unborn" before procnew()
          left,     \* left[p]: p->sleep
          offered,  \* processes a waker may find: on a lock, a pipe, ...
          pc,       \* where p is in the functions of proc.c
          tgt,      \* tgt[p]: the process they were called for
          pp,       \* pp[p]: the local pp of addtolistback, pt of removefromlist
          nx,       \* nx[p]: the value loaded for a cas
          astray,   \* processes made ready behind one that had left the list
          clash,    \* a list has been spoiled: the model ends
          load      \* the load of this behaviour

lists == <<ready, sleeping, suspended>>
locals == <<tgt, pp, nx>>
vars == <<up, lists, snext, state, left, offered, pc, locals, astray, clash, load>>

(* schedulerinit(), initmainproc(), and the first schedule(): nullproc is  *)
(* on the ready list this once.                                            *)
Init == /\ up = Null /\ ready = First /\ sleeping = None /\ suspended = None
        /\ snext = [p \in All |-> IF p = Null THEN First ELSE None]
        /\ state = [p \in All |-> IF p = Null THEN "oncpu"
                                  ELSE IF p = First THEN "ready" ELSE "unborn"]
        /\ left = [p \in All |-> 0]
        /\ offered = {}
        /\ pc = [p \in All |-> "run"]
        /\ tgt = [p \in All |-> None]
        /\ pp = tgt /\ nx = tgt
        /\ astray = {} /\ clash = FALSE
        /\ load \in Loads

-----------------------------------------------------------------------------
(* Lists as sequences, for the code that runs with interrupts disabled. *)

(* The processes met from h on; longer than the number of processes, and   *)
(* with a repetition, if the links form a cycle.                           *)
ListFrom(h) ==
  LET f[k \in 0..(Cardinality(All) + 1)] ==
        IF k = 0 THEN <<>>
        ELSE LET s == f[k - 1]
                 n == IF s = <<>> THEN h ELSE snext[Last(s)]
             IN  IF Len(s) < k - 1 \/ n = None THEN s ELSE Append(s, n)
  IN  f[Cardinality(All) + 1]

HeadOf(s) == IF s = <<>> THEN None ELSE s[1]

(* The links of the processes of s when they are on a list in that order. *)
Linked(s) == [p \in Range(s) |-> LET i == CHOOSE i \in DOMAIN s : s[i] = p
                                 IN  IF i = Len(s) THEN None ELSE s[i + 1]]

(* schedule(), entered with up->state = mine when t ticks have passed since *)
(* the last switch: up goes to the back of the ready list if it was on the  *)
(* cpu, updatesleeping() puts behind it the sleepers whose time is over,    *)
(* and nextproc() takes the front, whose link stays as it is.               *)
Schedule(mine, t) ==
  LET s == ListFrom(sleeping)
      Due(p) == left[p] <= t
      Later(p) == ~Due(p)
      stay == SelectSeq(s, Later)
      q == ListFrom(ready) \o (IF mine = "oncpu" /\ up # Null THEN <<up>> ELSE <<>>)
                           \o SelectSeq(s, Due)
      p == IF q = <<>> THEN Null ELSE q[1]
  IN  /\ up' = p
      /\ ready' = IF Len(q) < 2 THEN None ELSE q[2]
      /\ sleeping' = HeadOf(stay)
      /\ snext' = Linked(stay) @@ Linked(q) @@ snext
      /\ state' = [x \in All |-> IF x = p THEN "oncpu"
                                 ELSE IF x \in Range(q) \/ (x = up /\ mine = "oncpu") THEN "ready"
                                 ELSE IF x = up THEN mine ELSE state[x]]
      /\ left' = [x \in All |-> IF x \in Range(stay) THEN left[x] - t ELSE left[x]]
      /\ astray' = astray \ {p}

-----------------------------------------------------------------------------
At(p, label) == up = p /\ pc[p] = label /\ ~clash

Goto(p, label) == pc' = [pc EXCEPT ![p] = label]

(* p is, or is about to be, on a list that the tick would put it on again:  *)
(* in procyield() from p->snext = nil to the store of PROC_ready, and in    *)
(* procsleep() from the cas to setintr().                                   *)
Exposed(p) == \/ pc[p] \in {"load", "walk", "link", "yield"} /\ tgt[p] = p
              \/ pc[p] = "doze"

(* Mutant: the tick handler does not call schedule(). *)
TickIdle(p) == /\ up = p /\ ~clash
               /\ ~Exposed(p)
               /\ UNCHANGED vars

Tick(p) == /\ up = p /\ ~clash
           /\ ~Exposed(p)
           /\ \E t \in 0..MaxSleep : Schedule(state[p], t)
           /\ UNCHANGED <<suspended, offered, pc, locals, clash, load>>

(* What follows is a list with a cycle, or one that leads into another:    *)
(* the model ends here.                                                    *)
TickExposed(p) == /\ up = p /\ ~clash
                  /\ Exposed(p)
                  /\ clash' = TRUE
                  /\ UNCHANGED <<up, lists, snext, state, left, offered, pc, locals, astray, load>>

-----------------------------------------------------------------------------
(* What a process does in the kernel. *)

(* up makes itself known to the process that will wake it, then calls      *)
(* procwait(), as in lock(), pipedocopy() and kmessage().                  *)
Offer(p) == /\ At(p, "run") /\ p # Null
            /\ p \notin offered
            /\ offered' = offered \cup {p}
            /\ Goto(p, "wait")
            /\ UNCHANGED <<up, lists, snext, state, left, locals, astray, clash, load>>

Wait(p) == /\ At(p, "wait")
           /\ \E t \in 0..MaxSleep : Schedule("waiting", t)
           /\ Goto(p, "run")
           /\ UNCHANGED <<suspended, offered, locals, clash, load>>

(* up takes a process off where it waits, which it alone can do, and calls *)
(* procready() for it.                                                     *)
TakeWaiter(p, x) == /\ At(p, "run") /\ p # Null
                    /\ x \in offered \ {p}
                    /\ offered' = offered \ {x}
                    /\ tgt' = [tgt EXCEPT ![p] = x]
                    /\ Goto(p, "check")
                    /\ UNCHANGED <<up, lists, snext, state, left, pp, nx, astray, clash, load>>

(* sysfork(): procnew() and, after the cas, procready() of the child. *)
Fork(p, c) == /\ At(p, "run") /\ p # Null
              /\ state[c] = "unborn"
              /\ state' = [state EXCEPT ![c] = "suspend"]
              /\ tgt' = [tgt EXCEPT ![p] = c]
              /\ Goto(p, "front")
              /\ UNCHANGED <<up, lists, snext, left, offered, pp, nx, astray, clash, load>>

(* Mutant: the time is converted to ticks twice over. *)
SleepTwice(p, k) == /\ At(p, "run") /\ p # Null
                    /\ left' = [left EXCEPT ![p] = 2 * k]
                    /\ tgt' = [tgt EXCEPT ![p] = p]
                    /\ Goto(p, "front")
                    /\ UNCHANGED <<up, lists, snext, state, offered, pp, nx, astray, clash, load>>

(* procsleep() *)
SleepFor(p, k) == /\ At(p, "run") /\ p # Null
                  /\ left' = [left EXCEPT ![p] = k]
                  /\ tgt' = [tgt EXCEPT ![p] = p]
                  /\ Goto(p, "front")
                  /\ UNCHANGED <<up, lists, snext, state, offered, pp, nx, astray, clash, load>>

(* procyield() *)
Yield(p) == /\ At(p, "run") /\ p # Null
            /\ tgt' = [tgt EXCEPT ![p] = p]
            /\ Goto(p, "clear")
            /\ UNCHANGED <<up, lists, snext, state, left, offered, pp, nx, astray, clash, load>>

-----------------------------------------------------------------------------
(* addtolistfront(): on sleeping for up itself, on suspended for a child. *)

FrontOf(p) == IF tgt[p] = p THEN sleeping ELSE suspended

LoadFront(p) == /\ At(p, "front")
                /\ nx' = [nx EXCEPT ![p] = FrontOf(p)]
                /\ Goto(p, "store")
                /\ UNCHANGED <<up, lists, snext, state, left, offered, tgt, pp, astray, clash, load>>

StoreFront(p) == /\ At(p, "store")
                 /\ snext' = [snext EXCEPT ![tgt[p]] = nx[p]]
                 /\ Goto(p, "push")
                 /\ UNCHANGED <<up, lists, state, left, offered, locals, astray, clash, load>>

(* The cas has put tgt[p] in front. *)
Pushed(p) == \/ tgt[p] = p /\ sleeping' = p /\ UNCHANGED suspended /\ Goto(p, "doze")
             \/ tgt[p] # p /\ suspended' = tgt[p] /\ UNCHANGED sleeping /\ Goto(p, "check")

(* Mutant: a plain store in place of the cas.                              *)
PushBlind(p) == /\ At(p, "push")
                /\ Pushed(p)
                /\ nx' = [nx EXCEPT ![p] = None]
                /\ UNCHANGED <<up, ready, snext, state, left, offered, tgt, pp, astray, clash, load>>

Push(p) == /\ At(p, "push")
           /\ FrontOf(p) = nx[p] /\ snext[tgt[p]] = nx[p]
           /\ Pushed(p)
           /\ nx' = [nx EXCEPT ![p] = None]
           /\ UNCHANGED <<up, ready, snext, state, left, offered, tgt, pp, astray, clash, load>>

(* The cas compares the head with what was loaded; p->snext has changed    *)
(* since, because the tick has put up on the ready list in between.  The   *)
(* sleepers behind the old head are cut off: the model ends here.          *)
PushStale(p) == /\ At(p, "push")
                /\ FrontOf(p) = nx[p] /\ snext[tgt[p]] # nx[p]
                /\ clash' = TRUE
                /\ UNCHANGED <<up, lists, snext, state, left, offered, pc, locals, astray, load>>

PushFails(p) == /\ At(p, "push")
                /\ nx' = [nx EXCEPT ![p] = None]
                /\ Goto(p, "front")
                /\ UNCHANGED <<up, lists, snext, state, left, offered, tgt, pp, astray, clash, load>>

(* The end of procsleep(), with interrupts off. *)
Doze(p) == /\ At(p, "doze")
           /\ \E t \in 0..MaxSleep : Schedule("sleeping", t)
           /\ Goto(p, "run")
           /\ tgt' = [tgt EXCEPT ![p] = None]
           /\ UNCHANGED <<suspended, offered, pp, nx, clash, load>>

-----------------------------------------------------------------------------
(* procready() *)

(* Mutant: the test for PROC_ready is missing. *)
CheckNothing(p) ==
  /\ At(p, "check")
  /\ Goto(p, IF state[tgt[p]] = "suspend" THEN "remove" ELSE "mark")
  /\ UNCHANGED <<up, lists, snext, state, left, offered, locals, astray, clash, load>>

Check(p) == /\ At(p, "check")
            /\ state[tgt[p]] # "ready"
            /\ Goto(p, IF state[tgt[p]] = "suspend" THEN "remove" ELSE "mark")
            /\ UNCHANGED <<up, lists, snext, state, left, offered, locals, astray, clash, load>>

AlreadyReady(p) == /\ At(p, "check")
                   /\ state[tgt[p]] = "ready"
                   /\ Goto(p, "run")
                   /\ tgt' = [tgt EXCEPT ![p] = None]
                   /\ UNCHANGED <<up, lists, snext, state, left, offered, pp, nx, astray, clash, load>>

Mark(p) == /\ At(p, "mark")
           /\ state' = [state EXCEPT ![tgt[p]] = "ready"]
           /\ Goto(p, "clear")
           /\ UNCHANGED <<up, lists, snext, left, offered, locals, astray, clash, load>>

(* removefromlist(&suspended, p) *)

(* pp is None when the first one is p itself. *)
FindFirst(p) == /\ At(p, "remove")
             /\ pp' = [pp EXCEPT ![p] = IF suspended = tgt[p] THEN None ELSE suspended]
             /\ Goto(p, IF suspended = tgt[p] THEN "unload"
                        ELSE IF suspended = None THEN "mark" ELSE "seek")
             /\ UNCHANGED <<up, lists, snext, state, left, offered, tgt, nx, astray, clash, load>>

(* At the end of the list the result, that p is not there, is not used. *)
Seek(p) == /\ At(p, "seek")
           /\ LET n == snext[pp[p]] IN
              \/ n = tgt[p] /\ Goto(p, "unload") /\ UNCHANGED pp
              \/ n # tgt[p] /\ pp' = [pp EXCEPT ![p] = n]
                            /\ Goto(p, IF n = None THEN "mark" ELSE "seek")
           /\ UNCHANGED <<up, lists, snext, state, left, offered, tgt, nx, astray, clash, load>>

LoadLink(p) == /\ At(p, "unload")
               /\ nx' = [nx EXCEPT ![p] = snext[tgt[p]]]
               /\ Goto(p, "unlink")
               /\ UNCHANGED <<up, lists, snext, state, left, offered, tgt, pp, astray, clash, load>>

Unlink(p) == /\ At(p, "unlink")
             /\ \/ pp[p] = None /\ suspended = tgt[p]
                   /\ suspended' = nx[p] /\ UNCHANGED snext
                \/ pp[p] # None /\ snext[pp[p]] = tgt[p]
                   /\ snext' = [snext EXCEPT ![pp[p]] = nx[p]] /\ UNCHANGED suspended
             /\ nx' = [nx EXCEPT ![p] = None]
             /\ pp' = [pp EXCEPT ![p] = None]
             /\ Goto(p, "mark")
             /\ UNCHANGED <<up, ready, sleeping, state, left, offered, tgt, astray, clash, load>>

UnlinkFails(p) == /\ At(p, "unlink")
                  /\ nx' = [nx EXCEPT ![p] = None]
                  /\ pp' = [pp EXCEPT ![p] = None]
                  /\ Goto(p, "remove")
                  /\ UNCHANGED <<up, lists, snext, state, left, offered, tgt, astray, clash, load>>

-----------------------------------------------------------------------------
(* addtolistback(&ready, p) *)

Clear(p) == /\ At(p, "clear")
            /\ snext' = [snext EXCEPT ![tgt[p]] = None]
            /\ Goto(p, "load")
            /\ UNCHANGED <<up, lists, state, left, offered, locals, astray, clash, load>>

LoadReady(p) == /\ At(p, "load")
                /\ pp' = [pp EXCEPT ![p] = ready]
                /\ Goto(p, "walk")
                /\ UNCHANGED <<up, lists, snext, state, left, offered, tgt, nx, astray, clash, load>>

Walk(p) == /\ At(p, "walk")
           /\ pp[p] # None
           /\ snext[pp[p]] # None
           /\ pp' = [pp EXCEPT ![p] = snext[pp[p]]]
           /\ UNCHANGED <<up, lists, snext, state, left, offered, pc, tgt, nx, astray, clash, load>>

WalkEnds(p) == /\ At(p, "walk")
               /\ pp[p] # None => snext[pp[p]] = None
               /\ Goto(p, "link")
               /\ UNCHANGED <<up, lists, snext, state, left, offered, locals, astray, clash, load>>

(* The process appended to may have left the list since the walk found it. *)
Link(p) == /\ At(p, "link")
           /\ \/ pp[p] = None /\ ready = None /\ ready' = tgt[p] /\ UNCHANGED <<snext, astray>>
              \/ /\ pp[p] # None /\ snext[pp[p]] = None
                 /\ snext' = [snext EXCEPT ![pp[p]] = tgt[p]]
                 /\ astray' = IF pp[p] \in Range(ListFrom(ready)) THEN astray ELSE astray \cup {tgt[p]}
                 /\ UNCHANGED ready
           /\ pp' = [pp EXCEPT ![p] = None]
           /\ \/ tgt[p] = p /\ Goto(p, "yield") /\ UNCHANGED tgt
              \/ tgt[p] # p /\ Goto(p, "run") /\ tgt' = [tgt EXCEPT ![p] = None]
           /\ UNCHANGED <<up, sleeping, suspended, state, left, offered, nx, clash, load>>

LinkFails(p) == /\ At(p, "link")
                /\ pp' = [pp EXCEPT ![p] = None]
                /\ Goto(p, "load")
                /\ UNCHANGED <<up, lists, snext, state, left, offered, tgt, nx, astray, clash, load>>

(* The rest of procyield(): the store, then schedule() with interrupts off. *)
MarkYield(p) == /\ At(p, "yield")
                /\ state' = [state EXCEPT ![p] = "ready"]
                /\ tgt' = [tgt EXCEPT ![p] = None]
                /\ Goto(p, "yielded")
                /\ UNCHANGED <<up, lists, snext, left, offered, pp, nx, astray, clash, load>>

GiveUp(p) == /\ At(p, "yielded")
             /\ \E t \in 0..MaxSleep : Schedule(state[p], t)
             /\ Goto(p, "run")
             /\ UNCHANGED <<suspended, offered, locals, clash, load>>
-----------------------------------------------------------------------------
Calls(p) == \/ "wait" \in load.ops /\ Offer(p)
            \/ \E x \in Procs : TakeWaiter(p, x)
            \/ "fork" \in load.ops /\ \E c \in load.procs : Fork(p, c)
            \/ "sleep" \in load.ops /\ \E k \in 1..MaxSleep : SleepFor(p, k)
            \/ "yield" \in load.ops /\ Yield(p)

(* The steps with which up gives the cpu away. *)
Leaves(p) == Wait(p) \/ Doze(p) \/ GiveUp(p)

(* The steps on the lists, and the cas that fail, also without cause. *)
Works(p) == \/ LoadFront(p) \/ StoreFront(p) \/ Push(p) \/ PushStale(p) \/ PushFails(p)
            \/ Check(p) \/ AlreadyReady(p) \/ Mark(p)
            \/ FindFirst(p) \/ Seek(p) \/ LoadLink(p) \/ Unlink(p) \/ UnlinkFails(p)
            \/ Clear(p) \/ LoadReady(p) \/ Walk(p) \/ WalkEnds(p) \/ Link(p) \/ LinkFails(p)
            \/ MarkYield(p)

Next == \E p \in All : Tick(p) \/ TickExposed(p) \/ Calls(p) \/ Leaves(p) \/ Works(p)

Spec == Init /\ [][Next]_vars

(* The tick keeps coming; a process that gets the cpu again and again gets *)
(* through the call it is in, and a cas that is retried succeeds.          *)
Fairness == /\ WF_vars(\E p \in All : Tick(p) \/ TickExposed(p))
            /\ \A p \in Procs : /\ SF_vars(Works(p))
                                 /\ SF_vars(Push(p) \/ Unlink(p) \/ Link(p))

FairSpec == Spec /\ Fairness
-----------------------------------------------------------------------------
(* Type invariant of the lists, the link field and the locals. *)
TypeOK == /\ up \in All
          /\ {ready, sleeping, suspended} \subseteq Procs \cup {None}
          /\ snext \in [All -> Procs \cup {None}]
          /\ state \in [All -> {"unborn", "suspend", "ready", "oncpu", "sleeping", "waiting"}]
          /\ left \in [All -> 0..MaxSleep]
          /\ offered \cup astray \subseteq Procs
          /\ \A p \in All : {tgt[p], pp[p], nx[p]} \subseteq Procs \cup {None}

IsList(s) == Len(s) <= Cardinality(Procs) /\ IsInjective(s)

(* p has been marked ready and some process is on its way to link it. *)
BeingAdded(p) == \E q \in Procs \ {p} :
                   tgt[q] = p /\ pc[q] \in {"clear", "load", "walk", "link"}

(* The ready list ends, nobody is on it twice, and whoever it leads to is  *)
(* ready: nextproc() never runs a process that waits or sleeps.  up is on  *)
(* it only in procyield().                                                 *)
ReadyListSound ==
  LET r == ListFrom(ready) IN
  /\ IsList(r)
  /\ \A p \in Range(r) : state[p] = "ready" \/ (p = up /\ pc[p] = "yield")

(* No ready process is forgotten: it is on the list, or a process that     *)
(* will itself run again is about to put it there, or it is astray.        *)
NobodyLost ==
  \A p \in Procs : state[p] = "ready" =>
    p \in Range(ListFrom(ready)) \/ BeingAdded(p) \/ p \in astray

(* No sleeper is forgotten: the sleeping list leads to every process that  *)
(* is asleep, although addtolistback() may hang others behind it.          *)
SleepersKept == \A p \in Procs : state[p] = "sleeping" => p \in Range(ListFrom(sleeping))

(* Nobody is forgotten, as far as the code goes: no sleeper, and of the    *)
(* ready processes only those that addtolistback() appends to a process    *)
(* that has left the list since; there are none while nobody blocks.       *)
NobodyForgotten == /\ SleepersKept /\ NobodyLost
                   /\ load.ops \subseteq {"fork", "yield"} => astray = {}

(* Round robin: a ready process gets the cpu.                              *)
ReadyRuns == \A p \in Procs : state[p] = "ready" ~> state[p] = "oncpu" \/ clash
=============================================================================
