-------------------------------- MODULE Lock --------------------------------
(***************************************************************************)
(* kern/lock.c, one action per access to memory that other processes can   *)
(* see.  System calls run with interrupts enabled (am335x/vectors.S) and   *)
(* the tick handler calls schedule(), so a process can be preempted        *)
(* between any two of these accesses.  A process that is ready or on the   *)
(* cpu is "run" here; procwait() makes it "waiting"; procready() does      *)
(* nothing to a process that is not waiting (kern/proc.c).  The exception  *)
(* entry executes clrex, so a cas may fail although the word it compares   *)
(* is the expected one.                                                    *)
(*                                                                         *)
(* A process takes any locks, also one while it has others, and has one    *)
(* link field for the wait lists of all.  Two things break the lists, and  *)
(* the model ends when one of them happens (astray): a process is appended *)
(* behind one that has moved on to the list of another lock, and a process *)
(* asleep in lock() is woken by a procready() that was not meant for it.   *)
(***************************************************************************)
CONSTANTS Procs,   \* processes with an up (kernel start-up, up = nil, is out)
          Locks,   \* struct lock objects
          None     \* nil

ASSUME LockAssumption == None \notin Procs \cup Locks

VARIABLES holder,  \* holder[l]: l->holder
          wlist,   \* wlist[l]: l->wlist
          next,    \* next[p]: p->next, the one link field of a process
          state,   \* state[p]: "run" or "waiting", p->state
          held,    \* held[p]: the locks p is between the calls of
          pc,      \* where p is in lock() or unlock()
          at,      \* at[p]: the argument l of the call p is in
          cur,     \* cur[p]: the local variable p of lock() and unlock()
          nxt,     \* nxt[p]: the value of p->next loaded for unlock()'s cas
          astray   \* a list is broken

words == <<holder, wlist, next>>
vars == <<words, state, held, pc, at, cur, nxt, astray>>

Nil(S) == S \cup {None}

LockPC == {"cas", "head", "walk", "clear", "link", "sleep", "wake"}
UnlockPC == {"retry", "load", "pop", "unlink", "give", "ready", "free"}
Labels == {"idle"} \cup LockPC \cup UnlockPC

Init == /\ holder = [l \in Locks |-> None]
        /\ wlist = [l \in Locks |-> None]
        /\ next = [p \in Procs |-> None]
        /\ state = [p \in Procs |-> "run"]
        /\ held = [p \in Procs |-> {}]
        /\ pc = [p \in Procs |-> "idle"]
        /\ at = [p \in Procs |-> None]
        /\ cur = [p \in Procs |-> None]
        /\ nxt = [p \in Procs |-> None]
        /\ astray = FALSE

Goto(p, label) == pc' = [pc EXCEPT ![p] = label]

At(p, label) == pc[p] = label /\ state[p] = "run"

-----------------------------------------------------------------------------
(* lock(l) *)

Call(p, l) == /\ At(p, "idle")
              /\ l \notin held[p]
              /\ at' = [at EXCEPT ![p] = l]
              /\ Goto(p, "cas")
              /\ UNCHANGED <<words, state, held, cur, nxt, astray>>

(* lock() returns. *)
Return(p) == /\ held' = [held EXCEPT ![p] = @ \cup {at[p]}]
             /\ at' = [at EXCEPT ![p] = None]
             /\ Goto(p, "idle")

(* cas(&l->holder, nil, up): the lock was free. *)
CasHolder(p) == /\ At(p, "cas")
                /\ holder[at[p]] = None
                /\ holder' = [holder EXCEPT ![at[p]] = p]
                /\ Return(p)
                /\ UNCHANGED <<wlist, next, state, cur, nxt, astray>>

(* The cas failed: the lock is held, or clrex came in between. *)
CasHolderFails(p) == /\ At(p, "cas")
                     /\ Goto(p, "head")
                     /\ UNCHANGED <<words, state, held, at, cur, nxt, astray>>

LoadHead(p) == /\ At(p, "head")
               /\ cur' = [cur EXCEPT ![p] = wlist[at[p]]]
               /\ Goto(p, "walk")
               /\ UNCHANGED <<words, state, held, at, nxt, astray>>

(* The loop to the last waiter; the compiler loads p->next once a turn. *)
Walk(p) == /\ At(p, "walk")
           /\ cur[p] # None
           /\ next[cur[p]] # None
           /\ cur' = [cur EXCEPT ![p] = next[cur[p]]]
           /\ UNCHANGED <<words, state, held, pc, at, nxt, astray>>

WalkEnds(p) == /\ At(p, "walk")
               /\ cur[p] # None => next[cur[p]] = None
               /\ Goto(p, "clear")
               /\ UNCHANGED <<words, state, held, at, cur, nxt, astray>>

ClearNext(p) == /\ At(p, "clear")
                /\ next' = [next EXCEPT ![p] = None]
                /\ Goto(p, "link")
                /\ UNCHANGED <<holder, wlist, state, held, at, cur, nxt, astray>>

(* cas(&l->wlist, nil, up) on an empty list. *)
LinkFirst(p) == /\ At(p, "link")
                /\ cur[p] = None
                /\ wlist[at[p]] = None
                /\ wlist' = [wlist EXCEPT ![at[p]] = p]
                /\ Goto(p, "sleep")
                /\ UNCHANGED <<holder, next, state, held, at, cur, nxt, astray>>

(* p has cleared its link for a wait list, and has not returned since.     *)
Queued(p) == pc[p] \in {"link", "sleep", "wake"}

(* cas(&p->next, nil, up) behind the waiter the walk ended at, which may   *)
(* have been woken since, and wait for another lock.                       *)
LinkBehind(p) == /\ At(p, "link")
                 /\ cur[p] # None
                 /\ next[cur[p]] = None
                 /\ next' = [next EXCEPT ![cur[p]] = p]
                 /\ cur' = [cur EXCEPT ![p] = None]
                 /\ Goto(p, "sleep")
                 /\ astray' = (Queued(cur[p]) /\ at[cur[p]] # at[p])
                 /\ UNCHANGED <<holder, wlist, state, held, at, nxt>>

(* Either cas failed: goto retry. *)
LinkFails(p) == /\ At(p, "link")
                /\ cur' = [cur EXCEPT ![p] = None]
                /\ Goto(p, "cas")
                /\ UNCHANGED <<words, state, held, at, nxt, astray>>

(* procwait(): interrupts are off from here to the switch. *)
Sleep(p) == /\ At(p, "sleep")
            /\ state' = [state EXCEPT ![p] = "waiting"]
            /\ Goto(p, "wake")
            /\ UNCHANGED <<words, held, at, cur, nxt, astray>>

(* procwait() returns, and lock() with it: the holder is not looked at. *)
Wake(p) == /\ At(p, "wake")
           /\ Return(p)
           /\ UNCHANGED <<words, state, cur, nxt, astray>>

(* The procready() of an answer to a request that p no longer waits for    *)
(* (kern/file.c:106) comes while p sleeps in lock(), which it would return *)
(* from with a lock that is not its own.                                   *)
LateReady(p) == /\ pc[p] = "wake"
                /\ state[p] = "waiting"
                /\ astray' = TRUE
                /\ UNCHANGED <<words, state, held, pc, at, cur, nxt>>
-----------------------------------------------------------------------------
(* unlock(l), called by a process that returned from lock(l). *)

LoadFirst(p, l) == /\ At(p, "idle") \/ (At(p, "retry") /\ at[p] = l)
                   /\ l \in held[p]
                   /\ at' = [at EXCEPT ![p] = l]
                   /\ cur' = [cur EXCEPT ![p] = wlist[l]]
                   /\ Goto(p, IF wlist[l] = None THEN "free" ELSE "load")
                   /\ UNCHANGED <<words, state, held, nxt, astray>>

(* The argument p->next of cas(&l->wlist, p, p->next). *)
LoadNext(p) == /\ At(p, "load")
               /\ nxt' = [nxt EXCEPT ![p] = next[cur[p]]]
               /\ Goto(p, "pop")
               /\ UNCHANGED <<words, state, held, at, cur, astray>>

Pop(p) == /\ At(p, "pop")
          /\ wlist[at[p]] = cur[p]
          /\ wlist' = [wlist EXCEPT ![at[p]] = nxt[p]]
          /\ nxt' = [nxt EXCEPT ![p] = None]
          /\ Goto(p, "unlink")
          /\ UNCHANGED <<holder, next, state, held, at, cur, astray>>

PopFails(p) == /\ At(p, "pop")
               /\ nxt' = [nxt EXCEPT ![p] = None]
               /\ cur' = [cur EXCEPT ![p] = None]
               /\ Goto(p, "retry")
               /\ UNCHANGED <<words, state, held, at, astray>>

(* Mutant: the waiter taken off the list keeps its link. *)
UnlinkKeeps(p) == /\ At(p, "unlink")
                  /\ Goto(p, "give")
                  /\ UNCHANGED <<words, state, held, at, cur, nxt, astray>>

(* p->next = nil *)
Unlink(p) == /\ At(p, "unlink")
             /\ next' = [next EXCEPT ![cur[p]] = None]
             /\ Goto(p, "give")
             /\ UNCHANGED <<holder, wlist, state, held, at, cur, nxt, astray>>

(* The last store of unlock() to the lock. *)
Leave(p, q) == /\ holder' = [holder EXCEPT ![at[p]] = q]
               /\ held' = [held EXCEPT ![p] = @ \ {at[p]}]
               /\ UNCHANGED <<wlist, next, state, nxt, astray>>

(* Mutant: unlock() clears the holder before it wakes the waiter. *)
GiveNobody(p) == At(p, "give") /\ Leave(p, None) /\ Goto(p, "ready") /\ UNCHANGED <<at, cur>>

(* l->holder = p *)
Give(p) == At(p, "give") /\ Leave(p, cur[p]) /\ Goto(p, "ready") /\ UNCHANGED <<at, cur>>

(* procready(p): without effect when p has not reached procwait() yet. *)
Ready(p) == /\ At(p, "ready")
            /\ state' = [state EXCEPT ![cur[p]] = "run"]
            /\ cur' = [cur EXCEPT ![p] = None]
            /\ at' = [at EXCEPT ![p] = None]
            /\ Goto(p, "idle")
            /\ UNCHANGED <<words, held, nxt, astray>>

Free(p) == /\ At(p, "free") /\ Leave(p, None) /\ Goto(p, "idle")
           /\ at' = [at EXCEPT ![p] = None]
           /\ UNCHANGED cur
-----------------------------------------------------------------------------
Step(p) == \/ \E l \in Locks : Call(p, l) \/ LoadFirst(p, l)
           \/ CasHolder(p) \/ CasHolderFails(p)
           \/ LoadHead(p) \/ Walk(p) \/ WalkEnds(p)
           \/ ClearNext(p)
           \/ LinkFirst(p) \/ LinkBehind(p) \/ LinkFails(p)
           \/ Sleep(p) \/ Wake(p) \/ LateReady(p)
           \/ LoadNext(p) \/ Pop(p) \/ PopFails(p)
           \/ Unlink(p) \/ Give(p) \/ Ready(p) \/ Free(p)

Next == ~astray /\ \E p \in Procs : Step(p)

Spec == Init /\ [][Next]_vars
-----------------------------------------------------------------------------
(* Type invariant of the lock words, the link fields and the locals. *)
TypeOK == /\ holder \in [Locks -> Nil(Procs)]
          /\ wlist \in [Locks -> Nil(Procs)]
          /\ next \in [Procs -> Nil(Procs)]
          /\ state \in [Procs -> {"run", "waiting"}]
          /\ held \in [Procs -> SUBSET Locks]
          /\ pc \in [Procs -> Labels]
          /\ at \in [Procs -> Nil(Locks)]
          /\ \A p \in Procs : pc[p] = "idle" <=> at[p] = None
          /\ cur \in [Procs -> Nil(Procs)]
          /\ nxt \in [Procs -> Nil(Procs)]
          /\ astray \in BOOLEAN

(* Two processes are never between the return of lock(l) and the hand-over *)
(* or release in unlock(l) for the same l, although lock() returns from    *)
(* procwait() without looking at the holder; until a list is astray.       *)
MutualExclusion ==
  ~astray => \A p, q \in Procs : p # q => held[p] \cap held[q] = {}

(* p is on its way into, or asleep in, procwait(). *)
Asleep(p) == \/ pc[p] = "sleep"
             \/ pc[p] = "wake" /\ state[p] = "waiting"

(* Whoever a wait list or a link field leads to is in procwait(), or about *)
(* to be, and from a list on it is for that lock: unlock() hands a lock to *)
(* no one who has moved on.                                                *)
QueueHoldsWaiters == ~astray =>
  /\ \A l \in Locks : wlist[l] # None => Asleep(wlist[l]) /\ at[wlist[l]] = l
  /\ \A p \in Procs : next[p] # None => Asleep(next[p])
  /\ \A p \in Procs : next[p] # None /\ Queued(p) => at[next[p]] = at[p]

(* lock.c implements the abstract lock: holder is the owner, also while the *)
(* new owner has not run yet, and unlock() leaves with its last store.      *)
M == INSTANCE Mutex WITH owner <- holder, inside <- held,
                         asks <- [p \in Procs |-> IF pc[p] \in LockPC THEN at[p] ELSE None]

ImplementsMutex == M!MSpec
-----------------------------------------------------------------------------
(* The inductive invariant behind MutualExclusion and QueueHoldsWaiters.   *)

(* p is the waiter u has taken off the list and is about to wake. *)
Chosen(u, p) == pc[u] \in {"unlink", "give", "ready"} /\ cur[u] = p

(* The process inside, and a process that has been woken, is the holder.   *)
OwnerInv ==
  /\ \A p \in Procs : \A l \in held[p] : holder[l] = p
  /\ \A p \in Procs : pc[p] \in UnlockPC \ {"ready"} => at[p] \in held[p]
  /\ \A p \in Procs : pc[p] \in LockPC => at[p] \notin held[p]
  /\ \A p \in Procs : pc[p] = "wake" /\ state[p] = "run" => holder[at[p]] = p
  /\ \A p \in Procs : pc[p] # "wake" => state[p] = "run"

(* A wake in progress is the only one for its lock, and its target waits. *)
WakeInv ==
  /\ \A u \in Procs : pc[u] \in {"unlink", "give", "ready"} =>
        cur[u] # None /\ Asleep(cur[u]) /\ at[cur[u]] = at[u]
  /\ \A u \in Procs : pc[u] = "ready" => holder[at[u]] = cur[u]
  /\ \A u, v \in Procs :
        pc[u] = "ready" /\ pc[v] = "ready" /\ at[u] = at[v] => u = v

(* Only the owner pops, so its view of the head of the list stays right. *)
PopInv ==
  /\ \A u \in Procs : pc[u] \in {"load", "pop"} =>
        cur[u] # None /\ wlist[at[u]] = cur[u]
  /\ \A u \in Procs : pc[u] = "pop" /\ nxt[u] # None => next[cur[u]] = nxt[u]

(* Every waiter is pointed at from one place, except between the cas of    *)
(* unlock() and its p->next = nil; a chosen waiter from none.              *)
LinkInv ==
  /\ QueueHoldsWaiters
  /\ \A p, q \in Procs : next[p] # None /\ next[p] = next[q] => p = q
  /\ \A p \in Procs, l \in Locks : next[p] # None /\ next[p] = wlist[l] =>
        \E u \in Procs : pc[u] = "unlink" /\ cur[u] = p
  /\ \A u, p \in Procs : Chosen(u, p) =>
        (\A l \in Locks : wlist[l] # p) /\ (\A q \in Procs : next[q] # p)

IInv == TypeOK /\ (~astray => OwnerInv /\ WakeInv /\ PopInv /\ LinkInv)
=============================================================================
