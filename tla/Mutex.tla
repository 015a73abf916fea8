------------------------------- MODULE Mutex -------------------------------
(***************************************************************************)
(* What kern/lock.c promises its callers, with the queue, the compare and  *)
(* swap loops and the scheduler left out.  Each lock has at most one owner. *)
(* A process asks for a lock, is made its owner either because the lock is *)
(* free or because the owner hands it over, enters its critical section    *)
(* only as the owner, and gives the lock up when it leaves.  It may have   *)
(* other locks meanwhile.                                                  *)
(***************************************************************************)
CONSTANTS Procs, Locks, None

VARIABLES owner,   \* owner[l]: the process that owns lock l, or None
          inside,  \* inside[p]: the locks whose critical sections p is in
          asks     \* asks[p]: the lock that p asks for, or None

mvars == <<owner, inside, asks>>

MInit == /\ owner = [l \in Locks |-> None]
         /\ inside = [p \in Procs |-> {}]
         /\ asks = [p \in Procs |-> None]

(* p calls lock(l). *)
Ask(p, l) == /\ asks[p] = None /\ l \notin inside[p]
             /\ asks' = [asks EXCEPT ![p] = l]
             /\ UNCHANGED <<owner, inside>>

(* p returns from lock(l). *)
Begin(p, l) == /\ asks[p] = l
               /\ inside' = [inside EXCEPT ![p] = @ \cup {l}]
               /\ asks' = [asks EXCEPT ![p] = None]

(* p finds the lock free and is inside at once. *)
Take(p, l) == /\ owner[l] = None
              /\ owner' = [owner EXCEPT ![l] = p]
              /\ Begin(p, l)

(* p was handed the lock while it waited, and now runs. *)
Enter(p, l) == owner[l] = p /\ Begin(p, l) /\ UNCHANGED owner

(* p leaves its critical section, handing the lock to q or to no one. *)
Leave(p, l, q) == /\ l \in inside[p] /\ owner[l] = p
                  /\ owner' = [owner EXCEPT ![l] = q]
                  /\ inside' = [inside EXCEPT ![p] = @ \ {l}]
                  /\ UNCHANGED asks
HandOver(p, l, q) == asks[q] = l /\ Leave(p, l, q)
Release(p, l) == Leave(p, l, None)

MNext == \E p \in Procs, l \in Locks :
            \/ Ask(p, l) \/ Take(p, l) \/ Enter(p, l)
            \/ \E q \in Procs : HandOver(p, l, q)
            \/ Release(p, l)

MSpec == MInit /\ [][MNext]_mvars
=============================================================================
