----------------------------- MODULE LockProofs -----------------------------
(***************************************************************************)
(* Mutual exclusion of lock() and unlock(), and their refinement of Mutex, *)
(* for any number of processes and locks, each process taking any of them  *)
(* in any order, until a list is astray.  IInv of module Lock is inductive; *)
(* there is one lemma for each part of it and in each lemma one step per   *)
(* action.                                                                 *)
(***************************************************************************)
EXTENDS Lock, TLAPS

USE LockAssumption DEF Nil, Labels, LockPC, UnlockPC

(* All lists are empty and no one is inside at the start. *)
LEMMA InitIInv == Init => IInv
  <1> SUFFICES ASSUME Init PROVE IInv
    OBVIOUS
  <1> USE DEF Init
  <1>1. TypeOK
    BY DEF TypeOK
  <1>2. OwnerInv /\ WakeInv /\ PopInv
    BY DEF OwnerInv, WakeInv, PopInv
  <1>3. LinkInv
    BY DEF LinkInv, QueueHoldsWaiters, Asleep, Chosen, Queued
  <1> QED
    BY <1>1, <1>2, <1>3 DEF IInv

(* The locals and the shared words keep their types. *)
LEMMA TypeOKStep ==
  ASSUME IInv, ~astray, NEW p \in Procs, Step(p)
  PROVE  TypeOK'
  <1> USE DEF IInv, TypeOK, At, Goto, words
  <1>1. ASSUME NEW l \in Locks, Call(p, l) PROVE TypeOK'
    BY <1>1 DEF Call
  <1>2. ASSUME NEW l \in Locks, LoadFirst(p, l) PROVE TypeOK'
    BY <1>2 DEF LoadFirst
  <1>3. CASE CasHolder(p)
    BY <1>3 DEF CasHolder, Return, OwnerInv
  <1>4. CASE CasHolderFails(p)
    BY <1>4 DEF CasHolderFails
  <1>5. CASE LoadHead(p)
    BY <1>5 DEF LoadHead
  <1>6. CASE Walk(p)
    BY <1>6 DEF Walk
  <1>7. CASE WalkEnds(p)
    BY <1>7 DEF WalkEnds
  <1>8. CASE ClearNext(p)
    BY <1>8 DEF ClearNext
  <1>9. CASE LinkFirst(p)
    BY <1>9 DEF LinkFirst
  <1>10. CASE LinkBehind(p)
    BY <1>10 DEF LinkBehind
  <1>11. CASE LinkFails(p)
    BY <1>11 DEF LinkFails
  <1>12. CASE Sleep(p)
    BY <1>12 DEF Sleep
  <1>13. CASE Wake(p)
    BY <1>13 DEF Wake, Return
  <1>14. CASE LateReady(p)
    BY <1>14 DEF LateReady
  <1>15. CASE LoadNext(p)
    BY <1>15 DEF LoadNext, PopInv
  <1>16. CASE Pop(p)
    BY <1>16 DEF Pop
  <1>17. CASE PopFails(p)
    BY <1>17 DEF PopFails
  <1>18. CASE Unlink(p)
    BY <1>18 DEF Unlink
  <1>19. CASE Give(p)
    BY <1>19 DEF Give, Leave
  <1>20. CASE Ready(p)
    BY <1>20 DEF Ready
  <1>21. CASE Free(p)
    BY <1>21 DEF Free, Leave, OwnerInv
  <1> QED
    BY <1>1, <1>2, <1>3, <1>4, <1>5, <1>6, <1>7, <1>8, <1>9, <1>10, <1>11,
       <1>12, <1>13, <1>14, <1>15, <1>16, <1>17, <1>18, <1>19, <1>20, <1>21 DEF
       Step

(* Only Ready makes a sleeper run, and WakeInv says it owns the lock. *)
LEMMA OwnerInvStep ==
  ASSUME IInv, ~astray, NEW p \in Procs, Step(p), ~astray'
  PROVE  OwnerInv'
  <1> USE DEF IInv, TypeOK, At, Goto, words, OwnerInv
  <1>1. ASSUME NEW l \in Locks, Call(p, l) PROVE OwnerInv'
    BY <1>1 DEF Call
  <1>2. ASSUME NEW l \in Locks, LoadFirst(p, l) PROVE OwnerInv'
    BY <1>2 DEF LoadFirst
  <1>3. CASE CasHolder(p)
    BY <1>3 DEF CasHolder, Return
  <1>4. CASE CasHolderFails(p)
    BY <1>4 DEF CasHolderFails
  <1>5. CASE LoadHead(p)
    BY <1>5 DEF LoadHead
  <1>6. CASE Walk(p)
    BY <1>6 DEF Walk
  <1>7. CASE WalkEnds(p)
    BY <1>7 DEF WalkEnds
  <1>8. CASE ClearNext(p)
    BY <1>8 DEF ClearNext
  <1>9. CASE LinkFirst(p)
    BY <1>9 DEF LinkFirst
  <1>10. CASE LinkBehind(p)
    BY <1>10 DEF LinkBehind
  <1>11. CASE LinkFails(p)
    BY <1>11 DEF LinkFails
  <1>12. CASE Sleep(p)
    BY <1>12 DEF Sleep
  <1>13. CASE Wake(p)
    BY <1>13 DEF Wake, Return
  <1>14. CASE LateReady(p)
    BY <1>14 DEF LateReady
  <1>15. CASE LoadNext(p)
    BY <1>15 DEF LoadNext
  <1>16. CASE Pop(p)
    BY <1>16 DEF Pop
  <1>17. CASE PopFails(p)
    BY <1>17 DEF PopFails
  <1>18. CASE Unlink(p)
    BY <1>18 DEF Unlink
  <1>19. CASE Give(p)
    BY <1>19 DEF Give, Leave, WakeInv, Asleep
  <1>20. CASE Ready(p)
    BY <1>20 DEF Ready, WakeInv
  <1>21. CASE Free(p)
    BY <1>21 DEF Free, Leave
  <1> QED
    BY <1>1, <1>2, <1>3, <1>4, <1>5, <1>6, <1>7, <1>8, <1>9, <1>10, <1>11,
       <1>12, <1>13, <1>14, <1>15, <1>16, <1>17, <1>18, <1>19, <1>20, <1>21 DEF
       Step

(* Pop chooses a sleeper; a second wake would need a second owner. *)
LEMMA WakeInvStep ==
  ASSUME IInv, ~astray, NEW p \in Procs, Step(p), ~astray'
  PROVE  WakeInv'
  <1> USE DEF IInv, TypeOK, At, Goto, words, WakeInv, Asleep
  <1>1. ASSUME NEW l \in Locks, Call(p, l) PROVE WakeInv'
    BY <1>1 DEF Call
  <1>2. ASSUME NEW l \in Locks, LoadFirst(p, l) PROVE WakeInv'
    BY <1>2 DEF LoadFirst
  <1>3. CASE CasHolder(p)
    BY <1>3 DEF CasHolder, Return, OwnerInv
  <1>4. CASE CasHolderFails(p)
    BY <1>4 DEF CasHolderFails
  <1>5. CASE LoadHead(p)
    BY <1>5 DEF LoadHead
  <1>6. CASE Walk(p)
    BY <1>6 DEF Walk
  <1>7. CASE WalkEnds(p)
    BY <1>7 DEF WalkEnds
  <1>8. CASE ClearNext(p)
    BY <1>8 DEF ClearNext
  <1>9. CASE LinkFirst(p)
    BY <1>9 DEF LinkFirst
  <1>10. CASE LinkBehind(p)
    BY <1>10 DEF LinkBehind
  <1>11. CASE LinkFails(p)
    BY <1>11 DEF LinkFails
  <1>12. CASE Sleep(p)
    BY <1>12 DEF Sleep
  <1>13. CASE Wake(p)
    BY <1>13 DEF Wake, Return
  <1>14. CASE LateReady(p)
    BY <1>14 DEF LateReady
  <1>15. CASE LoadNext(p)
    BY <1>15 DEF LoadNext
  <1>16. CASE Pop(p)
    BY <1>16 DEF Pop, PopInv, LinkInv, QueueHoldsWaiters
  <1>17. CASE PopFails(p)
    BY <1>17 DEF PopFails
  <1>18. CASE Unlink(p)
    BY <1>18 DEF Unlink
  <1>19. CASE Give(p)
    BY <1>19 DEF Give, Leave, OwnerInv
  <1>20. CASE Ready(p)
    BY <1>20 DEF Ready, OwnerInv
  <1>21. CASE Free(p)
    BY <1>21 DEF Free, Leave, OwnerInv
  <1> QED
    BY <1>1, <1>2, <1>3, <1>4, <1>5, <1>6, <1>7, <1>8, <1>9, <1>10, <1>11,
       <1>12, <1>13, <1>14, <1>15, <1>16, <1>17, <1>18, <1>19, <1>20, <1>21 DEF
       Step

(* A pop in progress is disturbed by no other process. *)
LEMMA PopInvStep ==
  ASSUME IInv, ~astray, NEW p \in Procs, Step(p), ~astray'
  PROVE  PopInv'
  <1> USE DEF IInv, TypeOK, At, Goto, words, PopInv
  <1>1. ASSUME NEW l \in Locks, Call(p, l) PROVE PopInv'
    BY <1>1 DEF Call
  <1>2. ASSUME NEW l \in Locks, LoadFirst(p, l) PROVE PopInv'
    BY <1>2 DEF LoadFirst
  <1>3. CASE CasHolder(p)
    BY <1>3 DEF CasHolder, Return
  <1>4. CASE CasHolderFails(p)
    BY <1>4 DEF CasHolderFails
  <1>5. CASE LoadHead(p)
    BY <1>5 DEF LoadHead
  <1>6. CASE Walk(p)
    BY <1>6 DEF Walk
  <1>7. CASE WalkEnds(p)
    BY <1>7 DEF WalkEnds
  <1>8. CASE ClearNext(p)
    BY <1>8 DEF ClearNext, LinkInv, QueueHoldsWaiters, Asleep
  <1>9. CASE LinkFirst(p)
    BY <1>9 DEF LinkFirst
  <1>10. CASE LinkBehind(p)
    BY <1>10 DEF LinkBehind
  <1>11. CASE LinkFails(p)
    BY <1>11 DEF LinkFails
  <1>12. CASE Sleep(p)
    BY <1>12 DEF Sleep
  <1>13. CASE Wake(p)
    BY <1>13 DEF Wake, Return
  <1>14. CASE LateReady(p)
    BY <1>14 DEF LateReady
  <1>15. CASE LoadNext(p)
    BY <1>15 DEF LoadNext
  <1>16. CASE Pop(p)
    BY <1>16 DEF Pop, OwnerInv
  <1>17. CASE PopFails(p)
    BY <1>17 DEF PopFails
  <1>18. CASE Unlink(p)
    BY <1>18 DEF Unlink, LinkInv, Chosen
  <1>19. CASE Give(p)
    BY <1>19 DEF Give, Leave
  <1>20. CASE Ready(p)
    BY <1>20 DEF Ready
  <1>21. CASE Free(p)
    BY <1>21 DEF Free, Leave
  <1> QED
    BY <1>1, <1>2, <1>3, <1>4, <1>5, <1>6, <1>7, <1>8, <1>9, <1>10, <1>11,
       <1>12, <1>13, <1>14, <1>15, <1>16, <1>17, <1>18, <1>19, <1>20, <1>21 DEF
       Step

(* Only LinkFirst, LinkBehind, Pop and Unlink move a link that counts. *)
LEMMA LinkInvStep ==
  ASSUME IInv, ~astray, NEW p \in Procs, Step(p), ~astray'
  PROVE  LinkInv'
  <1> USE DEF IInv, TypeOK, At, Goto, words, LinkInv, QueueHoldsWaiters, Asleep,
         Chosen, Queued
  <1>1. ASSUME NEW l \in Locks, Call(p, l) PROVE LinkInv'
    BY <1>1 DEF Call
  <1>2. ASSUME NEW l \in Locks, LoadFirst(p, l) PROVE LinkInv'
    BY <1>2 DEF LoadFirst
  <1>3. CASE CasHolder(p)
    BY <1>3 DEF CasHolder, Return
  <1>4. CASE CasHolderFails(p)
    BY <1>4 DEF CasHolderFails
  <1>5. CASE LoadHead(p)
    BY <1>5 DEF LoadHead
  <1>6. CASE Walk(p)
    BY <1>6 DEF Walk
  <1>7. CASE WalkEnds(p)
    BY <1>7 DEF WalkEnds
  <1>8. CASE ClearNext(p)
    BY <1>8 DEF ClearNext
  <1>9. CASE LinkFirst(p)
    BY <1>9 DEF LinkFirst, WakeInv
  <1>10. CASE LinkBehind(p)
    <2>1. /\ cur[p] \in Procs /\ next[cur[p]] = None /\ ~Asleep(p) /\ Asleep(p)'
          /\ next' = [next EXCEPT ![cur[p]] = p] /\ wlist' = wlist /\ at' = at /\ state' = state
          /\ \A q \in Procs : q # p => pc'[q] = pc[q] /\ cur'[q] = cur[q]
          /\ pc[p] = "link" /\ pc'[p] = "sleep"
          /\ (Queued(cur[p]) => at[cur[p]] = at[p])
      <3>1. /\ cur[p] \in Procs /\ next[cur[p]] = None /\ pc[p] = "link" /\ pc'[p] = "sleep"
            /\ next' = [next EXCEPT ![cur[p]] = p] /\ wlist' = wlist /\ at' = at /\ state' = state
        BY <1>10 DEF LinkBehind
      <3>2. \A q \in Procs : q # p => pc'[q] = pc[q] /\ cur'[q] = cur[q]
        BY <1>10 DEF LinkBehind
      <3>3. Queued(cur[p]) => at[cur[p]] = at[p]
        BY <1>10 DEF LinkBehind
      <3> QED
        BY <3>1, <3>2, <3>3
    <2>2. /\ \A q \in Procs : next[q] # p
          /\ \A l \in Locks : wlist[l] # p
          /\ \A u \in Procs : ~Chosen(u, p)
      BY <2>1 DEF WakeInv
    <2>3. \A q \in Procs : /\ q # cur[p] => next'[q] = next[q]
                           /\ Asleep(q) => Asleep(q)'
                           /\ Queued(q)' <=> Queued(q)
      <3>1. \A q \in Procs : q # cur[p] => next'[q] = next[q]
        BY <2>1
      <3>2. \A q \in Procs : q # p => (Asleep(q)' <=> Asleep(q)) /\ (Queued(q)' <=> Queued(q))
        BY <2>1
      <3>3. Asleep(p)' /\ Queued(p)' /\ Queued(p)
        BY <2>1
      <3> QED
        BY <3>1, <3>2, <3>3
    <2>4. next'[cur[p]] = p
      BY <2>1
    <2>5. QueueHoldsWaiters'
      BY <2>1, <2>3, <2>4
    <2>6. \A q, r \in Procs : next'[q] # None /\ next'[q] = next'[r] => q = r
      BY <2>2, <2>3, <2>4
    <2>7. ASSUME NEW q \in Procs, NEW l \in Locks, next'[q] # None, next'[q] = wlist'[l]
          PROVE  \E u \in Procs : pc'[u] = "unlink" /\ cur'[u] = q
      <3>1. q # cur[p] /\ next[q] # None /\ next[q] = wlist[l]
        BY <2>1, <2>2, <2>3, <2>4, <2>7
      <3>2. PICK u \in Procs : pc[u] = "unlink" /\ cur[u] = q
        BY <3>1
      <3> QED
        BY <2>1, <3>2
    <2>8. ASSUME NEW u \in Procs, NEW q \in Procs, Chosen(u, q)'
          PROVE  (\A l \in Locks : wlist'[l] # q) /\ (\A r \in Procs : next'[r] # q)
      <3>1. Chosen(u, q) /\ q # p
        BY <2>1, <2>2, <2>8
      <3> QED
        BY <2>1, <2>3, <2>4, <3>1
    <2> QED
      BY <2>5, <2>6, <2>7, <2>8
  <1>11. CASE LinkFails(p)
    BY <1>11 DEF LinkFails
  <1>12. CASE Sleep(p)
    BY <1>12 DEF Sleep
  <1>13. CASE Wake(p)
    BY <1>13 DEF Wake, Return
  <1>14. CASE LateReady(p)
    BY <1>14 DEF LateReady
  <1>15. CASE LoadNext(p)
    BY <1>15 DEF LoadNext
  <1>16. CASE Pop(p)
    BY <1>16 DEF Pop, OwnerInv, WakeInv, PopInv
  <1>17. CASE PopFails(p)
    BY <1>17 DEF PopFails
  <1>18. CASE Unlink(p)
    BY <1>18 DEF Unlink
  <1>19. CASE Give(p)
    BY <1>19 DEF Give, Leave
  <1>20. CASE Ready(p)
    BY <1>20 DEF Ready
  <1>21. CASE Free(p)
    BY <1>21 DEF Free, Leave
  <1> QED
    BY <1>1, <1>2, <1>3, <1>4, <1>5, <1>6, <1>7, <1>8, <1>9, <1>10, <1>11,
       <1>12, <1>13, <1>14, <1>15, <1>16, <1>17, <1>18, <1>19, <1>20, <1>21 DEF
       Step

(* IInv is inductive. *)
LEMMA NextIInv == IInv /\ [Next]_vars => IInv'
  <1> SUFFICES ASSUME IInv, [Next]_vars PROVE IInv'
    OBVIOUS
  <1>1. ASSUME ~astray, NEW p \in Procs, Step(p) PROVE IInv'
    <2>1. TypeOK'
      BY <1>1, TypeOKStep
    <2>2. ~astray' => OwnerInv' /\ WakeInv' /\ PopInv' /\ LinkInv'
      BY <1>1, OwnerInvStep, WakeInvStep, PopInvStep, LinkInvStep
    <2> QED
      BY <2>1, <2>2 DEF IInv
  <1>2. CASE UNCHANGED vars
    BY <1>2 DEF vars, words, IInv, TypeOK, OwnerInv, WakeInv, PopInv, LinkInv,
                QueueHoldsWaiters, Asleep, Chosen, Queued
  <1> QED
    BY <1>1, <1>2 DEF Next

(* IInv holds in every reachable state. *)
LEMMA Inductive == Spec => []IInv
  <1>1. IInv /\ [Next]_vars => IInv'
    BY NextIInv
  <1> QED
    BY InitIInv, <1>1, PTL DEF Spec

(* The lock words, link fields and locals of lock.c keep their types: a walk *)
(* along p->next only ever meets processes or nil.                           *)
THEOREM TypeCorrect == Spec => []TypeOK
  BY Inductive, PTL DEF IInv

(* Two processes are never both between lock(l) and unlock(l), until a list  *)
(* is astray.                                                                *)
THEOREM MutexHolds == Spec => []MutualExclusion
  <1>1. IInv => MutualExclusion
    BY DEF IInv, OwnerInv, MutualExclusion
  <1> QED
    BY Inductive, <1>1, PTL

(* unlock() only ever finds processes on a list that wait for its lock,      *)
(* until a list is astray.                                                   *)
THEOREM QueueCorrect == Spec => []QueueHoldsWaiters
  <1>1. IInv => QueueHoldsWaiters
    BY DEF IInv, LinkInv, QueueHoldsWaiters
  <1> QED
    BY Inductive, <1>1, PTL
-----------------------------------------------------------------------------
(* The refinement: Call, CasHolder, Wake, Give and Free are the steps of the *)
(* abstract lock, every other step of lock.c leaves it alone.                *)
Asks(p) == IF pc[p] \in LockPC THEN at[p] ELSE None

LEMMA InitMaps == Init => M!MInit
  BY DEF Init, M!MInit

(* Every step of Lock is a step of Mutex or leaves its variables alone. *)
LEMMA StepMaps ==
  ASSUME IInv, ~astray, NEW p \in Procs, Step(p)
  PROVE  M!MNext \/ UNCHANGED M!mvars
  <1> USE DEF IInv, TypeOK, At, Goto, words
  <1>1. ASSUME NEW l \in Locks, Call(p, l) PROVE M!Ask(p, l)
    BY <1>1 DEF Call, M!Ask
  <1>2. CASE CasHolder(p)
    <2>1. at[p] \in Locks /\ M!Take(p, at[p])
      BY <1>2 DEF CasHolder, Return, M!Take, M!Begin
    <2> QED
      BY <2>1 DEF M!MNext
  <1>3. CASE Wake(p)
    <2>1. at[p] \in Locks /\ holder[at[p]] = p
      BY <1>3 DEF Wake, OwnerInv
    <2>2. M!Enter(p, at[p])
      BY <1>3, <2>1 DEF Wake, Return, M!Enter, M!Begin
    <2> QED
      BY <2>1, <2>2 DEF M!MNext
  <1>4. CASE Give(p)
    <2>1. /\ cur[p] \in Procs /\ Asleep(cur[p]) /\ at[cur[p]] = at[p] /\ at[p] \in Locks
          /\ holder[at[p]] = p /\ at[p] \in held[p]
      BY <1>4 DEF Give, WakeInv, OwnerInv
    <2>2. M!HandOver(p, at[p], cur[p])
      BY <1>4, <2>1 DEF Give, Leave, Asleep, M!HandOver, M!Leave
    <2> QED
      BY <2>1, <2>2 DEF M!MNext
  <1>5. CASE Free(p)
    <2>1. at[p] \in Locks /\ holder[at[p]] = p /\ at[p] \in held[p]
      BY <1>5 DEF Free, OwnerInv
    <2>2. M!Release(p, at[p])
      BY <1>5, <2>1 DEF Free, Leave, M!Release, M!Leave
    <2> QED
      BY <2>1, <2>2 DEF M!MNext
  <1>6. CASE \/ CasHolderFails(p) \/ LoadHead(p) \/ Walk(p) \/ WalkEnds(p)
             \/ ClearNext(p) \/ LinkFirst(p) \/ LinkBehind(p) \/ LinkFails(p)
             \/ Sleep(p) \/ LateReady(p)
    <2>1. holder' = holder /\ held' = held /\ \A q \in Procs : Asks(q)' = Asks(q)
      BY <1>6 DEF CasHolderFails, LoadHead, Walk, WalkEnds, ClearNext, LinkFirst,
                  LinkBehind, LinkFails, Sleep, LateReady, Asks
    <2> QED
      BY <2>1 DEF M!mvars, Asks
  <1>7. CASE \/ \E l \in Locks : LoadFirst(p, l)
             \/ LoadNext(p) \/ Pop(p) \/ PopFails(p) \/ Unlink(p) \/ Ready(p)
    <2>1. holder' = holder /\ held' = held /\ \A q \in Procs : Asks(q)' = Asks(q)
      BY <1>7 DEF LoadFirst, LoadNext, Pop, PopFails, Unlink, Ready, Asks
    <2> QED
      BY <2>1 DEF M!mvars, Asks
  <1> QED
    BY <1>1, <1>2, <1>3, <1>4, <1>5, <1>6, <1>7 DEF Step, M!MNext

(* lock() and unlock() implement the abstract lock: who is inside was made   *)
(* the owner first, and ownership passes only from the owner to an asker.    *)
THEOREM Refinement == Spec => ImplementsMutex
  <1>1. IInv /\ [Next]_vars => [M!MNext]_M!mvars
    <2> SUFFICES ASSUME IInv, [Next]_vars PROVE [M!MNext]_M!mvars
      OBVIOUS
    <2>1. CASE UNCHANGED vars
      BY <2>1 DEF vars, words, M!mvars
    <2>2. CASE Next
      BY <2>2, StepMaps DEF Next
    <2> QED
      BY <2>1, <2>2
  <1> QED
    BY InitMaps, Inductive, <1>1, PTL DEF Spec, ImplementsMutex, M!MSpec
=============================================================================
