----------------------------- MODULE PipeProofs -----------------------------
(***************************************************************************)
(* The pipe between one reader and one writer, for any lengths and any     *)
(* number of calls, closes included (kern/pipe.c).  What the proof rests   *)
(* on: a call that waits stays where it is until the other side answers    *)
(* it, so the transaction the other side has found (ServeInv) is still the *)
(* head of the list, and nobody else can take it; hence it is answered     *)
(* once, with as many bytes as the smaller of the two asked for.           *)
(***************************************************************************)
EXTENDS Pipe, SequenceTheorems, TLAPS

(* A process that has chosen a transaction to serve has one, and it goes   *)
(* the other way.                                                          *)
ServingInv ==
  \A q \in Procs :
    /\ pc[q] \in {"take", "copy", "answer", "ready"} =>
         t[q] \in Procs /\ ~SameDirection(q, t[q])
    /\ pc[q] \in {"ceof", "cready", "cnext"} => t[q] \in Procs

TypeInv == TypeOK /\ ServingInv

LEMMA NoneIsNobody == None \notin Procs /\ Procs = Readers \cup Writers
BY PipeAssumption DEF Procs

LEMMA LoadTyped ==
  ASSUME load \in Loads
  PROVE  load.procs \subseteq Procs /\ load.len \in Nat /\ load.len <= MaxLen /\ load.bytes \in Nat
BY LoadsAssumption, PipeAssumption

LEMMA MinOfTwo ==
  ASSUME NEW a \in Nat, NEW b \in Nat
  PROVE  /\ Min({a, b}) = IF a <= b THEN a ELSE b
         /\ Min({a, b}) = Min({b, a})
<1>1. \A x, y \in Nat : x <= y => Min({x, y}) = x /\ Min({y, x}) = x
  <2> SUFFICES ASSUME NEW x \in Nat, NEW y \in Nat, x <= y
               PROVE Min({x, y}) = x /\ Min({y, x}) = x
    OBVIOUS
  <2>1. \E m \in {x, y} : \A k \in {x, y} : m =< k
    OBVIOUS
  <2>2. Min({x, y}) \in {x, y} /\ \A k \in {x, y} : Min({x, y}) =< k
    BY <2>1 DEF Min
  <2>3. {y, x} = {x, y}
    OBVIOUS
  <2> QED BY <2>2, <2>3
<1> QED BY <1>1

LEMMA BytesTyped ==
  ASSUME TypeInv, NEW w \in Writers, NEW k \in Nat
  PROVE  /\ Bytes(w, k) \in Data /\ Len(Bytes(w, k)) = k
         /\ \A i \in 1..k : Bytes(w, k)[i] = <<w, pos[w] + i>>
         /\ DOMAIN Bytes(w, k) = 1..k
<1>1. pos[w] \in Nat /\ w \in Procs
  BY DEF TypeInv, TypeOK, Procs
<1>2. \A i \in 1..k : <<w, pos[w] + i>> \in (Procs \cup {None}) \X Nat
  BY <1>1
<1>3. Bytes(w, k) \in Data
  BY <1>2 DEF Bytes, Data
<1> QED BY <1>3 DEF Bytes, Data

LEMMA FilledTyped ==
  ASSUME NEW b \in Data, NEW k \in Nat
  PROVE  Filled(b, k) \in Data /\ (k = Len(b) => Filled(b, k) = b)
<1>1. \A i \in 1..k : (IF i <= Len(b) THEN b[i] ELSE <<None, 0>>) \in (Procs \cup {None}) \X Nat
  <2> SUFFICES ASSUME NEW i \in 1..k
               PROVE (IF i <= Len(b) THEN b[i] ELSE <<None, 0>>) \in (Procs \cup {None}) \X Nat
    OBVIOUS
  <2>1. i <= Len(b) => b[i] \in (Procs \cup {None}) \X Nat
    BY DEF Data
  <2> QED BY <2>1
<1>2. Filled(b, k) \in Data
  BY <1>1 DEF Filled, Data
<1>3. k = Len(b) => Filled(b, k) = b
  BY DEF Filled, Data
<1> QED BY <1>2, <1>3

LEMMA ReturnTyped ==
  ASSUME TypeInv, NEW q \in Procs, NEW k \in Nat, NEW b \in Data, Return(q, k, b)
  PROVE  /\ got' \in [Readers -> Data] /\ pos' \in [Writers -> Nat]
         /\ pc' \in [Procs -> {"idle"} \cup Copying \cup Closing]
         /\ {head, t, tp}' \subseteq Links
         /\ n' \in [Procs -> 0..MaxLen] /\ r' \in [Procs -> 0..MaxLen]
<1>1. Filled(b, k) \in Data /\ 0 \in 0..MaxLen
  BY FilledTyped, PipeAssumption
<1>2. got' \in [Readers -> Data]
  <2>1. \A x \in Readers : got[x] \o Filled(b, k) \in Data
    BY <1>1 DEF TypeInv, TypeOK, Data
  <2>2. got' = got \/ (q \in Readers /\ got' = [got EXCEPT ![q] = got[q] \o Filled(b, k)])
    BY DEF Return
  <2>3. got \in [Readers -> Data]
    BY DEF TypeInv, TypeOK
  <2> QED BY <2>1, <2>2, <2>3
<1>3. pos' \in [Writers -> Nat]
  <2>1. pos' = pos \/ (q \in Writers /\ pos' = [pos EXCEPT ![q] = pos[q] + k])
    BY DEF Return
  <2>2. pos \in [Writers -> Nat]
    BY DEF TypeInv, TypeOK
  <2> QED BY <2>1, <2>2
<1>4. n' \in [Procs -> 0..MaxLen] /\ r' \in [Procs -> 0..MaxLen]
  BY <1>1 DEF Return, Forget, TypeInv, TypeOK
<1>5. {head, t, tp}' \subseteq Links
  <2>1. head \in Links /\ t \in Links /\ tp \in Links
    BY DEF TypeInv, TypeOK
  <2>2. head' \in Links /\ t' \in Links /\ tp' \in Links
    BY <2>1 DEF Return, Forget, Links
  <2> QED BY <2>2
<1>6. pc' \in [Procs -> {"idle"} \cup Copying \cup Closing]
  BY DEF Return, Goto, TypeInv, TypeOK
<1> QED BY <1>2, <1>3, <1>4, <1>5, <1>6

LEMMA EOFTyped ==
  ASSUME NEW f \in [Procs -> 0..MaxLen], NEW p
  PROVE  [f EXCEPT ![p] = 0] \in [Procs -> 0..MaxLen]
<1>1. 0 \in 0..MaxLen
  BY PipeAssumption
<1> QED BY <1>1

(* Every action of one process keeps the type invariant.                   *)
LEMMA StepTyped ==
  ASSUME TypeInv, NEW q \in Procs, UNCHANGED load,
         q \in load.procs,
         Call(q) \/ Copies(q) \/ Closes(q) \/ Undefined(q)
  PROVE  TypeOK'
<1> USE DEF TypeInv, TypeOK, At, Goto, pipe, nodes, locals, result, Links
<1>0. /\ None \notin Procs /\ MaxLen \in Nat /\ load.len <= MaxLen /\ load.len \in Nat
      /\ <<>> \in Data
  BY PipeAssumption, LoadTyped DEF Data
<1>a. pc[q] \in {"take", "copy", "answer", "ready"} =>
         t[q] \in Procs /\ ~SameDirection(q, t[q])
  BY DEF ServingInv
<1>b. pc[q] \in {"ceof", "cready", "cnext"} => t[q] \in Procs
  BY DEF ServingInv
<1> HIDE DEF TypeInv
<1>1. ASSUME NEW k \in 1..load.len, Begin(q, k) PROVE TypeOK'
  <2>1. k \in 0..MaxLen
    BY <1>0
  <2> QED BY <1>1, <2>1 DEF Begin, Copying, TypeInv
<1>2. Close(q) => TypeOK'
  BY <1>0 DEF Close, TypeInv, Copying, Closing
<1>3. LoadHead(q) => TypeOK'
  BY <1>0 DEF LoadHead, TypeInv, Copying, Closing
<1>4. ASSUME Walk(q) PROVE TypeOK'
  <2>1. t[q] \in Procs /\ next[t[q]] \in Procs /\ next \in Links /\ head \in Links
    BY <1>4, <1>0 DEF Walk, TypeInv
  <2>2. t' \in Links /\ tp' \in Links /\ next' = next /\ head' = head
    BY <1>4, <1>0, <2>1 DEF Walk, TypeInv
  <2>3. {next, head, t, tp}' \subseteq Links
    BY <2>1, <2>2
  <2> QED BY <1>4, <2>3 DEF Walk, TypeInv
<1>5. WalkEnds(q) => TypeOK'
  BY <1>0 DEF WalkEnds, TypeInv, Copying
<1>6. ReturnEOF(q) => TypeOK'
  BY <1>0 DEF ReturnEOF, TypeInv, Forget
<1>7. Check(q) => TypeOK'
  BY <1>0 DEF Check, TypeInv, Copying
<1>8. Push(q) => TypeOK'
  BY <1>0 DEF Push, TypeInv, Copying
<1>9. PushFails(q) => TypeOK'
  BY <1>0 DEF PushFails, TypeInv, Copying
<1>10. Sleep(q) => TypeOK'
  BY <1>0 DEF Sleep, TypeInv, Copying
<1>11. ASSUME Wake(q) PROVE TypeOK'
  <2>1. Return(q, len[q], buf[q]) /\ len[q] \in Nat /\ buf[q] \in Data
    BY <1>11, <1>0 DEF Wake, TypeInv
  <2>2. /\ next' \in Links /\ len' \in [Procs -> 0..MaxLen] /\ buf' \in [Procs -> Data]
        /\ UNCHANGED <<pipe, state, ub>>
    BY <1>11, <1>0 DEF Wake, TypeInv
  <2> QED BY <2>1, <2>2, ReturnTyped DEF TypeInv
<1>12. ASSUME Take(q) PROVE TypeOK'
  <2>1. next \in Links /\ head \in Links /\ t \in Links /\ tp \in Links
    BY DEF TypeInv
  <2>2. /\ next' \in Links /\ trans' \in Procs \cup {None}
        /\ UNCHANGED <<head, t, tp>>
    BY <1>12, <2>1 DEF Take, TypeInv
  <2>3. {next, head, t, tp}' \subseteq Links
    BY <2>1, <2>2
  <2> QED BY <1>12, <2>2, <2>3 DEF Take, TypeInv, Copying
<1>13. ASSUME Copy(q) PROVE TypeOK'
  <2>1. n[q] \in 0..MaxLen /\ len[t[q]] \in 0..MaxLen
    BY <1>13, <1>a DEF Copy, TypeInv
  <2>2. Min({n[q], len[t[q]]}) \in 0..MaxLen
    BY <2>1, MinOfTwo
  <2> QED BY <1>13, <2>2 DEF Copy, TypeInv, Copying
<1>14. ASSUME Answer(q) PROVE TypeOK'
  <2> DEFINE w == IF q \in Writers THEN q ELSE t[q]
  <2>1. w \in Writers /\ r[q] \in 0..MaxLen /\ t[q] \in Procs
    BY <1>14, <1>a, PipeAssumption DEF Answer, TypeInv, SameDirection, Procs
  <2>2. Bytes(w, r[q]) \in Data
    BY <2>1, BytesTyped
  <2> QED BY <1>14, <2>1, <2>2 DEF Answer, TypeInv, Copying
<1>15. ASSUME Ready(q) PROVE TypeOK'
  <2> DEFINE b == IF q \in Readers THEN buf[t[q]] ELSE <<>>
  <2>1. Return(q, r[q], b) /\ r[q] \in Nat /\ b \in Data
    BY <1>15, <1>0, <1>a DEF Ready, TypeInv
  <2>2. state' \in [Procs -> {"run", "waiting"}] /\ UNCHANGED <<pipe, nodes, ub>>
    BY <1>15 DEF Ready, TypeInv
  <2> QED BY <2>1, <2>2, ReturnTyped DEF TypeInv
<1>16. NilEnd(q) => TypeOK'
  BY <1>0 DEF NilEnd, TypeInv, Closing, End
<1>c. ASSUME NEW label \in Closing, Goto(q, label) PROVE pc' \in [Procs -> {"idle"} \cup Copying \cup Closing]
  BY <1>c DEF TypeInv
<1>17. ASSUME LoadAll(q) PROVE TypeOK'
  <2>1. t' \in Links
    BY <1>17 DEF LoadAll, TypeInv
  <2>2. pc' \in [Procs -> {"idle"} \cup Copying \cup Closing]
    BY <1>c, <1>17 DEF LoadAll, Closing
  <2> QED BY <1>17, <2>1, <2>2 DEF LoadAll, TypeInv
<1>18. ASSUME ClearAll(q) PROVE TypeOK'
  <2>1. pc' \in [Procs -> {"idle"} \cup Copying \cup Closing]
    BY <1>c, <1>18 DEF ClearAll, Closing
  <2> QED BY <1>18, <2>1 DEF ClearAll, TypeInv
<1>19. ASSUME SetEOF(q) PROVE TypeOK'
  <2>1. len' \in [Procs -> 0..MaxLen]
    <3>1. len \in [Procs -> 0..MaxLen] /\ len' = [len EXCEPT ![t[q]] = 0]
      BY <1>19 DEF SetEOF, TypeInv
    <3> QED BY <3>1, EOFTyped
  <2>2. pc' \in [Procs -> {"idle"} \cup Copying \cup Closing]
    BY <1>c, <1>19 DEF SetEOF, Closing
  <2> QED BY <1>19, <2>1, <2>2 DEF SetEOF, TypeInv
<1>20. ASSUME WakeClosed(q) PROVE TypeOK'
  <2>1. state' \in [Procs -> {"run", "waiting"}]
    BY <1>20 DEF WakeClosed, TypeInv
  <2>2. pc' \in [Procs -> {"idle"} \cup Copying \cup Closing]
    BY <1>c, <1>20 DEF WakeClosed, Closing
  <2> QED BY <1>20, <2>1, <2>2 DEF WakeClosed, TypeInv
<1>21. ASSUME NextClosed(q) PROVE TypeOK'
  <2>1. t' \in Links
    BY <1>b, <1>21 DEF NextClosed, TypeInv
  <2>2. pc' \in [Procs -> {"idle"} \cup Copying \cup Closing]
    BY <1>c, <1>21 DEF NextClosed, Closing
  <2> QED BY <1>21, <2>1, <2>2 DEF NextClosed, TypeInv
<1>22. FreePipe(q) => TypeOK'
  BY <1>0 DEF FreePipe, TypeInv, Closing, Forget
<1>23. Undefined(q) => TypeOK'
  BY <1>0 DEF Undefined, TypeInv
<1> QED
  BY <1>1, <1>2, <1>3, <1>4, <1>5, <1>6, <1>7, <1>8, <1>9, <1>10, <1>11, <1>12, <1>13, <1>14, <1>15, <1>16, <1>17, <1>18, <1>19, <1>20, <1>21, <1>22, <1>23 DEF Call, Copies, Closes

LEMMA StepServing ==
  ASSUME TypeInv, NEW q \in Procs, q \in load.procs, TypeOK',
         Call(q) \/ Copies(q) \/ Closes(q) \/ Undefined(q)
  PROVE  ServingInv'
<1> USE DEF TypeInv, TypeOK, Links, ServingInv, At, Goto, pipe, nodes, locals, result,
            SameDirection, Procs
<1>1. None \notin Procs
  BY PipeAssumption
<1>2. Call(q) => ServingInv'
  BY <1>1 DEF Call, Begin, Close
<1>3. LoadHead(q) => ServingInv'
  BY <1>1 DEF LoadHead
<1>4. Walk(q) => ServingInv'
  BY <1>1 DEF Walk
<1>5. WalkEnds(q) => ServingInv'
  BY <1>1 DEF WalkEnds
<1>6. ReturnEOF(q) => ServingInv'
  BY <1>1 DEF ReturnEOF, Forget
<1>7. Check(q) => ServingInv'
  BY <1>1 DEF Check
<1>8. Push(q) => ServingInv'
  BY <1>1 DEF Push
<1>9. PushFails(q) => ServingInv'
  BY <1>1 DEF PushFails
<1>10. Sleep(q) => ServingInv'
  BY <1>1 DEF Sleep
<1>11. Wake(q) => ServingInv'
  BY <1>1 DEF Wake, Forget, Return
<1>12. Take(q) => ServingInv'
  BY <1>1 DEF Take
<1>13. Copy(q) => ServingInv'
  BY <1>1 DEF Copy
<1>14. Answer(q) => ServingInv'
  BY <1>1 DEF Answer
<1>15. Ready(q) => ServingInv'
  BY <1>1 DEF Ready, Forget, Return
<1>16. NilEnd(q) => ServingInv'
  BY <1>1 DEF NilEnd
<1>17. LoadAll(q) => ServingInv'
  BY <1>1 DEF LoadAll
<1>18. ClearAll(q) => ServingInv'
  BY <1>1 DEF ClearAll
<1>19. SetEOF(q) => ServingInv'
  BY <1>1 DEF SetEOF
<1>20. WakeClosed(q) => ServingInv'
  BY <1>1 DEF WakeClosed
<1>21. NextClosed(q) => ServingInv'
  BY <1>1 DEF NextClosed
<1>22. FreePipe(q) => ServingInv'
  BY <1>1 DEF FreePipe, Forget
<1>23. Undefined(q) => ServingInv'
  BY <1>1 DEF Undefined
<1> QED
  BY <1>2, <1>3, <1>4, <1>5, <1>6, <1>7, <1>8, <1>9, <1>10, <1>11, <1>12, <1>13, <1>14, <1>15, <1>16, <1>17, <1>18, <1>19, <1>20, <1>21, <1>22, <1>23 DEF Copies, Closes

LEMMA TypedStutter == TypeInv /\ UNCHANGED vars => TypeInv'
BY DEF TypeInv, TypeOK, ServingInv, vars, pipe, nodes, locals, result, SameDirection

LEMMA InitTyped == Init => TypeInv
<1> SUFFICES ASSUME Init PROVE TypeInv
  OBVIOUS
<1>1. <<>> \in Data /\ MaxLen \in Nat /\ 0 \in 0..MaxLen
  BY PipeAssumption DEF Data
<1>2. TypeOK
  BY <1>1 DEF Init, TypeOK, Links
<1>3. ServingInv
  BY DEF Init, ServingInv
<1> QED BY <1>2, <1>3 DEF TypeInv

LEMMA StaysTyped == TypeInv /\ [Next]_vars => TypeInv'
<1> SUFFICES ASSUME TypeInv, [Next]_vars PROVE TypeInv'
  OBVIOUS
<1>1. CASE UNCHANGED vars
  BY <1>1, TypedStutter
<1>2. CASE Next
  <2>1. PICK q \in load.procs : Call(q) \/ Copies(q) \/ Closes(q) \/ Undefined(q)
    BY <1>2 DEF Next
  <2>2. q \in Procs /\ UNCHANGED load
    BY <1>2, LoadTyped DEF Next, TypeInv, TypeOK
  <2>3. TypeOK'
    BY <2>1, <2>2, StepTyped
  <2> QED BY <2>1, <2>2, <2>3, StepServing DEF TypeInv
<1> QED BY <1>1, <1>2

(* The pipe, the transactions on the kernel stacks and the locals of       *)
(* pipedocopy() and pipeclose() keep their types, whoever shares the ends. *)
THEOREM PipeTyped == Spec => []TypeOK
<1>1. TypeInv => TypeOK
  BY DEF TypeInv
<1> QED BY InitTyped, StaysTyped, <1>1, PTL DEF Spec
-----------------------------------------------------------------------------
(* What q has gone past on its way along the list: W is a set of other     *)
(* transactions, it has the first of the list unless q is there itself,    *)
(* and nothing leads out of it but to where q is now.                      *)
Here(q) == IF pc[q] = "walk" THEN {t[q], None} ELSE {None}
Passed(q, W) == /\ q \notin W
                /\ trans \in W \cup Here(q)
                /\ \A m \in W : next[m] \in W \cup Here(q)
Walks(q) == pc[q] \in {"walk", "check", "push"}

(* A process that has walked the list to its end is not on it itself, so   *)
(* that its push does not close a cycle.                                   *)
PassedInv == \A q \in Procs : Walks(q) => \E W \in SUBSET Procs : Passed(q, W)

LinksInv == WalkIsFinite /\ PassedInv

LEMMA InitLinks == Init => LinksInv
<1> SUFFICES ASSUME Init PROVE LinksInv
  OBVIOUS
<1>1. \A q \in Procs : next[q] = None /\ ~Walks(q)
  BY DEF Init, Walks
<1>2. WalkIsFinite
  <2> SUFFICES ASSUME NEW X \in (SUBSET Procs) \ {{}}
               PROVE  \E q \in X : next[q] \notin X
    BY DEF WalkIsFinite
  <2>1. PICK q \in X : q \in Procs
    OBVIOUS
  <2>2. None \notin X
    BY NoneIsNobody
  <2> QED BY <1>1, <2>1, <2>2
<1> QED BY <1>1, <1>2 DEF LinksInv, PassedInv

(* Links that are only taken away close no cycle.                          *)
LEMMA CutsStayFinite ==
  ASSUME WalkIsFinite, \A m \in Procs : next'[m] \in {next[m], None}
  PROVE  WalkIsFinite'
<1> SUFFICES ASSUME NEW X \in (SUBSET Procs) \ {{}}
             PROVE  \E q \in X : next'[q] \notin X
  BY DEF WalkIsFinite
<1>1. PICK q \in X : next[q] \notin X
  BY DEF WalkIsFinite
<1>2. q \in Procs /\ None \notin X
  BY PipeAssumption
<1> QED BY <1>1, <1>2

(* What the others have gone past is unchanged by a step of y, which takes *)
(* links or the list away or pushes.                                       *)
LEMMA OthersPassed ==
  ASSUME PassedInv, NEW y \in Procs,
         \A q \in Procs \ {y} : pc'[q] = pc[q] /\ t'[q] = t[q],
         \/ /\ trans' \in {trans, None}
            /\ \A m \in Procs : next'[m] \in {next[m], None}
         \/ /\ trans' = y /\ next'[y] = trans
            /\ \A m \in Procs \ {y} : next'[m] = next[m]
  PROVE  \A q \in Procs \ {y} : Walks(q)' => \E W \in SUBSET Procs : Passed(q, W)'
<1> SUFFICES ASSUME NEW q \in Procs \ {y}, Walks(q)'
             PROVE  \E W \in SUBSET Procs : Passed(q, W)'
  OBVIOUS
<1>1. Walks(q) /\ pc'[q] = pc[q] /\ t'[q] = t[q]
  BY DEF Walks
<1>2. PICK W \in SUBSET Procs : Passed(q, W)
  BY <1>1 DEF PassedInv
<1>3. Here(q)' = Here(q) /\ None \in Here(q)
  BY <1>1 DEF Here
<1>4. CASE /\ trans' \in {trans, None}
           /\ \A m \in Procs : next'[m] \in {next[m], None}
  <2>1. Passed(q, W)'
    BY <1>2, <1>3, <1>4 DEF Passed
  <2> QED BY <2>1
<1>5. CASE /\ trans' = y /\ next'[y] = trans
           /\ \A m \in Procs \ {y} : next'[m] = next[m]
  <2>1. PICK T \in SUBSET Procs : T = W \cup {y}
    OBVIOUS
  <2>2. q \notin T /\ trans' \in T \cup Here(q)'
    BY <1>2, <1>5, <2>1 DEF Passed
  <2>3. \A m \in T : next'[m] \in T \cup Here(q)'
    BY <1>2, <1>3, <1>5, <2>1 DEF Passed
  <2>4. Passed(q, T)'
    BY <2>2, <2>3 DEF Passed
  <2> QED BY <2>4
<1> QED BY <1>4, <1>5

(* A step of y keeps the links as they should be when it only takes links  *)
(* away and y itself is not on its way.                                    *)
LEMMA CutKeepsLinks ==
  ASSUME LinksInv, NEW y \in Procs,
         \A q \in Procs \ {y} : pc'[q] = pc[q] /\ t'[q] = t[q],
         trans' \in {trans, None},
         \A m \in Procs : next'[m] \in {next[m], None},
         Walks(y)' => \E W \in SUBSET Procs : Passed(y, W)'
  PROVE  LinksInv'
<1>1. WalkIsFinite'
  BY CutsStayFinite DEF LinksInv
<1>2. \A q \in Procs \ {y} : Walks(q)' => \E W \in SUBSET Procs : Passed(q, W)'
  BY OthersPassed DEF LinksInv
<1>3. PassedInv'
  BY <1>2 DEF PassedInv
<1> QED BY <1>1, <1>3 DEF LinksInv

(* The links stay as they are, and so do the list and the places.          *)
LEMMA SameKeepsLinks ==
  ASSUME LinksInv, TypeInv, NEW y \in Procs, next' = next, trans' = trans,
         t' = t \/ (\E v : t' = [t EXCEPT ![y] = v]), \E l : pc' = [pc EXCEPT ![y] = l],
         Walks(y)' => \E W \in SUBSET Procs : Passed(y, W)'
  PROVE  LinksInv'
<1>1. \A q \in Procs \ {y} : pc'[q] = pc[q] /\ t'[q] = t[q]
  BY DEF TypeInv, TypeOK, Links
<1>2. trans' \in {trans, None} /\ \A m \in Procs : next'[m] \in {next[m], None}
  OBVIOUS
<1> QED BY <1>1, <1>2, CutKeepsLinks

LEMMA LoadHeadLinks ==
  ASSUME LinksInv, TypeInv, NEW y \in Procs, LoadHead(y)
  PROVE  LinksInv'
<1>1. /\ next' = next /\ trans' = trans /\ t' = [t EXCEPT ![y] = trans] /\ pc' = [pc EXCEPT ![y] = "walk"]
  BY DEF LoadHead, Goto, nodes, pipe
<1>2. t'[y] = trans /\ pc'[y] = "walk"
  BY <1>1 DEF TypeInv, TypeOK, Links
<1>3. Passed(y, {})'
  BY <1>1, <1>2 DEF Passed, Here
<1>4. \E W \in SUBSET Procs : Passed(y, W)'
  BY <1>3
<1> QED BY <1>1, <1>4, SameKeepsLinks

(* q goes past a transaction that is not its own: its own call does not    *)
(* wait.                                                                   *)
LEMMA WalkLinks ==
  ASSUME LinksInv, TypeInv, NEW y \in Procs, Walk(y)
  PROVE  LinksInv'
<1>1. /\ pc[y] = "walk" /\ t[y] # None /\ Live(t[y])
      /\ next' = next /\ trans' = trans /\ t' = [t EXCEPT ![y] = next[t[y]]] /\ pc' = pc
  BY DEF Walk, At, nodes, pipe
<1>2. t[y] \in Procs /\ t[y] # y /\ t'[y] = next[t[y]] /\ pc' = [pc EXCEPT ![y] = pc[y]]
  BY <1>1 DEF Live, TypeInv, TypeOK, Links
<1>3. PICK W \in SUBSET Procs : Passed(y, W)
  BY <1>1 DEF LinksInv, PassedInv, Walks
<1>4. PICK T \in SUBSET Procs : T = W \cup {t[y]}
  BY <1>2
<1>5. y \notin T
  BY <1>1, <1>2, <1>3, <1>4 DEF Passed, Here
<1>5a. trans' \in T \cup Here(y)'
  BY <1>1, <1>2, <1>3, <1>4 DEF Passed, Here
<1>6. \A m \in T : next'[m] \in T \cup Here(y)'
  BY <1>1, <1>2, <1>3, <1>4 DEF Passed, Here
<1>7. Passed(y, T)'
  BY <1>5, <1>5a, <1>6 DEF Passed
<1>8. \E U \in SUBSET Procs : Passed(y, U)'
  BY <1>7
<1> QED BY <1>1, <1>2, <1>8, SameKeepsLinks

LEMMA WalkEndsLinks ==
  ASSUME LinksInv, TypeInv, NEW y \in Procs, WalkEnds(y)
  PROVE  LinksInv'
<1>1. /\ pc[y] = "walk" /\ (t[y] # None => Live(t[y]) /\ next[t[y]] = None)
      /\ next' = next /\ trans' = trans /\ t' = t /\ pc' = [pc EXCEPT ![y] = "check"]
  BY DEF WalkEnds, At, Goto, nodes, pipe, locals
<1>2. t[y] \in Procs \cup {None} /\ t[y] # y /\ pc'[y] = "check"
  BY <1>1, NoneIsNobody DEF Live, TypeInv, TypeOK, Links
<1>3. PICK W \in SUBSET Procs : Passed(y, W)
  BY <1>1 DEF LinksInv, PassedInv, Walks
<1>4. PICK T \in SUBSET Procs : T = W \cup ({t[y]} \ {None})
  BY <1>2
<1>5. y \notin T /\ trans' \in T \cup {None}
  BY <1>1, <1>2, <1>3, <1>4 DEF Passed, Here
<1>6. \A m \in T : next'[m] \in T \cup {None}
  BY <1>1, <1>2, <1>3, <1>4 DEF Passed, Here
<1>7. Passed(y, T)'
  BY <1>2, <1>5, <1>6 DEF Passed, Here
<1>8. \E U \in SUBSET Procs : Passed(y, U)'
  BY <1>7
<1> QED BY <1>1, <1>8, SameKeepsLinks

(* "check" and "push" come after the walk. *)
LEMMA CheckLinks ==
  ASSUME LinksInv, TypeInv, NEW y \in Procs, Check(y)
  PROVE  LinksInv'
<1>1. /\ pc[y] = "check" /\ next' = next /\ trans' = trans /\ t' = t
      /\ pc' = [pc EXCEPT ![y] = IF t[y] # None /\ ~SameDirection(y, t[y]) THEN "take" ELSE "push"]
  BY DEF Check, At, Goto, nodes, pipe, locals
<1>2. pc'[y] \in {"take", "push"}
  BY <1>1 DEF TypeInv, TypeOK
<1>3. PICK W \in SUBSET Procs : Passed(y, W)
  BY <1>1 DEF LinksInv, PassedInv, Walks
<1>4. Passed(y, W)'
  BY <1>1, <1>2, <1>3 DEF Passed, Here
<1>5. \E U \in SUBSET Procs : Passed(y, U)'
  BY <1>4
<1>6. \E l : pc' = [pc EXCEPT ![y] = l]
  BY <1>1
<1> QED BY <1>1, <1>5, <1>6, SameKeepsLinks

(* The push links a transaction in front of a list that does not lead to it. *)
LEMMA PushLinks ==
  ASSUME LinksInv, TypeInv, NEW y \in Procs, Push(y)
  PROVE  LinksInv'
<1>1. /\ pc[y] = "push" /\ trans = head[y] /\ trans' = y /\ next' = [next EXCEPT ![y] = trans]
      /\ t' = t /\ pc' = [pc EXCEPT ![y] = "sleep"]
  BY DEF Push, At, Goto, locals
<1>2. /\ next'[y] = trans /\ (\A m \in Procs \ {y} : next'[m] = next[m])
      /\ pc'[y] = "sleep" /\ (\A m \in Procs \ {y} : pc'[m] = pc[m] /\ t'[m] = t[m])
  BY <1>1 DEF TypeInv, TypeOK, Links
<1>3. \A q \in Procs \ {y} : Walks(q)' => \E W \in SUBSET Procs : Passed(q, W)'
  BY <1>1, <1>2, OthersPassed DEF LinksInv
<1>4. PassedInv'
  BY <1>2, <1>3 DEF PassedInv, Walks
<1>5. PICK W \in SUBSET Procs : Passed(y, W)
  BY <1>1 DEF LinksInv, PassedInv, Walks
<1>6. WalkIsFinite'
  <2> SUFFICES ASSUME NEW X \in (SUBSET Procs) \ {{}}
               PROVE  \E q \in X : next'[q] \notin X
    BY DEF WalkIsFinite
  <2> SUFFICES ASSUME \A q \in X : next'[q] \in X PROVE FALSE
    OBVIOUS
  <2>1. None \notin X
    BY NoneIsNobody
  <2>2. y \in X
    <3> SUFFICES ASSUME y \notin X PROVE FALSE
      OBVIOUS
    <3>1. \A q \in X : next[q] \in X
      BY <1>2
    <3> QED BY <3>1 DEF LinksInv, WalkIsFinite
  <2>3. PICK Y \in SUBSET Procs : Y = X \cap W
    OBVIOUS
  <2>4. trans \in Y
    BY <1>1, <1>2, <1>5, <2>1, <2>2, <2>3 DEF Passed, Here
  <2>5. \A q \in Y : next[q] \in Y
    <3> SUFFICES ASSUME NEW q \in Y PROVE next[q] \in Y
      OBVIOUS
    <3>1. q # y /\ q \in W /\ q \in X /\ q \in Procs
      BY <1>5, <2>3 DEF Passed
    <3>2. next[q] \in X
      BY <1>2, <3>1
    <3>3. next[q] \in W \cup {None}
      BY <1>1, <1>5, <3>1 DEF Passed, Here
    <3> QED BY <2>1, <2>3, <3>2, <3>3
  <2> QED BY <2>4, <2>5 DEF LinksInv, WalkIsFinite
<1> QED BY <1>4, <1>6 DEF LinksInv

(* Links are taken away by a server, by a call that is over and by a close. *)
LEMMA CutLinks ==
  ASSUME LinksInv, TypeInv, NEW y \in Procs, Wake(y) \/ Take(y) \/ ClearAll(y)
  PROVE  LinksInv'
<1>1. /\ pc' \in {[pc EXCEPT ![y] = l] : l \in {"idle", "copy", "cfree", "ceof"}}
      /\ trans' \in {trans, None}
  BY DEF Wake, Take, ClearAll, Return, Goto, pipe
<1>2. \A q \in Procs \ {y} : t'[q] = t[q]
  BY DEF Wake, Take, ClearAll, Return, Forget, locals, TypeInv, TypeOK, Links
<1>3. \A m \in Procs : next'[m] \in {next[m], None}
  BY DEF Wake, Take, ClearAll, nodes, TypeInv, TypeOK, Links
<1>4. (\A q \in Procs \ {y} : pc'[q] = pc[q]) /\ ~Walks(y)'
  BY <1>1 DEF Walks, TypeInv, TypeOK
<1> QED BY <1>1, <1>2, <1>3, <1>4, CutKeepsLinks

(* The other steps change no link, and leave the walk or are not on it.    *)
LEMMA OtherLinks ==
  ASSUME LinksInv, TypeInv, NEW y \in Procs,
         \/ (\E k \in 1..load.len : Begin(y, k)) \/ Close(y) \/ ReturnEOF(y) \/ PushFails(y)
         \/ Sleep(y) \/ Copy(y) \/ Answer(y) \/ Ready(y) \/ NilEnd(y) \/ LoadAll(y)
         \/ SetEOF(y) \/ WakeClosed(y) \/ NextClosed(y) \/ FreePipe(y)
  PROVE  LinksInv'
<1>1. /\ next' = next /\ trans' = trans
      /\ t' = t \/ \E v : t' = [t EXCEPT ![y] = v]
  BY DEF Begin, Close, ReturnEOF, PushFails, Sleep, Copy, Answer, Ready, NilEnd, LoadAll, SetEOF,
         WakeClosed, NextClosed, FreePipe, Return, Forget, nodes, pipe, locals
<1>2. pc' \in {[pc EXCEPT ![y] = l] : l \in {"head", "cnil", "idle", "wake", "answer", "ready", "cload",
                  "cclear", "cready", "cnext", "cfree", "ceof", "closed"}}
  BY DEF Begin, Close, ReturnEOF, PushFails, Sleep, Copy, Answer, Ready, NilEnd, LoadAll, SetEOF,
         WakeClosed, NextClosed, FreePipe, Return, Goto
<1>3. ~Walks(y)' /\ \E l : pc' = [pc EXCEPT ![y] = l]
  BY <1>2 DEF Walks, TypeInv, TypeOK
<1> QED BY <1>1, <1>3, SameKeepsLinks

LEMMA LinksStay == LinksInv /\ TypeInv /\ [Next]_vars => LinksInv'
<1> SUFFICES ASSUME LinksInv, TypeInv, [Next]_vars PROVE LinksInv'
  OBVIOUS
<1>1. ASSUME UNCHANGED <<next, trans, t, pc>> PROVE LinksInv'
  BY <1>1 DEF LinksInv, WalkIsFinite, PassedInv, Passed, Here, Walks
<1>2. CASE UNCHANGED vars
  BY <1>1, <1>2 DEF vars, pipe, nodes, locals
<1>3. CASE Next
  <2>1. PICK y \in load.procs : Call(y) \/ Copies(y) \/ Closes(y) \/ Undefined(y)
    BY <1>3 DEF Next
  <2>2. y \in Procs
    BY <2>1, LoadTyped DEF TypeInv, TypeOK
  <2>3. CASE Undefined(y)
    BY <1>1, <2>3 DEF Undefined, pipe, nodes, locals
  <2>4. CASE Call(y)
    BY <2>2, <2>4, OtherLinks DEF Call
  <2>5. CASE Copies(y)
    BY <2>2, <2>5, LoadHeadLinks, WalkLinks, WalkEndsLinks, CheckLinks, PushLinks, CutLinks,
       OtherLinks DEF Copies
  <2>6. CASE Closes(y)
    BY <2>2, <2>6, CutLinks, OtherLinks DEF Closes
  <2> QED BY <2>1, <2>3, <2>4, <2>5, <2>6
<1> QED BY <1>2, <1>3

(* However many processes share the ends of a pipe, and whatever races     *)
(* they run into, the links of the transactions form no cycle.             *)
THEOREM LinksEnd == Spec => []WalkIsFinite
<1>1. TypeInv /\ LinksInv /\ [Next]_vars => (TypeInv /\ LinksInv)'
  BY StaysTyped, LinksStay
<1>2. LinksInv => WalkIsFinite
  BY DEF LinksInv
<1> QED BY InitTyped, InitLinks, <1>1, <1>2, PTL DEF Spec
-----------------------------------------------------------------------------
(* The call of m waits and nobody has answered it; somebody has, with      *)
(* bytes; somebody has told it that an end is closed.                      *)
Parked(m) == Live(m) /\ (pc[m] = "wake" => state[m] = "waiting")
Fresh(m) == Parked(m) /\ buf[m] = <<>> /\ len[m] = n[m]
Answered(m) == Live(m) /\ buf[m] # <<>> /\ len[m] = Len(buf[m])
Told(m) == buf[m] = <<>> /\ len[m] = 0 /\ ends # {"c0", "c1"}

(* The other processes that use the pipe: with one on each side, the other *)
(* side.                                                                   *)
Peers(q) == load.procs \ {q}

(* What holds of the transaction and the locals of q itself.               *)
OwnInv(q) ==
  /\ next[q] = None /\ tp[q] = None
  /\ q \notin load.procs => pc[q] = "idle"
  /\ IF pc[q] \in Copying THEN n[q] \in 1..MaxLen ELSE n[q] = 0
  /\ IF Live(q) THEN Fresh(q) \/ Answered(q) \/ Told(q)
     ELSE len[q] = 0 /\ buf[q] = <<>> /\ state[q] = "run"
  /\ pc[q] \in {"walk", "check"} => head[q] = t[q]
  /\ pc[q] = "push" => head[q] = None
  /\ pc[q] \in Closing \ {"cnil"} => ends # {"c0", "c1"}

(* The transaction on the list is one that waits.                          *)
ListInv == trans # None => trans \in load.procs /\ Fresh(trans)

(* What q knows of the transaction it has found.                           *)
ServeInv(q) ==
  /\ pc[q] \in {"walk", "check", "take", "cclear"} /\ t[q] # None => trans = t[q]
  /\ pc[q] \in {"take", "copy", "answer", "ready", "ceof", "cready"} =>
       t[q] \in Peers(q)
  /\ pc[q] \in {"copy", "answer", "ready", "ceof", "cready"} => trans = None
  /\ pc[q] \in {"copy", "answer", "ceof"} => Fresh(t[q])
  /\ pc[q] = "answer" => r[q] = Min({n[q], n[t[q]]})
  /\ pc[q] = "ready" => Parked(t[q]) /\ Answered(t[q]) /\ r[q] = len[t[q]]
  /\ pc[q] = "cready" => Parked(t[q]) /\ Told(t[q])

(* What a reader has got, with what its call has in its buffer, is the     *)
(* stream of the writer, up to where the writer knows it to have gone.     *)
StreamInv ==
  \A rd \in Readers \cap load.procs, w \in Writers \cap load.procs :
    /\ Len(got[rd]) + Len(Moved(rd)) = pos[w] + Len(Moved(w))
    /\ \A j \in DOMAIN got[rd] : got[rd][j] = <<w, j>>
    /\ \A j \in DOMAIN Moved(rd) : Moved(rd)[j] = <<w, Len(got[rd]) + j>>
(* Nothing is written where nobody reads.                                  *)
PeerInv ==
  \A w \in Writers : pos[w] + Len(Moved(w)) > 0 =>
    w \in load.procs /\ Readers \cap load.procs # {}

CoreInv == (\A q \in Procs : OwnInv(q) /\ ServeInv(q)) /\ ListInv
AloneInv == CoreInv /\ StreamInv /\ PeerInv

LEMMA OnePeer ==
  ASSUME OneEach, NEW q \in load.procs, NEW m \in Peers(q)
  PROVE  /\ m # q /\ m \in load.procs /\ ~SameDirection(q, m)
         /\ \A x \in load.procs : x = q \/ x = m
BY DEF OneEach, SameDirection, Peers

LEMMA BeginCore ==
  ASSUME TypeInv, TypeInv', OneEach, CoreInv, NEW q \in load.procs, NEW k \in 1..load.len, UNCHANGED load,
         Begin(q, k)
  PROVE  CoreInv'
<1> USE DEF TypeInv, TypeOK, Links, At, Goto, pipe, nodes, locals, result, Copying, Closing,
            Live, Parked, Fresh, Answered, Told
<1>0. None \notin Procs /\ q \in Procs /\ load.procs \subseteq Procs /\ load.len <= MaxLen /\ MaxLen \in Nat /\ load.len \in Nat
  BY LoadTyped, PipeAssumption
<1>1. OwnInv(q) /\ ServeInv(q) /\ ListInv /\ \A x \in Procs : OwnInv(x) /\ ServeInv(x)
  BY <1>0 DEF CoreInv
<1>2. OwnInv(q)'
  BY <1>0, <1>1, OnePeer DEF Begin, OwnInv, ServeInv, ListInv, Peers
<1>3. ASSUME NEW x \in Procs, x # q PROVE OwnInv(x)'
  <2>1. OwnInv(x) /\ ServeInv(x)
    BY <1>1
  <2>2. x \in load.procs => x \in Peers(q) /\ q \in Peers(x)
    BY <1>3 DEF Peers
  <2> QED BY <1>0, <1>1, <1>3, <2>1, <2>2, OnePeer DEF Begin, OwnInv, ServeInv, ListInv, Peers
<1>4. ListInv'
  BY <1>0, <1>1, OnePeer DEF Begin, OwnInv, ServeInv, ListInv, Peers
<1>5. ServeInv(q)'
  BY <1>0, <1>1, OnePeer DEF Begin, OwnInv, ServeInv, ListInv, Peers
<1>6. ASSUME NEW x \in Procs, x # q PROVE ServeInv(x)'
  <2>1. OwnInv(x) /\ ServeInv(x)
    BY <1>1
  <2>2. x \in load.procs => x \in Peers(q) /\ q \in Peers(x)
    BY <1>6 DEF Peers
  <2> QED BY <1>0, <1>1, <1>6, <2>1, <2>2, OnePeer DEF Begin, OwnInv, ServeInv, ListInv, Peers
<1> QED BY <1>2, <1>3, <1>4, <1>5, <1>6 DEF CoreInv

LEMMA CloseCore ==
  ASSUME TypeInv, TypeInv', OneEach, CoreInv, NEW q \in load.procs, UNCHANGED load,
         Close(q)
  PROVE  CoreInv'
<1> USE DEF TypeInv, TypeOK, Links, At, Goto, pipe, nodes, locals, result, Copying, Closing,
            Live, Parked, Fresh, Answered, Told
<1>0. None \notin Procs /\ q \in Procs /\ load.procs \subseteq Procs /\ load.len <= MaxLen /\ MaxLen \in Nat /\ load.len \in Nat
  BY LoadTyped, PipeAssumption
<1>1. OwnInv(q) /\ ServeInv(q) /\ ListInv /\ \A x \in Procs : OwnInv(x) /\ ServeInv(x)
  BY <1>0 DEF CoreInv
<1>2. OwnInv(q)'
  BY <1>0, <1>1, OnePeer DEF Close, OwnInv, ServeInv, ListInv, Peers
<1>3. ASSUME NEW x \in Procs, x # q PROVE OwnInv(x)'
  <2>1. OwnInv(x) /\ ServeInv(x)
    BY <1>1
  <2>2. x \in load.procs => x \in Peers(q) /\ q \in Peers(x)
    BY <1>3 DEF Peers
  <2> QED BY <1>0, <1>1, <1>3, <2>1, <2>2, OnePeer DEF Close, OwnInv, ServeInv, ListInv, Peers
<1>4. ListInv'
  BY <1>0, <1>1, OnePeer DEF Close, OwnInv, ServeInv, ListInv, Peers
<1>5. ServeInv(q)'
  BY <1>0, <1>1, OnePeer DEF Close, OwnInv, ServeInv, ListInv, Peers
<1>6. ASSUME NEW x \in Procs, x # q PROVE ServeInv(x)'
  <2>1. OwnInv(x) /\ ServeInv(x)
    BY <1>1
  <2>2. x \in load.procs => x \in Peers(q) /\ q \in Peers(x)
    BY <1>6 DEF Peers
  <2> QED BY <1>0, <1>1, <1>6, <2>1, <2>2, OnePeer DEF Close, OwnInv, ServeInv, ListInv, Peers
<1> QED BY <1>2, <1>3, <1>4, <1>5, <1>6 DEF CoreInv

LEMMA LoadHeadCore ==
  ASSUME TypeInv, TypeInv', OneEach, CoreInv, NEW q \in load.procs, UNCHANGED load,
         LoadHead(q)
  PROVE  CoreInv'
<1> USE DEF TypeInv, TypeOK, Links, At, Goto, pipe, nodes, locals, result, Copying, Closing,
            Live, Parked, Fresh, Answered, Told
<1>0. None \notin Procs /\ q \in Procs /\ load.procs \subseteq Procs /\ load.len <= MaxLen /\ MaxLen \in Nat /\ load.len \in Nat
  BY LoadTyped, PipeAssumption
<1>1. OwnInv(q) /\ ServeInv(q) /\ ListInv /\ \A x \in Procs : OwnInv(x) /\ ServeInv(x)
  BY <1>0 DEF CoreInv
<1>2. OwnInv(q)'
  BY <1>0, <1>1, OnePeer DEF LoadHead, OwnInv, ServeInv, ListInv, Peers
<1>3. ASSUME NEW x \in Procs, x # q PROVE OwnInv(x)'
  <2>1. OwnInv(x) /\ ServeInv(x)
    BY <1>1
  <2>2. x \in load.procs => x \in Peers(q) /\ q \in Peers(x)
    BY <1>3 DEF Peers
  <2> QED BY <1>0, <1>1, <1>3, <2>1, <2>2, OnePeer DEF LoadHead, OwnInv, ServeInv, ListInv, Peers
<1>4. ListInv'
  BY <1>0, <1>1, OnePeer DEF LoadHead, OwnInv, ServeInv, ListInv, Peers
<1>5. ServeInv(q)'
  BY <1>0, <1>1, OnePeer DEF LoadHead, OwnInv, ServeInv, ListInv, Peers
<1>6. ASSUME NEW x \in Procs, x # q PROVE ServeInv(x)'
  <2>1. OwnInv(x) /\ ServeInv(x)
    BY <1>1
  <2>2. x \in load.procs => x \in Peers(q) /\ q \in Peers(x)
    BY <1>6 DEF Peers
  <2> QED BY <1>0, <1>1, <1>6, <2>1, <2>2, OnePeer DEF LoadHead, OwnInv, ServeInv, ListInv, Peers
<1> QED BY <1>2, <1>3, <1>4, <1>5, <1>6 DEF CoreInv

(* With one process on each side the list has one element at most.         *)
LEMMA WalkCore ==
  ASSUME TypeInv, CoreInv, NEW q \in load.procs
  PROVE  ~Walk(q)
<1>1. SUFFICES ASSUME Walk(q) PROVE FALSE
  OBVIOUS
<1>2. q \in Procs /\ None \notin Procs
  BY LoadTyped, PipeAssumption DEF TypeInv, TypeOK
<1>3. t[q] \in Procs
  BY <1>1, <1>2 DEF Walk, TypeInv, TypeOK, Links
<1>4. next[t[q]] = None
  BY <1>3 DEF CoreInv, OwnInv
<1> QED BY <1>1, <1>4 DEF Walk

LEMMA WalkEndsCore ==
  ASSUME TypeInv, TypeInv', OneEach, CoreInv, NEW q \in load.procs, UNCHANGED load,
         WalkEnds(q)
  PROVE  CoreInv'
<1> USE DEF TypeInv, TypeOK, Links, At, Goto, pipe, nodes, locals, result, Copying, Closing,
            Live, Parked, Fresh, Answered, Told
<1>0. None \notin Procs /\ q \in Procs /\ load.procs \subseteq Procs /\ load.len <= MaxLen /\ MaxLen \in Nat /\ load.len \in Nat
  BY LoadTyped, PipeAssumption
<1>1. OwnInv(q) /\ ServeInv(q) /\ ListInv /\ \A x \in Procs : OwnInv(x) /\ ServeInv(x)
  BY <1>0 DEF CoreInv
<1>2. OwnInv(q)'
  BY <1>0, <1>1, OnePeer DEF WalkEnds, OwnInv, ServeInv, ListInv, Peers
<1>3. ASSUME NEW x \in Procs, x # q PROVE OwnInv(x)'
  <2>1. OwnInv(x) /\ ServeInv(x)
    BY <1>1
  <2>2. x \in load.procs => x \in Peers(q) /\ q \in Peers(x)
    BY <1>3 DEF Peers
  <2> QED BY <1>0, <1>1, <1>3, <2>1, <2>2, OnePeer DEF WalkEnds, OwnInv, ServeInv, ListInv, Peers
<1>4. ListInv'
  BY <1>0, <1>1, OnePeer DEF WalkEnds, OwnInv, ServeInv, ListInv, Peers
<1>5. ServeInv(q)'
  BY <1>0, <1>1, OnePeer DEF WalkEnds, OwnInv, ServeInv, ListInv, Peers
<1>6. ASSUME NEW x \in Procs, x # q PROVE ServeInv(x)'
  <2>1. OwnInv(x) /\ ServeInv(x)
    BY <1>1
  <2>2. x \in load.procs => x \in Peers(q) /\ q \in Peers(x)
    BY <1>6 DEF Peers
  <2> QED BY <1>0, <1>1, <1>6, <2>1, <2>2, OnePeer DEF WalkEnds, OwnInv, ServeInv, ListInv, Peers
<1> QED BY <1>2, <1>3, <1>4, <1>5, <1>6 DEF CoreInv

LEMMA ReturnEOFCore ==
  ASSUME TypeInv, TypeInv', OneEach, CoreInv, NEW q \in load.procs, UNCHANGED load,
         ReturnEOF(q)
  PROVE  CoreInv'
<1> USE DEF TypeInv, TypeOK, Links, At, Goto, pipe, nodes, locals, result, Copying, Closing,
            Live, Parked, Fresh, Answered, Told
<1>0. None \notin Procs /\ q \in Procs /\ load.procs \subseteq Procs /\ load.len <= MaxLen /\ MaxLen \in Nat /\ load.len \in Nat
  BY LoadTyped, PipeAssumption
<1>1. OwnInv(q) /\ ServeInv(q) /\ ListInv /\ \A x \in Procs : OwnInv(x) /\ ServeInv(x)
  BY <1>0 DEF CoreInv
<1>2. OwnInv(q)'
  BY <1>0, <1>1, OnePeer DEF ReturnEOF, OwnInv, ServeInv, ListInv, Peers, Forget
<1>3. ASSUME NEW x \in Procs, x # q PROVE OwnInv(x)'
  <2>1. OwnInv(x) /\ ServeInv(x)
    BY <1>1
  <2>2. x \in load.procs => x \in Peers(q) /\ q \in Peers(x)
    BY <1>3 DEF Peers
  <2> QED BY <1>0, <1>1, <1>3, <2>1, <2>2, OnePeer DEF ReturnEOF, OwnInv, ServeInv, ListInv, Peers, Forget
<1>4. ListInv'
  BY <1>0, <1>1, OnePeer DEF ReturnEOF, OwnInv, ServeInv, ListInv, Peers, Forget
<1>5. ServeInv(q)'
  BY <1>0, <1>1, OnePeer DEF ReturnEOF, OwnInv, ServeInv, ListInv, Peers, Forget
<1>6. ASSUME NEW x \in Procs, x # q PROVE ServeInv(x)'
  <2>1. OwnInv(x) /\ ServeInv(x)
    BY <1>1
  <2>2. x \in load.procs => x \in Peers(q) /\ q \in Peers(x)
    BY <1>6 DEF Peers
  <2> QED BY <1>0, <1>1, <1>6, <2>1, <2>2, OnePeer DEF ReturnEOF, OwnInv, ServeInv, ListInv, Peers, Forget
<1> QED BY <1>2, <1>3, <1>4, <1>5, <1>6 DEF CoreInv

LEMMA CheckCore ==
  ASSUME TypeInv, TypeInv', OneEach, CoreInv, NEW q \in load.procs, UNCHANGED load,
         Check(q)
  PROVE  CoreInv'
<1> USE DEF TypeInv, TypeOK, Links, At, Goto, pipe, nodes, locals, result, Copying, Closing,
            Live, Parked, Fresh, Answered, Told
<1>0. None \notin Procs /\ q \in Procs /\ load.procs \subseteq Procs /\ load.len <= MaxLen /\ MaxLen \in Nat /\ load.len \in Nat
  BY LoadTyped, PipeAssumption
<1>1. OwnInv(q) /\ ServeInv(q) /\ ListInv /\ \A x \in Procs : OwnInv(x) /\ ServeInv(x)
  BY <1>0 DEF CoreInv
<1>2. OwnInv(q)'
  BY <1>0, <1>1, OnePeer DEF Check, OwnInv, ServeInv, ListInv, Peers
<1>3. ASSUME NEW x \in Procs, x # q PROVE OwnInv(x)'
  <2>1. OwnInv(x) /\ ServeInv(x)
    BY <1>1
  <2>2. x \in load.procs => x \in Peers(q) /\ q \in Peers(x)
    BY <1>3 DEF Peers
  <2> QED BY <1>0, <1>1, <1>3, <2>1, <2>2, OnePeer DEF Check, OwnInv, ServeInv, ListInv, Peers
<1>4. ListInv'
  BY <1>0, <1>1, OnePeer DEF Check, OwnInv, ServeInv, ListInv, Peers
<1>5. ServeInv(q)'
  BY <1>0, <1>1, OnePeer DEF Check, OwnInv, ServeInv, ListInv, Peers
<1>6. ASSUME NEW x \in Procs, x # q PROVE ServeInv(x)'
  <2>1. OwnInv(x) /\ ServeInv(x)
    BY <1>1
  <2>2. x \in load.procs => x \in Peers(q) /\ q \in Peers(x)
    BY <1>6 DEF Peers
  <2> QED BY <1>0, <1>1, <1>6, <2>1, <2>2, OnePeer DEF Check, OwnInv, ServeInv, ListInv, Peers
<1> QED BY <1>2, <1>3, <1>4, <1>5, <1>6 DEF CoreInv

LEMMA PushCore ==
  ASSUME TypeInv, TypeInv', OneEach, CoreInv, NEW q \in load.procs, UNCHANGED load,
         Push(q)
  PROVE  CoreInv'
<1> USE DEF TypeInv, TypeOK, Links, At, Goto, pipe, nodes, locals, result, Copying, Closing,
            Live, Parked, Fresh, Answered, Told
<1>0. None \notin Procs /\ q \in Procs /\ load.procs \subseteq Procs /\ load.len <= MaxLen /\ MaxLen \in Nat /\ load.len \in Nat
  BY LoadTyped, PipeAssumption
<1>1. OwnInv(q) /\ ServeInv(q) /\ ListInv /\ \A x \in Procs : OwnInv(x) /\ ServeInv(x)
  BY <1>0 DEF CoreInv
<1>2. OwnInv(q)'
  BY <1>0, <1>1, OnePeer DEF Push, OwnInv, ServeInv, ListInv, Peers
<1>3. ASSUME NEW x \in Procs, x # q PROVE OwnInv(x)'
  <2>1. OwnInv(x) /\ ServeInv(x)
    BY <1>1
  <2>2. x \in load.procs => x \in Peers(q) /\ q \in Peers(x)
    BY <1>3 DEF Peers
  <2> QED BY <1>0, <1>1, <1>3, <2>1, <2>2, OnePeer DEF Push, OwnInv, ServeInv, ListInv, Peers
<1>4. ListInv'
  BY <1>0, <1>1, OnePeer DEF Push, OwnInv, ServeInv, ListInv, Peers
<1>5. ServeInv(q)'
  BY <1>0, <1>1, OnePeer DEF Push, OwnInv, ServeInv, ListInv, Peers
<1>6. ASSUME NEW x \in Procs, x # q PROVE ServeInv(x)'
  <2>1. OwnInv(x) /\ ServeInv(x)
    BY <1>1
  <2>2. x \in load.procs => x \in Peers(q) /\ q \in Peers(x)
    BY <1>6 DEF Peers
  <2> QED BY <1>0, <1>1, <1>6, <2>1, <2>2, OnePeer DEF Push, OwnInv, ServeInv, ListInv, Peers
<1> QED BY <1>2, <1>3, <1>4, <1>5, <1>6 DEF CoreInv

LEMMA PushFailsCore ==
  ASSUME TypeInv, TypeInv', OneEach, CoreInv, NEW q \in load.procs, UNCHANGED load,
         PushFails(q)
  PROVE  CoreInv'
<1> USE DEF TypeInv, TypeOK, Links, At, Goto, pipe, nodes, locals, result, Copying, Closing,
            Live, Parked, Fresh, Answered, Told
<1>0. None \notin Procs /\ q \in Procs /\ load.procs \subseteq Procs /\ load.len <= MaxLen /\ MaxLen \in Nat /\ load.len \in Nat
  BY LoadTyped, PipeAssumption
<1>1. OwnInv(q) /\ ServeInv(q) /\ ListInv /\ \A x \in Procs : OwnInv(x) /\ ServeInv(x)
  BY <1>0 DEF CoreInv
<1>2. OwnInv(q)'
  BY <1>0, <1>1, OnePeer DEF PushFails, OwnInv, ServeInv, ListInv, Peers
<1>3. ASSUME NEW x \in Procs, x # q PROVE OwnInv(x)'
  <2>1. OwnInv(x) /\ ServeInv(x)
    BY <1>1
  <2>2. x \in load.procs => x \in Peers(q) /\ q \in Peers(x)
    BY <1>3 DEF Peers
  <2> QED BY <1>0, <1>1, <1>3, <2>1, <2>2, OnePeer DEF PushFails, OwnInv, ServeInv, ListInv, Peers
<1>4. ListInv'
  BY <1>0, <1>1, OnePeer DEF PushFails, OwnInv, ServeInv, ListInv, Peers
<1>5. ServeInv(q)'
  BY <1>0, <1>1, OnePeer DEF PushFails, OwnInv, ServeInv, ListInv, Peers
<1>6. ASSUME NEW x \in Procs, x # q PROVE ServeInv(x)'
  <2>1. OwnInv(x) /\ ServeInv(x)
    BY <1>1
  <2>2. x \in load.procs => x \in Peers(q) /\ q \in Peers(x)
    BY <1>6 DEF Peers
  <2> QED BY <1>0, <1>1, <1>6, <2>1, <2>2, OnePeer DEF PushFails, OwnInv, ServeInv, ListInv, Peers
<1> QED BY <1>2, <1>3, <1>4, <1>5, <1>6 DEF CoreInv

LEMMA SleepCore ==
  ASSUME TypeInv, TypeInv', OneEach, CoreInv, NEW q \in load.procs, UNCHANGED load,
         Sleep(q)
  PROVE  CoreInv'
<1> USE DEF TypeInv, TypeOK, Links, At, Goto, pipe, nodes, locals, result, Copying, Closing,
            Live, Parked, Fresh, Answered, Told
<1>0. None \notin Procs /\ q \in Procs /\ load.procs \subseteq Procs /\ load.len <= MaxLen /\ MaxLen \in Nat /\ load.len \in Nat
  BY LoadTyped, PipeAssumption
<1>1. OwnInv(q) /\ ServeInv(q) /\ ListInv /\ \A x \in Procs : OwnInv(x) /\ ServeInv(x)
  BY <1>0 DEF CoreInv
<1>2. OwnInv(q)'
  BY <1>0, <1>1, OnePeer DEF Sleep, OwnInv, ServeInv, ListInv, Peers
<1>3. ASSUME NEW x \in Procs, x # q PROVE OwnInv(x)'
  <2>1. OwnInv(x) /\ ServeInv(x)
    BY <1>1
  <2>2. x \in load.procs => x \in Peers(q) /\ q \in Peers(x)
    BY <1>3 DEF Peers
  <2> QED BY <1>0, <1>1, <1>3, <2>1, <2>2, OnePeer DEF Sleep, OwnInv, ServeInv, ListInv, Peers
<1>4. ListInv'
  BY <1>0, <1>1, OnePeer DEF Sleep, OwnInv, ServeInv, ListInv, Peers
<1>5. ServeInv(q)'
  BY <1>0, <1>1, OnePeer DEF Sleep, OwnInv, ServeInv, ListInv, Peers
<1>6. ASSUME NEW x \in Procs, x # q PROVE ServeInv(x)'
  <2>1. OwnInv(x) /\ ServeInv(x)
    BY <1>1
  <2>2. x \in load.procs => x \in Peers(q) /\ q \in Peers(x)
    BY <1>6 DEF Peers
  <2> QED BY <1>0, <1>1, <1>6, <2>1, <2>2, OnePeer DEF Sleep, OwnInv, ServeInv, ListInv, Peers
<1> QED BY <1>2, <1>3, <1>4, <1>5, <1>6 DEF CoreInv

LEMMA WakeCore ==
  ASSUME TypeInv, TypeInv', OneEach, CoreInv, NEW q \in load.procs, UNCHANGED load,
         Wake(q)
  PROVE  CoreInv'
<1> USE DEF TypeInv, TypeOK, Links, At, Goto, pipe, nodes, locals, result, Copying, Closing,
            Live, Parked, Fresh, Answered, Told
<1>0. None \notin Procs /\ q \in Procs /\ load.procs \subseteq Procs /\ load.len <= MaxLen /\ MaxLen \in Nat /\ load.len \in Nat
  BY LoadTyped, PipeAssumption
<1>1. OwnInv(q) /\ ServeInv(q) /\ ListInv /\ \A x \in Procs : OwnInv(x) /\ ServeInv(x)
  BY <1>0 DEF CoreInv
<1>2. OwnInv(q)'
  BY <1>0, <1>1, OnePeer DEF Wake, OwnInv, ServeInv, ListInv, Peers, Forget, Return
<1>3. ASSUME NEW x \in Procs, x # q PROVE OwnInv(x)'
  <2>1. OwnInv(x) /\ ServeInv(x)
    BY <1>1
  <2>2. x \in load.procs => x \in Peers(q) /\ q \in Peers(x)
    BY <1>3 DEF Peers
  <2> QED BY <1>0, <1>1, <1>3, <2>1, <2>2, OnePeer DEF Wake, OwnInv, ServeInv, ListInv, Peers, Forget, Return
<1>4. ListInv'
  BY <1>0, <1>1, OnePeer DEF Wake, OwnInv, ServeInv, ListInv, Peers, Forget, Return
<1>5. ServeInv(q)'
  BY <1>0, <1>1, OnePeer DEF Wake, OwnInv, ServeInv, ListInv, Peers, Forget, Return
<1>6. ASSUME NEW x \in Procs, x # q PROVE ServeInv(x)'
  <2>1. OwnInv(x) /\ ServeInv(x)
    BY <1>1
  <2>2. x \in load.procs => x \in Peers(q) /\ q \in Peers(x)
    BY <1>6 DEF Peers
  <2> QED BY <1>0, <1>1, <1>6, <2>1, <2>2, OnePeer DEF Wake, OwnInv, ServeInv, ListInv, Peers, Forget, Return
<1> QED BY <1>2, <1>3, <1>4, <1>5, <1>6 DEF CoreInv

LEMMA TakeCore ==
  ASSUME TypeInv, TypeInv', OneEach, CoreInv, NEW q \in load.procs, UNCHANGED load,
         Take(q)
  PROVE  CoreInv'
<1> USE DEF TypeInv, TypeOK, Links, At, Goto, pipe, nodes, locals, result, Copying, Closing,
            Live, Parked, Fresh, Answered, Told
<1>0. None \notin Procs /\ q \in Procs /\ load.procs \subseteq Procs /\ load.len <= MaxLen /\ MaxLen \in Nat /\ load.len \in Nat
  BY LoadTyped, PipeAssumption
<1>1. OwnInv(q) /\ ServeInv(q) /\ ListInv /\ \A x \in Procs : OwnInv(x) /\ ServeInv(x)
  BY <1>0 DEF CoreInv
<1>2. OwnInv(q)'
  BY <1>0, <1>1, OnePeer DEF Take, OwnInv, ServeInv, ListInv, Peers
<1>3. ASSUME NEW x \in Procs, x # q PROVE OwnInv(x)'
  <2>1. OwnInv(x) /\ ServeInv(x)
    BY <1>1
  <2>2. x \in load.procs => x \in Peers(q) /\ q \in Peers(x)
    BY <1>3 DEF Peers
  <2> QED BY <1>0, <1>1, <1>3, <2>1, <2>2, OnePeer DEF Take, OwnInv, ServeInv, ListInv, Peers
<1>4. ListInv'
  BY <1>0, <1>1, OnePeer DEF Take, OwnInv, ServeInv, ListInv, Peers
<1>5. ServeInv(q)'
  BY <1>0, <1>1, OnePeer DEF Take, OwnInv, ServeInv, ListInv, Peers
<1>6. ASSUME NEW x \in Procs, x # q PROVE ServeInv(x)'
  <2>1. OwnInv(x) /\ ServeInv(x)
    BY <1>1
  <2>2. x \in load.procs => x \in Peers(q) /\ q \in Peers(x)
    BY <1>6 DEF Peers
  <2> QED BY <1>0, <1>1, <1>6, <2>1, <2>2, OnePeer DEF Take, OwnInv, ServeInv, ListInv, Peers
<1> QED BY <1>2, <1>3, <1>4, <1>5, <1>6 DEF CoreInv

LEMMA CopyCore ==
  ASSUME TypeInv, TypeInv', OneEach, CoreInv, NEW q \in load.procs, UNCHANGED load,
         Copy(q)
  PROVE  CoreInv'
<1> USE DEF TypeInv, TypeOK, Links, At, Goto, pipe, nodes, locals, result, Copying, Closing,
            Live, Parked, Fresh, Answered, Told
<1>0. None \notin Procs /\ q \in Procs /\ load.procs \subseteq Procs /\ load.len <= MaxLen /\ MaxLen \in Nat /\ load.len \in Nat
  BY LoadTyped, PipeAssumption
<1>1. OwnInv(q) /\ ServeInv(q) /\ ListInv /\ \A x \in Procs : OwnInv(x) /\ ServeInv(x)
  BY <1>0 DEF CoreInv
<1>7. n[q] \in Nat /\ n[t[q]] \in Nat /\ len[t[q]] = n[t[q]] /\ t[q] \in Peers(q)
  BY <1>0, <1>1, OnePeer DEF Copy, ServeInv, Peers
<1>2. OwnInv(q)'
  BY <1>0, <1>1, <1>7, MinOfTwo, OnePeer DEF Copy, OwnInv, ServeInv, ListInv, Peers
<1>3. ASSUME NEW x \in Procs, x # q PROVE OwnInv(x)'
  <2>1. OwnInv(x) /\ ServeInv(x)
    BY <1>1
  <2>2. x \in load.procs => x \in Peers(q) /\ q \in Peers(x)
    BY <1>3 DEF Peers
  <2> QED BY <1>0, <1>1, <1>7, MinOfTwo, <1>3, <2>1, <2>2, OnePeer DEF Copy, OwnInv, ServeInv, ListInv, Peers
<1>4. ListInv'
  BY <1>0, <1>1, <1>7, MinOfTwo, OnePeer DEF Copy, OwnInv, ServeInv, ListInv, Peers
<1>5. ServeInv(q)'
  BY <1>0, <1>1, <1>7, MinOfTwo, OnePeer DEF Copy, OwnInv, ServeInv, ListInv, Peers
<1>6. ASSUME NEW x \in Procs, x # q PROVE ServeInv(x)'
  <2>1. OwnInv(x) /\ ServeInv(x)
    BY <1>1
  <2>2. x \in load.procs => x \in Peers(q) /\ q \in Peers(x)
    BY <1>6 DEF Peers
  <2> QED BY <1>0, <1>1, <1>7, MinOfTwo, <1>6, <2>1, <2>2, OnePeer DEF Copy, OwnInv, ServeInv, ListInv, Peers
<1> QED BY <1>2, <1>3, <1>4, <1>5, <1>6 DEF CoreInv

LEMMA AnswerCore ==
  ASSUME TypeInv, TypeInv', OneEach, CoreInv, NEW q \in load.procs, UNCHANGED load,
         Answer(q)
  PROVE  CoreInv'
<1> USE DEF TypeInv, TypeOK, Links, At, Goto, pipe, nodes, locals, result, Copying, Closing,
            Live, Parked, Fresh, Answered, Told
<1>0. None \notin Procs /\ q \in Procs /\ load.procs \subseteq Procs /\ load.len <= MaxLen /\ MaxLen \in Nat /\ load.len \in Nat
  BY LoadTyped, PipeAssumption
<1>1. OwnInv(q) /\ ServeInv(q) /\ ListInv /\ \A x \in Procs : OwnInv(x) /\ ServeInv(x)
  BY <1>0 DEF CoreInv
<1>7. /\ t[q] \in Peers(q) /\ r[q] \in 1..MaxLen /\ buf' = [buf EXCEPT ![t[q]] = buf'[t[q]]]
      /\ Len(buf'[t[q]]) = r[q] /\ buf'[t[q]] # <<>>
  <2> DEFINE w == IF q \in Writers THEN q ELSE t[q]
  <2>1. t[q] \in Peers(q) /\ t[q] \in Procs
    BY <1>1, <1>0 DEF Answer, ServeInv, Peers
  <2>2. n[q] \in 1..MaxLen /\ n[t[q]] \in 1..MaxLen
    BY <1>0, <1>1, <2>1 DEF Answer, OwnInv, ServeInv
  <2>3. r[q] \in 1..MaxLen
    <3>1. r[q] = Min({n[q], n[t[q]]})
      BY <1>1 DEF Answer, ServeInv
    <3>2. n[q] \in Nat /\ n[t[q]] \in Nat /\ MaxLen \in Nat
      BY <1>0, <2>2
    <3>3. r[q] \in {n[q], n[t[q]]}
      BY <3>1, <3>2, MinOfTwo
    <3> QED BY <2>2, <3>3
  <2>4. w \in Writers
    BY <1>0, <2>1, OnePeer DEF SameDirection, Procs
  <2>5. Len(Bytes(w, r[q])) = r[q]
    <3>1. r[q] \in Nat /\ TypeInv
      BY <1>0, <2>3
    <3> HIDE DEF w, TypeInv
    <3> QED BY <2>4, <3>1, BytesTyped
  <2>6. Bytes(w, r[q]) # <<>>
    BY <2>3, <2>5
  <2>7. buf' = [buf EXCEPT ![t[q]] = Bytes(w, r[q])]
    BY DEF Answer
  <2> HIDE DEF w
  <2>8. buf'[t[q]] = Bytes(w, r[q])
    BY <2>1, <2>7
  <2> QED BY <2>1, <2>3, <2>5, <2>6, <2>7, <2>8
<1>2. OwnInv(q)'
  BY <1>0, <1>1, <1>7, OnePeer DEF Answer, OwnInv, ServeInv, ListInv, Peers
<1>3. ASSUME NEW x \in Procs, x # q PROVE OwnInv(x)'
  <2>1. OwnInv(x) /\ ServeInv(x)
    BY <1>1
  <2>2. x \in load.procs => x \in Peers(q) /\ q \in Peers(x)
    BY <1>3 DEF Peers
  <2> QED BY <1>0, <1>1, <1>7, <1>3, <2>1, <2>2, OnePeer DEF Answer, OwnInv, ServeInv, ListInv, Peers
<1>4. ListInv'
  BY <1>0, <1>1, <1>7, OnePeer DEF Answer, OwnInv, ServeInv, ListInv, Peers
<1>5. ServeInv(q)'
  BY <1>0, <1>1, <1>7, OnePeer DEF Answer, OwnInv, ServeInv, ListInv, Peers
<1>6. ASSUME NEW x \in Procs, x # q PROVE ServeInv(x)'
  <2>1. OwnInv(x) /\ ServeInv(x)
    BY <1>1
  <2>2. x \in load.procs => x \in Peers(q) /\ q \in Peers(x)
    BY <1>6 DEF Peers
  <2> QED BY <1>0, <1>1, <1>7, <1>6, <2>1, <2>2, OnePeer DEF Answer, OwnInv, ServeInv, ListInv, Peers
<1> QED BY <1>2, <1>3, <1>4, <1>5, <1>6 DEF CoreInv

LEMMA ReadyCore ==
  ASSUME TypeInv, TypeInv', OneEach, CoreInv, NEW q \in load.procs, UNCHANGED load,
         Ready(q)
  PROVE  CoreInv'
<1> USE DEF TypeInv, TypeOK, Links, At, Goto, pipe, nodes, locals, result, Copying, Closing,
            Live, Parked, Fresh, Answered, Told
<1>0. None \notin Procs /\ q \in Procs /\ load.procs \subseteq Procs /\ load.len <= MaxLen /\ MaxLen \in Nat /\ load.len \in Nat
  BY LoadTyped, PipeAssumption
<1>1. OwnInv(q) /\ ServeInv(q) /\ ListInv /\ \A x \in Procs : OwnInv(x) /\ ServeInv(x)
  BY <1>0 DEF CoreInv
<1>2. OwnInv(q)'
  BY <1>0, <1>1, OnePeer DEF Ready, OwnInv, ServeInv, ListInv, Peers, Forget, Return
<1>3. ASSUME NEW x \in Procs, x # q PROVE OwnInv(x)'
  <2>1. OwnInv(x) /\ ServeInv(x)
    BY <1>1
  <2>2. x \in load.procs => x \in Peers(q) /\ q \in Peers(x)
    BY <1>3 DEF Peers
  <2> QED BY <1>0, <1>1, <1>3, <2>1, <2>2, OnePeer DEF Ready, OwnInv, ServeInv, ListInv, Peers, Forget, Return
<1>4. ListInv'
  BY <1>0, <1>1, OnePeer DEF Ready, OwnInv, ServeInv, ListInv, Peers, Forget, Return
<1>5. ServeInv(q)'
  BY <1>0, <1>1, OnePeer DEF Ready, OwnInv, ServeInv, ListInv, Peers, Forget, Return
<1>6. ASSUME NEW x \in Procs, x # q PROVE ServeInv(x)'
  <2>1. OwnInv(x) /\ ServeInv(x)
    BY <1>1
  <2>2. x \in load.procs => x \in Peers(q) /\ q \in Peers(x)
    BY <1>6 DEF Peers
  <2> QED BY <1>0, <1>1, <1>6, <2>1, <2>2, OnePeer DEF Ready, OwnInv, ServeInv, ListInv, Peers, Forget, Return
<1> QED BY <1>2, <1>3, <1>4, <1>5, <1>6 DEF CoreInv

LEMMA NilEndCore ==
  ASSUME TypeInv, TypeInv', OneEach, CoreInv, NEW q \in load.procs, UNCHANGED load,
         NilEnd(q)
  PROVE  CoreInv'
<1> USE DEF TypeInv, TypeOK, Links, At, Goto, pipe, nodes, locals, result, Copying, Closing,
            Live, Parked, Fresh, Answered, Told
<1>0. None \notin Procs /\ q \in Procs /\ load.procs \subseteq Procs /\ load.len <= MaxLen /\ MaxLen \in Nat /\ load.len \in Nat
  BY LoadTyped, PipeAssumption
<1>1. OwnInv(q) /\ ServeInv(q) /\ ListInv /\ \A x \in Procs : OwnInv(x) /\ ServeInv(x)
  BY <1>0 DEF CoreInv
<1>7. ends' # {"c0", "c1"}
  BY DEF NilEnd, End
<1>2. OwnInv(q)'
  BY <1>0, <1>1, <1>7, OnePeer DEF NilEnd, OwnInv, ServeInv, ListInv, Peers, End
<1>3. ASSUME NEW x \in Procs, x # q PROVE OwnInv(x)'
  <2>1. OwnInv(x) /\ ServeInv(x)
    BY <1>1
  <2>2. x \in load.procs => x \in Peers(q) /\ q \in Peers(x)
    BY <1>3 DEF Peers
  <2> QED BY <1>0, <1>1, <1>7, <1>3, <2>1, <2>2, OnePeer DEF NilEnd, OwnInv, ServeInv, ListInv, Peers, End
<1>4. ListInv'
  BY <1>0, <1>1, <1>7, OnePeer DEF NilEnd, OwnInv, ServeInv, ListInv, Peers, End
<1>5. ServeInv(q)'
  BY <1>0, <1>1, <1>7, OnePeer DEF NilEnd, OwnInv, ServeInv, ListInv, Peers, End
<1>6. ASSUME NEW x \in Procs, x # q PROVE ServeInv(x)'
  <2>1. OwnInv(x) /\ ServeInv(x)
    BY <1>1
  <2>2. x \in load.procs => x \in Peers(q) /\ q \in Peers(x)
    BY <1>6 DEF Peers
  <2> QED BY <1>0, <1>1, <1>7, <1>6, <2>1, <2>2, OnePeer DEF NilEnd, OwnInv, ServeInv, ListInv, Peers, End
<1> QED BY <1>2, <1>3, <1>4, <1>5, <1>6 DEF CoreInv

LEMMA LoadAllCore ==
  ASSUME TypeInv, TypeInv', OneEach, CoreInv, NEW q \in load.procs, UNCHANGED load,
         LoadAll(q)
  PROVE  CoreInv'
<1> USE DEF TypeInv, TypeOK, Links, At, Goto, pipe, nodes, locals, result, Copying, Closing,
            Live, Parked, Fresh, Answered, Told
<1>0. None \notin Procs /\ q \in Procs /\ load.procs \subseteq Procs /\ load.len <= MaxLen /\ MaxLen \in Nat /\ load.len \in Nat
  BY LoadTyped, PipeAssumption
<1>1. OwnInv(q) /\ ServeInv(q) /\ ListInv /\ \A x \in Procs : OwnInv(x) /\ ServeInv(x)
  BY <1>0 DEF CoreInv
<1>2. OwnInv(q)'
  BY <1>0, <1>1, OnePeer DEF LoadAll, OwnInv, ServeInv, ListInv, Peers
<1>3. ASSUME NEW x \in Procs, x # q PROVE OwnInv(x)'
  <2>1. OwnInv(x) /\ ServeInv(x)
    BY <1>1
  <2>2. x \in load.procs => x \in Peers(q) /\ q \in Peers(x)
    BY <1>3 DEF Peers
  <2> QED BY <1>0, <1>1, <1>3, <2>1, <2>2, OnePeer DEF LoadAll, OwnInv, ServeInv, ListInv, Peers
<1>4. ListInv'
  BY <1>0, <1>1, OnePeer DEF LoadAll, OwnInv, ServeInv, ListInv, Peers
<1>5. ServeInv(q)'
  BY <1>0, <1>1, OnePeer DEF LoadAll, OwnInv, ServeInv, ListInv, Peers
<1>6. ASSUME NEW x \in Procs, x # q PROVE ServeInv(x)'
  <2>1. OwnInv(x) /\ ServeInv(x)
    BY <1>1
  <2>2. x \in load.procs => x \in Peers(q) /\ q \in Peers(x)
    BY <1>6 DEF Peers
  <2> QED BY <1>0, <1>1, <1>6, <2>1, <2>2, OnePeer DEF LoadAll, OwnInv, ServeInv, ListInv, Peers
<1> QED BY <1>2, <1>3, <1>4, <1>5, <1>6 DEF CoreInv

LEMMA ClearAllCore ==
  ASSUME TypeInv, TypeInv', OneEach, CoreInv, NEW q \in load.procs, UNCHANGED load,
         ClearAll(q)
  PROVE  CoreInv'
<1> USE DEF TypeInv, TypeOK, Links, At, Goto, pipe, nodes, locals, result, Copying, Closing,
            Live, Parked, Fresh, Answered, Told
<1>0. None \notin Procs /\ q \in Procs /\ load.procs \subseteq Procs /\ load.len <= MaxLen /\ MaxLen \in Nat /\ load.len \in Nat
  BY LoadTyped, PipeAssumption
<1>1. OwnInv(q) /\ ServeInv(q) /\ ListInv /\ \A x \in Procs : OwnInv(x) /\ ServeInv(x)
  BY <1>0 DEF CoreInv
<1>2. OwnInv(q)'
  BY <1>0, <1>1, OnePeer DEF ClearAll, OwnInv, ServeInv, ListInv, Peers
<1>3. ASSUME NEW x \in Procs, x # q PROVE OwnInv(x)'
  <2>1. OwnInv(x) /\ ServeInv(x)
    BY <1>1
  <2>2. x \in load.procs => x \in Peers(q) /\ q \in Peers(x)
    BY <1>3 DEF Peers
  <2> QED BY <1>0, <1>1, <1>3, <2>1, <2>2, OnePeer DEF ClearAll, OwnInv, ServeInv, ListInv, Peers
<1>4. ListInv'
  BY <1>0, <1>1, OnePeer DEF ClearAll, OwnInv, ServeInv, ListInv, Peers
<1>5. ServeInv(q)'
  BY <1>0, <1>1, OnePeer DEF ClearAll, OwnInv, ServeInv, ListInv, Peers
<1>6. ASSUME NEW x \in Procs, x # q PROVE ServeInv(x)'
  <2>1. OwnInv(x) /\ ServeInv(x)
    BY <1>1
  <2>2. x \in load.procs => x \in Peers(q) /\ q \in Peers(x)
    BY <1>6 DEF Peers
  <2> QED BY <1>0, <1>1, <1>6, <2>1, <2>2, OnePeer DEF ClearAll, OwnInv, ServeInv, ListInv, Peers
<1> QED BY <1>2, <1>3, <1>4, <1>5, <1>6 DEF CoreInv

LEMMA SetEOFCore ==
  ASSUME TypeInv, TypeInv', OneEach, CoreInv, NEW q \in load.procs, UNCHANGED load,
         SetEOF(q)
  PROVE  CoreInv'
<1> USE DEF TypeInv, TypeOK, Links, At, Goto, pipe, nodes, locals, result, Copying, Closing,
            Live, Parked, Fresh, Answered, Told
<1>0. None \notin Procs /\ q \in Procs /\ load.procs \subseteq Procs /\ load.len <= MaxLen /\ MaxLen \in Nat /\ load.len \in Nat
  BY LoadTyped, PipeAssumption
<1>1. OwnInv(q) /\ ServeInv(q) /\ ListInv /\ \A x \in Procs : OwnInv(x) /\ ServeInv(x)
  BY <1>0 DEF CoreInv
<1>2. OwnInv(q)'
  BY <1>0, <1>1, OnePeer DEF SetEOF, OwnInv, ServeInv, ListInv, Peers
<1>3. ASSUME NEW x \in Procs, x # q PROVE OwnInv(x)'
  <2>1. OwnInv(x) /\ ServeInv(x)
    BY <1>1
  <2>2. x \in load.procs => x \in Peers(q) /\ q \in Peers(x)
    BY <1>3 DEF Peers
  <2> QED BY <1>0, <1>1, <1>3, <2>1, <2>2, OnePeer DEF SetEOF, OwnInv, ServeInv, ListInv, Peers
<1>4. ListInv'
  BY <1>0, <1>1, OnePeer DEF SetEOF, OwnInv, ServeInv, ListInv, Peers
<1>5. ServeInv(q)'
  BY <1>0, <1>1, OnePeer DEF SetEOF, OwnInv, ServeInv, ListInv, Peers
<1>6. ASSUME NEW x \in Procs, x # q PROVE ServeInv(x)'
  <2>1. OwnInv(x) /\ ServeInv(x)
    BY <1>1
  <2>2. x \in load.procs => x \in Peers(q) /\ q \in Peers(x)
    BY <1>6 DEF Peers
  <2> QED BY <1>0, <1>1, <1>6, <2>1, <2>2, OnePeer DEF SetEOF, OwnInv, ServeInv, ListInv, Peers
<1> QED BY <1>2, <1>3, <1>4, <1>5, <1>6 DEF CoreInv

LEMMA WakeClosedCore ==
  ASSUME TypeInv, TypeInv', OneEach, CoreInv, NEW q \in load.procs, UNCHANGED load,
         WakeClosed(q)
  PROVE  CoreInv'
<1> USE DEF TypeInv, TypeOK, Links, At, Goto, pipe, nodes, locals, result, Copying, Closing,
            Live, Parked, Fresh, Answered, Told
<1>0. None \notin Procs /\ q \in Procs /\ load.procs \subseteq Procs /\ load.len <= MaxLen /\ MaxLen \in Nat /\ load.len \in Nat
  BY LoadTyped, PipeAssumption
<1>1. OwnInv(q) /\ ServeInv(q) /\ ListInv /\ \A x \in Procs : OwnInv(x) /\ ServeInv(x)
  BY <1>0 DEF CoreInv
<1>7. t[q] \in Procs /\ OwnInv(t[q])
  BY <1>0, <1>1 DEF WakeClosed, NextClosed, ServingInv
<1>2. OwnInv(q)'
  BY <1>0, <1>1, <1>7, OnePeer DEF WakeClosed, OwnInv, ServeInv, ListInv, Peers
<1>3. ASSUME NEW x \in Procs, x # q PROVE OwnInv(x)'
  <2>1. OwnInv(x) /\ ServeInv(x)
    BY <1>1
  <2>2. x \in load.procs => x \in Peers(q) /\ q \in Peers(x)
    BY <1>3 DEF Peers
  <2> QED BY <1>0, <1>1, <1>7, <1>3, <2>1, <2>2, OnePeer DEF WakeClosed, OwnInv, ServeInv, ListInv, Peers
<1>4. ListInv'
  BY <1>0, <1>1, <1>7, OnePeer DEF WakeClosed, OwnInv, ServeInv, ListInv, Peers
<1>5. ServeInv(q)'
  BY <1>0, <1>1, <1>7, OnePeer DEF WakeClosed, OwnInv, ServeInv, ListInv, Peers
<1>6. ASSUME NEW x \in Procs, x # q PROVE ServeInv(x)'
  <2>1. OwnInv(x) /\ ServeInv(x)
    BY <1>1
  <2>2. x \in load.procs => x \in Peers(q) /\ q \in Peers(x)
    BY <1>6 DEF Peers
  <2> QED BY <1>0, <1>1, <1>7, <1>6, <2>1, <2>2, OnePeer DEF WakeClosed, OwnInv, ServeInv, ListInv, Peers
<1> QED BY <1>2, <1>3, <1>4, <1>5, <1>6 DEF CoreInv

LEMMA NextClosedCore ==
  ASSUME TypeInv, TypeInv', OneEach, CoreInv, NEW q \in load.procs, UNCHANGED load,
         NextClosed(q)
  PROVE  CoreInv'
<1> USE DEF TypeInv, TypeOK, Links, At, Goto, pipe, nodes, locals, result, Copying, Closing,
            Live, Parked, Fresh, Answered, Told
<1>0. None \notin Procs /\ q \in Procs /\ load.procs \subseteq Procs /\ load.len <= MaxLen /\ MaxLen \in Nat /\ load.len \in Nat
  BY LoadTyped, PipeAssumption
<1>1. OwnInv(q) /\ ServeInv(q) /\ ListInv /\ \A x \in Procs : OwnInv(x) /\ ServeInv(x)
  BY <1>0 DEF CoreInv
<1>7. t[q] \in Procs /\ OwnInv(t[q])
  BY <1>0, <1>1 DEF WakeClosed, NextClosed, ServingInv
<1>2. OwnInv(q)'
  BY <1>0, <1>1, <1>7, OnePeer DEF NextClosed, OwnInv, ServeInv, ListInv, Peers
<1>3. ASSUME NEW x \in Procs, x # q PROVE OwnInv(x)'
  <2>1. OwnInv(x) /\ ServeInv(x)
    BY <1>1
  <2>2. x \in load.procs => x \in Peers(q) /\ q \in Peers(x)
    BY <1>3 DEF Peers
  <2> QED BY <1>0, <1>1, <1>7, <1>3, <2>1, <2>2, OnePeer DEF NextClosed, OwnInv, ServeInv, ListInv, Peers
<1>4. ListInv'
  BY <1>0, <1>1, <1>7, OnePeer DEF NextClosed, OwnInv, ServeInv, ListInv, Peers
<1>5. ServeInv(q)'
  BY <1>0, <1>1, <1>7, OnePeer DEF NextClosed, OwnInv, ServeInv, ListInv, Peers
<1>6. ASSUME NEW x \in Procs, x # q PROVE ServeInv(x)'
  <2>1. OwnInv(x) /\ ServeInv(x)
    BY <1>1
  <2>2. x \in load.procs => x \in Peers(q) /\ q \in Peers(x)
    BY <1>6 DEF Peers
  <2> QED BY <1>0, <1>1, <1>7, <1>6, <2>1, <2>2, OnePeer DEF NextClosed, OwnInv, ServeInv, ListInv, Peers
<1> QED BY <1>2, <1>3, <1>4, <1>5, <1>6 DEF CoreInv

LEMMA FreePipeCore ==
  ASSUME TypeInv, TypeInv', OneEach, CoreInv, NEW q \in load.procs, UNCHANGED load,
         FreePipe(q)
  PROVE  CoreInv'
<1> USE DEF TypeInv, TypeOK, Links, At, Goto, pipe, nodes, locals, result, Copying, Closing,
            Live, Parked, Fresh, Answered, Told
<1>0. None \notin Procs /\ q \in Procs /\ load.procs \subseteq Procs /\ load.len <= MaxLen /\ MaxLen \in Nat /\ load.len \in Nat
  BY LoadTyped, PipeAssumption
<1>1. OwnInv(q) /\ ServeInv(q) /\ ListInv /\ \A x \in Procs : OwnInv(x) /\ ServeInv(x)
  BY <1>0 DEF CoreInv
<1>2. OwnInv(q)'
  BY <1>0, <1>1, OnePeer DEF FreePipe, OwnInv, ServeInv, ListInv, Peers, Forget
<1>3. ASSUME NEW x \in Procs, x # q PROVE OwnInv(x)'
  <2>1. OwnInv(x) /\ ServeInv(x)
    BY <1>1
  <2>2. x \in load.procs => x \in Peers(q) /\ q \in Peers(x)
    BY <1>3 DEF Peers
  <2> QED BY <1>0, <1>1, <1>3, <2>1, <2>2, OnePeer DEF FreePipe, OwnInv, ServeInv, ListInv, Peers, Forget
<1>4. ListInv'
  BY <1>0, <1>1, OnePeer DEF FreePipe, OwnInv, ServeInv, ListInv, Peers, Forget
<1>5. ServeInv(q)'
  BY <1>0, <1>1, OnePeer DEF FreePipe, OwnInv, ServeInv, ListInv, Peers, Forget
<1>6. ASSUME NEW x \in Procs, x # q PROVE ServeInv(x)'
  <2>1. OwnInv(x) /\ ServeInv(x)
    BY <1>1
  <2>2. x \in load.procs => x \in Peers(q) /\ q \in Peers(x)
    BY <1>6 DEF Peers
  <2> QED BY <1>0, <1>1, <1>6, <2>1, <2>2, OnePeer DEF FreePipe, OwnInv, ServeInv, ListInv, Peers, Forget
<1> QED BY <1>2, <1>3, <1>4, <1>5, <1>6 DEF CoreInv

-----------------------------------------------------------------------------
LEMMA AloneFacts ==
  ASSUME TypeInv, CoreInv, NEW q \in load.procs
  PROVE  /\ None \notin Procs /\ q \in Procs /\ load.procs \subseteq Procs
         /\ OwnInv(q) /\ ServeInv(q) /\ \A x \in Procs : OwnInv(x) /\ ServeInv(x)
BY LoadTyped, PipeAssumption DEF TypeInv, TypeOK, CoreInv

LEMMA BeginMoved ==
  ASSUME TypeInv, CoreInv, NEW q \in load.procs, NEW k \in 1..load.len, Begin(q, k)
  PROVE  /\ \A x \in Procs : Moved(x)' = Moved(x)
         /\ \A x \in Procs \ {q} : Phase(x)' = Phase(x)
         /\ Phase(q) = "idle" /\ Phase(q)' = "pending"
<1> USE DEF TypeInv, TypeOK, Links, At, Goto, nodes, locals, Live
<1>1. ASSUME NEW x \in Procs PROVE Moved(x)' = Moved(x) /\ (x # q => pc'[x] = pc[x])
  <2>1. \A y \in Procs : buf'[y] = buf[y]
    BY AloneFacts DEF Begin, OwnInv
  <2>2. x # q => pc'[x] = pc[x] /\ t'[x] = t[x]
    BY AloneFacts DEF Begin
  <2>3. pc[x] = "ready" => t[x] \in Procs
    BY DEF ServingInv
  <2>4. x = q => pc[x] # "ready" /\ pc'[x] # "ready" /\ (Live(x)' => buf[x] = <<>> \/ Live(x)) /\ (Live(x) => Live(x)')
    BY AloneFacts DEF Begin, OwnInv
  <2>5. x = q => Moved(x)' = Moved(x)
    BY <2>1, <2>4, AloneFacts DEF Moved, OwnInv
  <2>6. x # q => Moved(x)' = Moved(x)
    BY <2>1, <2>2, <2>3 DEF Moved
  <2> QED BY <2>2, <2>5, <2>6
<1>2. Moved(q) = <<>> 
  BY AloneFacts DEF Begin, OwnInv, Moved
<1>3. pc[q] \in {"idle"} \cup Copying \cup Closing /\ pc' = [pc EXCEPT ![q] = pc'[q]]
  BY AloneFacts DEF Begin
<1> QED BY <1>1, <1>2, <1>3, AloneFacts DEF Begin, Phase, Copying, Closing

LEMMA CloseMoved ==
  ASSUME TypeInv, CoreInv, NEW q \in load.procs, Close(q)
  PROVE  /\ \A x \in Procs : Moved(x)' = Moved(x)
         /\ \A x \in Procs \ {q} : Phase(x)' = Phase(x)
         /\ Phase(q)' = Phase(q)
<1> USE DEF TypeInv, TypeOK, Links, At, Goto, nodes, locals, Live
<1>1. ASSUME NEW x \in Procs PROVE Moved(x)' = Moved(x) /\ (x # q => pc'[x] = pc[x])
  <2>1. \A y \in Procs : buf'[y] = buf[y]
    BY AloneFacts DEF Close, OwnInv
  <2>2. x # q => pc'[x] = pc[x] /\ t'[x] = t[x]
    BY AloneFacts DEF Close
  <2>3. pc[x] = "ready" => t[x] \in Procs
    BY DEF ServingInv
  <2>4. x = q => pc[x] # "ready" /\ pc'[x] # "ready" /\ (Live(x)' => buf[x] = <<>> \/ Live(x)) /\ (Live(x) => Live(x)')
    BY AloneFacts DEF Close, OwnInv
  <2>5. x = q => Moved(x)' = Moved(x)
    BY <2>1, <2>4, AloneFacts DEF Moved, OwnInv
  <2>6. x # q => Moved(x)' = Moved(x)
    BY <2>1, <2>2, <2>3 DEF Moved
  <2> QED BY <2>2, <2>5, <2>6
<1>2. Moved(q) = <<>> 
  BY AloneFacts DEF Close, OwnInv, Moved
<1>3. pc[q] \in {"idle"} \cup Copying \cup Closing /\ pc' = [pc EXCEPT ![q] = pc'[q]]
  BY AloneFacts DEF Close
<1> QED BY <1>1, <1>2, <1>3, AloneFacts DEF Close, Phase, Copying, Closing

LEMMA LoadHeadMoved ==
  ASSUME TypeInv, CoreInv, NEW q \in load.procs, LoadHead(q)
  PROVE  /\ \A x \in Procs : Moved(x)' = Moved(x)
         /\ \A x \in Procs \ {q} : Phase(x)' = Phase(x)
         /\ Phase(q)' = Phase(q)
<1> USE DEF TypeInv, TypeOK, Links, At, Goto, nodes, locals, Live
<1>1. ASSUME NEW x \in Procs PROVE Moved(x)' = Moved(x) /\ (x # q => pc'[x] = pc[x])
  <2>1. \A y \in Procs : buf'[y] = buf[y]
    BY AloneFacts DEF LoadHead, OwnInv
  <2>2. x # q => pc'[x] = pc[x] /\ t'[x] = t[x]
    BY AloneFacts DEF LoadHead
  <2>3. pc[x] = "ready" => t[x] \in Procs
    BY DEF ServingInv
  <2>4. x = q => pc[x] # "ready" /\ pc'[x] # "ready" /\ (Live(x)' => buf[x] = <<>> \/ Live(x)) /\ (Live(x) => Live(x)')
    BY AloneFacts DEF LoadHead, OwnInv
  <2>5. x = q => Moved(x)' = Moved(x)
    BY <2>1, <2>4, AloneFacts DEF Moved, OwnInv
  <2>6. x # q => Moved(x)' = Moved(x)
    BY <2>1, <2>2, <2>3 DEF Moved
  <2> QED BY <2>2, <2>5, <2>6
<1>2. Moved(q) = <<>> 
  BY AloneFacts DEF LoadHead, OwnInv, Moved
<1>3. pc[q] \in {"idle"} \cup Copying \cup Closing /\ pc' = [pc EXCEPT ![q] = pc'[q]]
  BY AloneFacts DEF LoadHead
<1> QED BY <1>1, <1>2, <1>3, AloneFacts DEF LoadHead, Phase, Copying, Closing

LEMMA WalkEndsMoved ==
  ASSUME TypeInv, CoreInv, NEW q \in load.procs, WalkEnds(q)
  PROVE  /\ \A x \in Procs : Moved(x)' = Moved(x)
         /\ \A x \in Procs \ {q} : Phase(x)' = Phase(x)
         /\ Phase(q)' = Phase(q)
<1> USE DEF TypeInv, TypeOK, Links, At, Goto, nodes, locals, Live
<1>1. ASSUME NEW x \in Procs PROVE Moved(x)' = Moved(x) /\ (x # q => pc'[x] = pc[x])
  <2>1. \A y \in Procs : buf'[y] = buf[y]
    BY AloneFacts DEF WalkEnds, OwnInv
  <2>2. x # q => pc'[x] = pc[x] /\ t'[x] = t[x]
    BY AloneFacts DEF WalkEnds
  <2>3. pc[x] = "ready" => t[x] \in Procs
    BY DEF ServingInv
  <2>4. x = q => pc[x] # "ready" /\ pc'[x] # "ready" /\ (Live(x)' => buf[x] = <<>> \/ Live(x)) /\ (Live(x) => Live(x)')
    BY AloneFacts DEF WalkEnds, OwnInv
  <2>5. x = q => Moved(x)' = Moved(x)
    BY <2>1, <2>4, AloneFacts DEF Moved, OwnInv
  <2>6. x # q => Moved(x)' = Moved(x)
    BY <2>1, <2>2, <2>3 DEF Moved
  <2> QED BY <2>2, <2>5, <2>6
<1>2. Moved(q) = <<>> 
  BY AloneFacts DEF WalkEnds, OwnInv, Moved
<1>3. pc[q] \in {"idle"} \cup Copying \cup Closing /\ pc' = [pc EXCEPT ![q] = pc'[q]]
  BY AloneFacts DEF WalkEnds
<1> QED BY <1>1, <1>2, <1>3, AloneFacts DEF WalkEnds, Phase, Copying, Closing

LEMMA ReturnEOFMoved ==
  ASSUME TypeInv, CoreInv, NEW q \in load.procs, ReturnEOF(q)
  PROVE  /\ \A x \in Procs : Moved(x)' = Moved(x)
         /\ \A x \in Procs \ {q} : Phase(x)' = Phase(x)
         /\ Phase(q) = "pending" /\ Phase(q)' = "idle"
<1> USE DEF TypeInv, TypeOK, Links, At, Goto, nodes, locals, Live
<1>1. ASSUME NEW x \in Procs PROVE Moved(x)' = Moved(x) /\ (x # q => pc'[x] = pc[x])
  <2>1. \A y \in Procs : buf'[y] = buf[y]
    BY AloneFacts DEF ReturnEOF, OwnInv
  <2>2. x # q => pc'[x] = pc[x] /\ t'[x] = t[x]
    BY AloneFacts DEF ReturnEOF, Forget
  <2>3. pc[x] = "ready" => t[x] \in Procs
    BY DEF ServingInv
  <2>4. x = q => pc[x] # "ready" /\ pc'[x] # "ready" /\ (Live(x)' => buf[x] = <<>> \/ Live(x)) /\ (Live(x) => Live(x)')
    BY AloneFacts DEF ReturnEOF, OwnInv
  <2>5. x = q => Moved(x)' = Moved(x)
    BY <2>1, <2>4, AloneFacts DEF Moved, OwnInv
  <2>6. x # q => Moved(x)' = Moved(x)
    BY <2>1, <2>2, <2>3 DEF Moved
  <2> QED BY <2>2, <2>5, <2>6
<1>2. Moved(q) = <<>> 
  BY AloneFacts DEF ReturnEOF, OwnInv, Moved
<1>3. pc[q] \in {"idle"} \cup Copying \cup Closing /\ pc' = [pc EXCEPT ![q] = pc'[q]]
  BY AloneFacts DEF ReturnEOF
<1> QED BY <1>1, <1>2, <1>3, AloneFacts DEF ReturnEOF, Phase, Copying, Closing

LEMMA CheckMoved ==
  ASSUME TypeInv, CoreInv, NEW q \in load.procs, Check(q)
  PROVE  /\ \A x \in Procs : Moved(x)' = Moved(x)
         /\ \A x \in Procs \ {q} : Phase(x)' = Phase(x)
         /\ Phase(q)' = Phase(q)
<1> USE DEF TypeInv, TypeOK, Links, At, Goto, nodes, locals, Live
<1>1. ASSUME NEW x \in Procs PROVE Moved(x)' = Moved(x) /\ (x # q => pc'[x] = pc[x])
  <2>1. \A y \in Procs : buf'[y] = buf[y]
    BY AloneFacts DEF Check, OwnInv
  <2>2. x # q => pc'[x] = pc[x] /\ t'[x] = t[x]
    BY AloneFacts DEF Check
  <2>3. pc[x] = "ready" => t[x] \in Procs
    BY DEF ServingInv
  <2>4. x = q => pc[x] # "ready" /\ pc'[x] # "ready" /\ (Live(x)' => buf[x] = <<>> \/ Live(x)) /\ (Live(x) => Live(x)')
    BY AloneFacts DEF Check, OwnInv
  <2>5. x = q => Moved(x)' = Moved(x)
    BY <2>1, <2>4, AloneFacts DEF Moved, OwnInv
  <2>6. x # q => Moved(x)' = Moved(x)
    BY <2>1, <2>2, <2>3 DEF Moved
  <2> QED BY <2>2, <2>5, <2>6
<1>2. Moved(q) = <<>> 
  BY AloneFacts DEF Check, OwnInv, Moved
<1>3. pc[q] \in {"idle"} \cup Copying \cup Closing /\ pc' = [pc EXCEPT ![q] = pc'[q]]
  BY AloneFacts DEF Check
<1> QED BY <1>1, <1>2, <1>3, AloneFacts DEF Check, Phase, Copying, Closing

LEMMA PushMoved ==
  ASSUME TypeInv, CoreInv, NEW q \in load.procs, Push(q)
  PROVE  /\ \A x \in Procs : Moved(x)' = Moved(x)
         /\ \A x \in Procs \ {q} : Phase(x)' = Phase(x)
         /\ Phase(q)' = Phase(q)
<1> USE DEF TypeInv, TypeOK, Links, At, Goto, nodes, locals, Live
<1>1. ASSUME NEW x \in Procs PROVE Moved(x)' = Moved(x) /\ (x # q => pc'[x] = pc[x])
  <2>1. \A y \in Procs : buf'[y] = buf[y]
    BY AloneFacts DEF Push, OwnInv
  <2>2. x # q => pc'[x] = pc[x] /\ t'[x] = t[x]
    BY AloneFacts DEF Push
  <2>3. pc[x] = "ready" => t[x] \in Procs
    BY DEF ServingInv
  <2>4. x = q => pc[x] # "ready" /\ pc'[x] # "ready" /\ (Live(x)' => buf[x] = <<>> \/ Live(x)) /\ (Live(x) => Live(x)')
    BY AloneFacts DEF Push, OwnInv
  <2>5. x = q => Moved(x)' = Moved(x)
    BY <2>1, <2>4, AloneFacts DEF Moved, OwnInv
  <2>6. x # q => Moved(x)' = Moved(x)
    BY <2>1, <2>2, <2>3 DEF Moved
  <2> QED BY <2>2, <2>5, <2>6
<1>2. Moved(q) = <<>> 
  BY AloneFacts DEF Push, OwnInv, Moved
<1>3. pc[q] \in {"idle"} \cup Copying \cup Closing /\ pc' = [pc EXCEPT ![q] = pc'[q]]
  BY AloneFacts DEF Push
<1> QED BY <1>1, <1>2, <1>3, AloneFacts DEF Push, Phase, Copying, Closing

LEMMA PushFailsMoved ==
  ASSUME TypeInv, CoreInv, NEW q \in load.procs, PushFails(q)
  PROVE  /\ \A x \in Procs : Moved(x)' = Moved(x)
         /\ \A x \in Procs \ {q} : Phase(x)' = Phase(x)
         /\ Phase(q)' = Phase(q)
<1> USE DEF TypeInv, TypeOK, Links, At, Goto, nodes, locals, Live
<1>1. ASSUME NEW x \in Procs PROVE Moved(x)' = Moved(x) /\ (x # q => pc'[x] = pc[x])
  <2>1. \A y \in Procs : buf'[y] = buf[y]
    BY AloneFacts DEF PushFails, OwnInv
  <2>2. x # q => pc'[x] = pc[x] /\ t'[x] = t[x]
    BY AloneFacts DEF PushFails
  <2>3. pc[x] = "ready" => t[x] \in Procs
    BY DEF ServingInv
  <2>4. x = q => pc[x] # "ready" /\ pc'[x] # "ready" /\ (Live(x)' => buf[x] = <<>> \/ Live(x)) /\ (Live(x) => Live(x)')
    BY AloneFacts DEF PushFails, OwnInv
  <2>5. x = q => Moved(x)' = Moved(x)
    BY <2>1, <2>4, AloneFacts DEF Moved, OwnInv
  <2>6. x # q => Moved(x)' = Moved(x)
    BY <2>1, <2>2, <2>3 DEF Moved
  <2> QED BY <2>2, <2>5, <2>6
<1>2. Moved(q) = <<>> 
  BY AloneFacts DEF PushFails, OwnInv, Moved
<1>3. pc[q] \in {"idle"} \cup Copying \cup Closing /\ pc' = [pc EXCEPT ![q] = pc'[q]]
  BY AloneFacts DEF PushFails
<1> QED BY <1>1, <1>2, <1>3, AloneFacts DEF PushFails, Phase, Copying, Closing

LEMMA SleepMoved ==
  ASSUME TypeInv, CoreInv, NEW q \in load.procs, Sleep(q)
  PROVE  /\ \A x \in Procs : Moved(x)' = Moved(x)
         /\ \A x \in Procs \ {q} : Phase(x)' = Phase(x)
         /\ Phase(q)' = Phase(q)
<1> USE DEF TypeInv, TypeOK, Links, At, Goto, nodes, locals, Live
<1>1. ASSUME NEW x \in Procs PROVE Moved(x)' = Moved(x) /\ (x # q => pc'[x] = pc[x])
  <2>1. \A y \in Procs : buf'[y] = buf[y]
    BY AloneFacts DEF Sleep, OwnInv
  <2>2. x # q => pc'[x] = pc[x] /\ t'[x] = t[x]
    BY AloneFacts DEF Sleep
  <2>3. pc[x] = "ready" => t[x] \in Procs
    BY DEF ServingInv
  <2>4. x = q => pc[x] # "ready" /\ pc'[x] # "ready" /\ (Live(x)' => buf[x] = <<>> \/ Live(x)) /\ (Live(x) => Live(x)')
    BY AloneFacts DEF Sleep, OwnInv
  <2>5. x = q => Moved(x)' = Moved(x)
    BY <2>1, <2>4, AloneFacts DEF Moved, OwnInv
  <2>6. x # q => Moved(x)' = Moved(x)
    BY <2>1, <2>2, <2>3 DEF Moved
  <2> QED BY <2>2, <2>5, <2>6
<1>2. Moved(q) = <<>> \/ pc[q] = "sleep"
  BY AloneFacts DEF Sleep, OwnInv, Moved
<1>3. pc[q] \in {"idle"} \cup Copying \cup Closing /\ pc' = [pc EXCEPT ![q] = pc'[q]]
  BY AloneFacts DEF Sleep
<1> QED BY <1>1, <1>2, <1>3, AloneFacts DEF Sleep, Phase, Copying, Closing

LEMMA TakeMoved ==
  ASSUME TypeInv, CoreInv, NEW q \in load.procs, Take(q)
  PROVE  /\ \A x \in Procs : Moved(x)' = Moved(x)
         /\ \A x \in Procs \ {q} : Phase(x)' = Phase(x)
         /\ Phase(q)' = Phase(q)
<1> USE DEF TypeInv, TypeOK, Links, At, Goto, nodes, locals, Live
<1>1. ASSUME NEW x \in Procs PROVE Moved(x)' = Moved(x) /\ (x # q => pc'[x] = pc[x])
  <2>1. \A y \in Procs : buf'[y] = buf[y]
    BY AloneFacts DEF Take, OwnInv
  <2>2. x # q => pc'[x] = pc[x] /\ t'[x] = t[x]
    BY AloneFacts DEF Take
  <2>3. pc[x] = "ready" => t[x] \in Procs
    BY DEF ServingInv
  <2>4. x = q => pc[x] # "ready" /\ pc'[x] # "ready" /\ (Live(x)' => buf[x] = <<>> \/ Live(x)) /\ (Live(x) => Live(x)')
    BY AloneFacts DEF Take, OwnInv
  <2>5. x = q => Moved(x)' = Moved(x)
    BY <2>1, <2>4, AloneFacts DEF Moved, OwnInv
  <2>6. x # q => Moved(x)' = Moved(x)
    BY <2>1, <2>2, <2>3 DEF Moved
  <2> QED BY <2>2, <2>5, <2>6
<1>2. Moved(q) = <<>> 
  BY AloneFacts DEF Take, OwnInv, Moved
<1>3. pc[q] \in {"idle"} \cup Copying \cup Closing /\ pc' = [pc EXCEPT ![q] = pc'[q]]
  BY AloneFacts DEF Take
<1> QED BY <1>1, <1>2, <1>3, AloneFacts DEF Take, Phase, Copying, Closing

LEMMA CopyMoved ==
  ASSUME TypeInv, CoreInv, NEW q \in load.procs, Copy(q)
  PROVE  /\ \A x \in Procs : Moved(x)' = Moved(x)
         /\ \A x \in Procs \ {q} : Phase(x)' = Phase(x)
         /\ Phase(q)' = Phase(q)
<1> USE DEF TypeInv, TypeOK, Links, At, Goto, nodes, locals, Live
<1>1. ASSUME NEW x \in Procs PROVE Moved(x)' = Moved(x) /\ (x # q => pc'[x] = pc[x])
  <2>1. \A y \in Procs : buf'[y] = buf[y]
    BY AloneFacts DEF Copy, OwnInv
  <2>2. x # q => pc'[x] = pc[x] /\ t'[x] = t[x]
    BY AloneFacts DEF Copy
  <2>3. pc[x] = "ready" => t[x] \in Procs
    BY DEF ServingInv
  <2>4. x = q => pc[x] # "ready" /\ pc'[x] # "ready" /\ (Live(x)' => buf[x] = <<>> \/ Live(x)) /\ (Live(x) => Live(x)')
    BY AloneFacts DEF Copy, OwnInv
  <2>5. x = q => Moved(x)' = Moved(x)
    BY <2>1, <2>4, AloneFacts DEF Moved, OwnInv
  <2>6. x # q => Moved(x)' = Moved(x)
    BY <2>1, <2>2, <2>3 DEF Moved
  <2> QED BY <2>2, <2>5, <2>6
<1>2. Moved(q) = <<>> 
  BY AloneFacts DEF Copy, OwnInv, Moved
<1>3. pc[q] \in {"idle"} \cup Copying \cup Closing /\ pc' = [pc EXCEPT ![q] = pc'[q]]
  BY AloneFacts DEF Copy
<1> QED BY <1>1, <1>2, <1>3, AloneFacts DEF Copy, Phase, Copying, Closing

LEMMA NilEndMoved ==
  ASSUME TypeInv, CoreInv, NEW q \in load.procs, NilEnd(q)
  PROVE  /\ \A x \in Procs : Moved(x)' = Moved(x)
         /\ \A x \in Procs \ {q} : Phase(x)' = Phase(x)
         /\ Phase(q)' = Phase(q)
<1> USE DEF TypeInv, TypeOK, Links, At, Goto, nodes, locals, Live
<1>1. ASSUME NEW x \in Procs PROVE Moved(x)' = Moved(x) /\ (x # q => pc'[x] = pc[x])
  <2>1. \A y \in Procs : buf'[y] = buf[y]
    BY AloneFacts DEF NilEnd, OwnInv
  <2>2. x # q => pc'[x] = pc[x] /\ t'[x] = t[x]
    BY AloneFacts DEF NilEnd
  <2>3. pc[x] = "ready" => t[x] \in Procs
    BY DEF ServingInv
  <2>4. x = q => pc[x] # "ready" /\ pc'[x] # "ready" /\ (Live(x)' => buf[x] = <<>> \/ Live(x)) /\ (Live(x) => Live(x)')
    BY AloneFacts DEF NilEnd, OwnInv
  <2>5. x = q => Moved(x)' = Moved(x)
    BY <2>1, <2>4, AloneFacts DEF Moved, OwnInv
  <2>6. x # q => Moved(x)' = Moved(x)
    BY <2>1, <2>2, <2>3 DEF Moved
  <2> QED BY <2>2, <2>5, <2>6
<1>2. Moved(q) = <<>> 
  BY AloneFacts DEF NilEnd, OwnInv, Moved
<1>3. pc[q] \in {"idle"} \cup Copying \cup Closing /\ pc' = [pc EXCEPT ![q] = pc'[q]]
  BY AloneFacts DEF NilEnd
<1> QED BY <1>1, <1>2, <1>3, AloneFacts DEF NilEnd, Phase, Copying, Closing

LEMMA LoadAllMoved ==
  ASSUME TypeInv, CoreInv, NEW q \in load.procs, LoadAll(q)
  PROVE  /\ \A x \in Procs : Moved(x)' = Moved(x)
         /\ \A x \in Procs \ {q} : Phase(x)' = Phase(x)
         /\ Phase(q)' = Phase(q)
<1> USE DEF TypeInv, TypeOK, Links, At, Goto, nodes, locals, Live
<1>1. ASSUME NEW x \in Procs PROVE Moved(x)' = Moved(x) /\ (x # q => pc'[x] = pc[x])
  <2>1. \A y \in Procs : buf'[y] = buf[y]
    BY AloneFacts DEF LoadAll, OwnInv
  <2>2. x # q => pc'[x] = pc[x] /\ t'[x] = t[x]
    BY AloneFacts DEF LoadAll
  <2>3. pc[x] = "ready" => t[x] \in Procs
    BY DEF ServingInv
  <2>4. x = q => pc[x] # "ready" /\ pc'[x] # "ready" /\ (Live(x)' => buf[x] = <<>> \/ Live(x)) /\ (Live(x) => Live(x)')
    BY AloneFacts DEF LoadAll, OwnInv
  <2>5. x = q => Moved(x)' = Moved(x)
    BY <2>1, <2>4, AloneFacts DEF Moved, OwnInv
  <2>6. x # q => Moved(x)' = Moved(x)
    BY <2>1, <2>2, <2>3 DEF Moved
  <2> QED BY <2>2, <2>5, <2>6
<1>2. Moved(q) = <<>> 
  BY AloneFacts DEF LoadAll, OwnInv, Moved
<1>3. pc[q] \in {"idle"} \cup Copying \cup Closing /\ pc' = [pc EXCEPT ![q] = pc'[q]]
  BY AloneFacts DEF LoadAll
<1> QED BY <1>1, <1>2, <1>3, AloneFacts DEF LoadAll, Phase, Copying, Closing

LEMMA ClearAllMoved ==
  ASSUME TypeInv, CoreInv, NEW q \in load.procs, ClearAll(q)
  PROVE  /\ \A x \in Procs : Moved(x)' = Moved(x)
         /\ \A x \in Procs \ {q} : Phase(x)' = Phase(x)
         /\ Phase(q)' = Phase(q)
<1> USE DEF TypeInv, TypeOK, Links, At, Goto, nodes, locals, Live
<1>1. ASSUME NEW x \in Procs PROVE Moved(x)' = Moved(x) /\ (x # q => pc'[x] = pc[x])
  <2>1. \A y \in Procs : buf'[y] = buf[y]
    BY AloneFacts DEF ClearAll, OwnInv
  <2>2. x # q => pc'[x] = pc[x] /\ t'[x] = t[x]
    BY AloneFacts DEF ClearAll
  <2>3. pc[x] = "ready" => t[x] \in Procs
    BY DEF ServingInv
  <2>4. x = q => pc[x] # "ready" /\ pc'[x] # "ready" /\ (Live(x)' => buf[x] = <<>> \/ Live(x)) /\ (Live(x) => Live(x)')
    BY AloneFacts DEF ClearAll, OwnInv
  <2>5. x = q => Moved(x)' = Moved(x)
    BY <2>1, <2>4, AloneFacts DEF Moved, OwnInv
  <2>6. x # q => Moved(x)' = Moved(x)
    BY <2>1, <2>2, <2>3 DEF Moved
  <2> QED BY <2>2, <2>5, <2>6
<1>2. Moved(q) = <<>> 
  BY AloneFacts DEF ClearAll, OwnInv, Moved
<1>3. pc[q] \in {"idle"} \cup Copying \cup Closing /\ pc' = [pc EXCEPT ![q] = pc'[q]]
  BY AloneFacts DEF ClearAll
<1> QED BY <1>1, <1>2, <1>3, AloneFacts DEF ClearAll, Phase, Copying, Closing

LEMMA SetEOFMoved ==
  ASSUME TypeInv, CoreInv, NEW q \in load.procs, SetEOF(q)
  PROVE  /\ \A x \in Procs : Moved(x)' = Moved(x)
         /\ \A x \in Procs \ {q} : Phase(x)' = Phase(x)
         /\ Phase(q)' = Phase(q)
<1> USE DEF TypeInv, TypeOK, Links, At, Goto, nodes, locals, Live
<1>1. ASSUME NEW x \in Procs PROVE Moved(x)' = Moved(x) /\ (x # q => pc'[x] = pc[x])
  <2>1. \A y \in Procs : buf'[y] = buf[y]
    BY AloneFacts DEF SetEOF, OwnInv
  <2>2. x # q => pc'[x] = pc[x] /\ t'[x] = t[x]
    BY AloneFacts DEF SetEOF
  <2>3. pc[x] = "ready" => t[x] \in Procs
    BY DEF ServingInv
  <2>4. x = q => pc[x] # "ready" /\ pc'[x] # "ready" /\ (Live(x)' => buf[x] = <<>> \/ Live(x)) /\ (Live(x) => Live(x)')
    BY AloneFacts DEF SetEOF, OwnInv
  <2>5. x = q => Moved(x)' = Moved(x)
    BY <2>1, <2>4, AloneFacts DEF Moved, OwnInv
  <2>6. x # q => Moved(x)' = Moved(x)
    BY <2>1, <2>2, <2>3 DEF Moved
  <2> QED BY <2>2, <2>5, <2>6
<1>2. Moved(q) = <<>> 
  BY AloneFacts DEF SetEOF, OwnInv, Moved
<1>3. pc[q] \in {"idle"} \cup Copying \cup Closing /\ pc' = [pc EXCEPT ![q] = pc'[q]]
  BY AloneFacts DEF SetEOF
<1> QED BY <1>1, <1>2, <1>3, AloneFacts DEF SetEOF, Phase, Copying, Closing

LEMMA WakeClosedMoved ==
  ASSUME TypeInv, CoreInv, NEW q \in load.procs, WakeClosed(q)
  PROVE  /\ \A x \in Procs : Moved(x)' = Moved(x)
         /\ \A x \in Procs \ {q} : Phase(x)' = Phase(x)
         /\ Phase(q)' = Phase(q)
<1> USE DEF TypeInv, TypeOK, Links, At, Goto, nodes, locals, Live
<1>1. ASSUME NEW x \in Procs PROVE Moved(x)' = Moved(x) /\ (x # q => pc'[x] = pc[x])
  <2>1. \A y \in Procs : buf'[y] = buf[y]
    BY AloneFacts DEF WakeClosed, OwnInv
  <2>2. x # q => pc'[x] = pc[x] /\ t'[x] = t[x]
    BY AloneFacts DEF WakeClosed
  <2>3. pc[x] = "ready" => t[x] \in Procs
    BY DEF ServingInv
  <2>4. x = q => pc[x] # "ready" /\ pc'[x] # "ready" /\ (Live(x)' => buf[x] = <<>> \/ Live(x)) /\ (Live(x) => Live(x)')
    BY AloneFacts DEF WakeClosed, OwnInv
  <2>5. x = q => Moved(x)' = Moved(x)
    BY <2>1, <2>4, AloneFacts DEF Moved, OwnInv
  <2>6. x # q => Moved(x)' = Moved(x)
    BY <2>1, <2>2, <2>3 DEF Moved
  <2> QED BY <2>2, <2>5, <2>6
<1>2. Moved(q) = <<>> 
  BY AloneFacts DEF WakeClosed, OwnInv, Moved
<1>3. pc[q] \in {"idle"} \cup Copying \cup Closing /\ pc' = [pc EXCEPT ![q] = pc'[q]]
  BY AloneFacts DEF WakeClosed
<1> QED BY <1>1, <1>2, <1>3, AloneFacts DEF WakeClosed, Phase, Copying, Closing

LEMMA NextClosedMoved ==
  ASSUME TypeInv, CoreInv, NEW q \in load.procs, NextClosed(q)
  PROVE  /\ \A x \in Procs : Moved(x)' = Moved(x)
         /\ \A x \in Procs \ {q} : Phase(x)' = Phase(x)
         /\ Phase(q)' = Phase(q)
<1> USE DEF TypeInv, TypeOK, Links, At, Goto, nodes, locals, Live
<1>1. ASSUME NEW x \in Procs PROVE Moved(x)' = Moved(x) /\ (x # q => pc'[x] = pc[x])
  <2>1. \A y \in Procs : buf'[y] = buf[y]
    BY AloneFacts DEF NextClosed, OwnInv
  <2>2. x # q => pc'[x] = pc[x] /\ t'[x] = t[x]
    BY AloneFacts DEF NextClosed
  <2>3. pc[x] = "ready" => t[x] \in Procs
    BY DEF ServingInv
  <2>4. x = q => pc[x] # "ready" /\ pc'[x] # "ready" /\ (Live(x)' => buf[x] = <<>> \/ Live(x)) /\ (Live(x) => Live(x)')
    BY AloneFacts DEF NextClosed, OwnInv
  <2>5. x = q => Moved(x)' = Moved(x)
    BY <2>1, <2>4, AloneFacts DEF Moved, OwnInv
  <2>6. x # q => Moved(x)' = Moved(x)
    BY <2>1, <2>2, <2>3 DEF Moved
  <2> QED BY <2>2, <2>5, <2>6
<1>2. Moved(q) = <<>> 
  BY AloneFacts DEF NextClosed, OwnInv, Moved
<1>3. pc[q] \in {"idle"} \cup Copying \cup Closing /\ pc' = [pc EXCEPT ![q] = pc'[q]]
  BY AloneFacts DEF NextClosed
<1> QED BY <1>1, <1>2, <1>3, AloneFacts DEF NextClosed, Phase, Copying, Closing

LEMMA FreePipeMoved ==
  ASSUME TypeInv, CoreInv, NEW q \in load.procs, FreePipe(q)
  PROVE  /\ \A x \in Procs : Moved(x)' = Moved(x)
         /\ \A x \in Procs \ {q} : Phase(x)' = Phase(x)
         /\ Phase(q)' = Phase(q)
<1> USE DEF TypeInv, TypeOK, Links, At, Goto, nodes, locals, Live
<1>1. ASSUME NEW x \in Procs PROVE Moved(x)' = Moved(x) /\ (x # q => pc'[x] = pc[x])
  <2>1. \A y \in Procs : buf'[y] = buf[y]
    BY AloneFacts DEF FreePipe, OwnInv
  <2>2. x # q => pc'[x] = pc[x] /\ t'[x] = t[x]
    BY AloneFacts DEF FreePipe, Forget
  <2>3. pc[x] = "ready" => t[x] \in Procs
    BY DEF ServingInv
  <2>4. x = q => pc[x] # "ready" /\ pc'[x] # "ready" /\ (Live(x)' => buf[x] = <<>> \/ Live(x)) /\ (Live(x) => Live(x)')
    BY AloneFacts DEF FreePipe, OwnInv
  <2>5. x = q => Moved(x)' = Moved(x)
    BY <2>1, <2>4, AloneFacts DEF Moved, OwnInv
  <2>6. x # q => Moved(x)' = Moved(x)
    BY <2>1, <2>2, <2>3 DEF Moved
  <2> QED BY <2>2, <2>5, <2>6
<1>2. Moved(q) = <<>> 
  BY AloneFacts DEF FreePipe, OwnInv, Moved
<1>3. pc[q] \in {"idle"} \cup Copying \cup Closing /\ pc' = [pc EXCEPT ![q] = pc'[q]]
  BY AloneFacts DEF FreePipe
<1> QED BY <1>1, <1>2, <1>3, AloneFacts DEF FreePipe, Phase, Copying, Closing

-----------------------------------------------------------------------------
(* The two sides have moved the same bytes, whatever a call of q returns.  *)
LEMMA ReturnKeepsStream ==
  ASSUME TypeInv, StreamInv, PeerInv, NEW q \in load.procs,
         NEW k, NEW b, k = Len(Moved(q)), q \in Readers => b = Moved(q),
         Moved(q) \in Data, Return(q, k, b), UNCHANGED load,
         \A x \in Procs : Moved(x)' = IF x = q THEN <<>> ELSE Moved(x)
  PROVE  /\ StreamInv' /\ PeerInv'
         /\ q \in Readers => got' = [got EXCEPT ![q] = @ \o Moved(q)] /\ pos' = pos
         /\ q \in Writers => pos' = [pos EXCEPT ![q] = @ + Len(Moved(q))] /\ got' = got
<1>1. /\ q \in Procs /\ load.procs \subseteq Procs /\ got \in [Readers -> Data]
      /\ pos \in [Writers -> Nat] /\ Readers \cap Writers = {} /\ Procs = Readers \cup Writers
  BY LoadTyped, PipeAssumption DEF TypeInv, TypeOK, Procs
<1>2. k \in Nat
  BY DEF Data
<1>3. q \in Readers => Filled(b, k) = Moved(q)
  BY <1>2, FilledTyped
<1>4. q \in Readers => got' = [got EXCEPT ![q] = @ \o Moved(q)] /\ pos' = pos
  BY <1>1, <1>3 DEF Return
<1>5. q \in Writers => pos' = [pos EXCEPT ![q] = @ + Len(Moved(q))] /\ got' = got
  BY <1>1 DEF Return
<1>6. Len(<<>>) = 0 /\ DOMAIN <<>> = {}
  OBVIOUS
<1>7. ASSUME q \in Readers, NEW w \in Writers \cap load.procs
      PROVE  /\ Len(got'[q]) = pos'[w] + Len(Moved(w)')
             /\ \A j \in DOMAIN got'[q] : got'[q][j] = <<w, j>>
  <2> DEFINE g == got[q]
             v == Moved(q)
  <2>1. /\ g \in Data /\ v \in Data /\ Len(g) + Len(v) = pos[w] + Len(Moved(w))
        /\ \A j \in DOMAIN g : g[j] = <<w, j>>
        /\ \A j \in DOMAIN v : v[j] = <<w, Len(g) + j>>
    BY <1>1, <1>7 DEF StreamInv
  <2>2. got'[q] = g \o v /\ pos'[w] = pos[w] /\ Moved(w)' = Moved(w)
    BY <1>1, <1>4, <1>7
  <2> HIDE DEF g, v
  <2>3. Len(g \o v) = Len(g) + Len(v) /\ Len(g) \in Nat /\ Len(v) \in Nat
    BY <2>1 DEF Data
  <2>4. ASSUME NEW j \in 1..(Len(g) + Len(v)) PROVE (g \o v)[j] = <<w, j>>
    <3>1. CASE j <= Len(g)
      BY <2>1, <3>1 DEF Data
    <3>2. CASE j > Len(g)
      <4>1. j - Len(g) \in 1..Len(v) /\ Len(g) + (j - Len(g)) = j
        BY <2>3, <3>2
      <4>2. (g \o v)[j] = v[j - Len(g)]
        BY <2>1, <2>3, <3>2 DEF Data
      <4>3. v[j - Len(g)] = <<w, Len(g) + (j - Len(g))>>
        BY <2>1, <4>1 DEF Data
      <4> QED BY <4>1, <4>2, <4>3
    <3> QED BY <2>3, <3>1, <3>2
  <2>5. DOMAIN (g \o v) = 1..(Len(g) + Len(v))
    BY <2>1, <2>3 DEF Data
  <2> QED BY <2>1, <2>2, <2>3, <2>4, <2>5
<1>8. ASSUME NEW rd \in Readers \cap load.procs, NEW w \in Writers \cap load.procs
      PROVE  /\ Len(got'[rd]) + Len(Moved(rd)') = pos'[w] + Len(Moved(w)')
             /\ \A j \in DOMAIN got'[rd] : got'[rd][j] = <<w, j>>
             /\ \A j \in DOMAIN Moved(rd)' : Moved(rd)'[j] = <<w, Len(got'[rd]) + j>>
  <2>1. /\ Len(got[rd]) + Len(Moved(rd)) = pos[w] + Len(Moved(w))
        /\ \A j \in DOMAIN got[rd] : got[rd][j] = <<w, j>>
        /\ \A j \in DOMAIN Moved(rd) : Moved(rd)[j] = <<w, Len(got[rd]) + j>>
        /\ Len(got[rd]) \in Nat /\ pos[w] \in Nat
    BY <1>1 DEF StreamInv, Data
  <2>2. CASE rd = q
    <3>1. Moved(rd)' = <<>> /\ Len(got'[rd]) \in Nat
      BY <1>1, <1>4, <2>2 DEF Data
    <3> QED BY <1>6, <1>7, <2>2, <3>1
  <2>3. CASE w = q
    <3>1. rd # q /\ q \notin Readers
      BY <1>1, <2>3
    <3>2. Moved(w)' = <<>> /\ Moved(rd)' = Moved(rd) /\ got' = got
      BY <1>1, <1>5, <2>3, <3>1
    <3>3. pos'[w] = pos[w] + Len(Moved(w)) /\ Len(Moved(w)) \in Nat
      BY <1>1, <1>2, <1>5, <2>3
    <3> QED BY <1>6, <2>1, <3>2, <3>3
  <2>4. CASE rd # q /\ w # q
    <3>1. Moved(w)' = Moved(w) /\ Moved(rd)' = Moved(rd) /\ got'[rd] = got[rd] /\ pos'[w] = pos[w]
      BY <1>1, <1>4, <1>5, <2>4
    <3> QED BY <2>1, <3>1
  <2> QED BY <2>2, <2>3, <2>4
<1>9. StreamInv'
  BY <1>8 DEF StreamInv
<1>10. ASSUME NEW w \in Writers, pos'[w] + Len(Moved(w)') > 0
       PROVE  pos[w] + Len(Moved(w)) > 0
  <2>1. w # q => pos'[w] = pos[w] /\ Moved(w)' = Moved(w)
    BY <1>1, <1>4, <1>5
  <2>2. w = q => pos'[w] = pos[w] + Len(Moved(w)) /\ Moved(w)' = <<>>
    BY <1>1, <1>5
  <2>3. pos[w] \in Nat /\ (w = q => Len(Moved(w)) \in Nat)
    BY <1>1, <1>2
  <2> QED BY <1>6, <1>10, <2>1, <2>2, <2>3
<1>11. PeerInv'
  BY <1>10 DEF PeerInv
<1> QED BY <1>4, <1>5, <1>9, <1>11

LEMMA SameStream ==
  ASSUME TypeInv, StreamInv, PeerInv, UNCHANGED <<got, pos, load>>,
         \A x \in Procs : Moved(x)' = Moved(x)
  PROVE  StreamInv' /\ PeerInv'
<1>1. load.procs \subseteq Procs /\ Writers \subseteq Procs
  BY LoadTyped DEF TypeInv, TypeOK, Procs
<1>2. StreamInv'
  BY <1>1 DEF StreamInv
<1>3. PeerInv'
  BY <1>1 DEF PeerInv
<1> QED BY <1>2, <1>3

LEMMA AnswerMoved ==
  ASSUME TypeInv, OneEach, CoreInv, NEW q \in load.procs, Answer(q)
  PROVE  \E rd \in Readers \cap load.procs, w \in Writers \cap load.procs :
           /\ \A x \in {rd, w} : /\ Moved(x) = <<>> /\ Phase(x) = "pending"
                                 /\ Moved(x)' = Bytes(w, Min({n[rd], n[w]})) /\ Phase(x)' = "done"
           /\ \A x \in Procs \ {rd, w} : Moved(x)' = Moved(x) /\ Phase(x)' = Phase(x)
           /\ Min({n[rd], n[w]}) \in Nat \ {0}
<1>0. PICK m \in Procs : m = t[q]
  BY AloneFacts DEF TypeInv, ServingInv, Answer, At
<1> DEFINE rd == IF q \in Readers THEN q ELSE m
           w == IF q \in Writers THEN q ELSE m
<1>k. PICK k : k = Min({n[rd], n[w]})
  OBVIOUS
<1>1. /\ m \in Peers(q) /\ pc[q] = "answer" /\ Fresh(m) /\ r[q] = Min({n[q], n[m]})
      /\ m \in Procs /\ q \in Procs /\ pc'[q] = "ready" /\ pc'[m] = pc[m] /\ t' = t
      /\ pc' = [pc EXCEPT ![q] = "ready"]
  BY <1>0, AloneFacts DEF Answer, ServeInv, At, Goto, TypeInv, TypeOK, locals, Peers
<1>2. /\ rd \in Readers \cap load.procs /\ w \in Writers \cap load.procs
      /\ {rd, w} = {q, m} /\ Readers \cap Writers = {}
  BY <1>1, OnePeer, PipeAssumption DEF SameDirection, Procs
<1>3. n[q] \in Nat \ {0} /\ n[m] \in Nat \ {0}
  BY <1>1, AloneFacts, PipeAssumption DEF OwnInv, Copying, Fresh, Parked, Live
<1>4. k = r[q] /\ k \in Nat \ {0}
  <2>1. k = Min({n[q], n[m]})
    BY <1>2, <1>3, <1>k, MinOfTwo
  <2> QED BY <1>1, <1>3, <2>1, MinOfTwo
<1>5. buf' = [buf EXCEPT ![m] = Bytes(w, k)] /\ buf'[m] = Bytes(w, k) /\ buf'[m] # <<>>
  <2>1. buf' = [buf EXCEPT ![m] = Bytes(w, k)]
    BY <1>0, <1>4 DEF Answer
  <2>2. Len(Bytes(w, k)) = k
    BY <1>2, <1>4, BytesTyped
  <2>3. Bytes(w, k) # <<>>
    BY <1>4, <2>2
  <2> QED BY <1>1, <2>1, <2>3 DEF TypeInv, TypeOK
<1> HIDE DEF rd, w
<1>6. Moved(q) = <<>> /\ Moved(m) = <<>> /\ Phase(q) = "pending" /\ Phase(m) = "pending"
  BY <1>1, AloneFacts DEF Moved, Phase, Fresh, Parked, Live, OwnInv, Copying
<1>7. /\ Moved(q)' = Bytes(w, k) /\ Moved(m)' = Bytes(w, k)
      /\ Phase(q)' = "done" /\ Phase(m)' = "done"
  BY <1>0, <1>1, <1>5 DEF Moved, Phase, Fresh, Parked, Live
<1>8. ASSUME NEW x \in Procs, x # q, x # m PROVE Moved(x)' = Moved(x) /\ Phase(x)' = Phase(x)
  <2>1. pc[x] = "idle" /\ pc'[x] = "idle"
    BY <1>1, <1>8, AloneFacts, OnePeer DEF OwnInv, TypeInv, TypeOK
  <2> QED BY <2>1 DEF Moved, Phase, Live
<1>9. \A x \in {rd, w} : Moved(x) = <<>> /\ Phase(x) = "pending" /\ Moved(x)' = Bytes(w, k) /\ Phase(x)' = "done"
  <2>1. \A x \in {q, m} : Moved(x) = <<>> /\ Phase(x) = "pending" /\ Moved(x)' = Bytes(w, k) /\ Phase(x)' = "done"
    BY <1>6, <1>7
  <2> QED BY <1>2, <2>1
<1>10. \A x \in Procs \ {rd, w} : Moved(x)' = Moved(x) /\ Phase(x)' = Phase(x)
  BY <1>2, <1>8
<1>11. k = Min({n[rd], n[w]})
  BY <1>k
<1>12. \A x \in {rd, w} : /\ Moved(x) = <<>> /\ Phase(x) = "pending"
                          /\ Moved(x)' = Bytes(w, Min({n[rd], n[w]})) /\ Phase(x)' = "done"
  BY <1>9, <1>11
<1>13. Min({n[rd], n[w]}) \in Nat \ {0}
  BY <1>4, <1>11
<1> QED BY <1>2, <1>10, <1>12, <1>13

LEMMA ReadyMoved ==
  ASSUME TypeInv, OneEach, CoreInv, NEW q \in load.procs, Ready(q)
  PROVE  /\ Moved(q) = buf[t[q]] /\ Moved(q) \in Data /\ r[q] = Len(Moved(q)) /\ Moved(q) # <<>>
         /\ Phase(q) = "done" /\ Phase(q)' = "idle" /\ Moved(q)' = <<>>
         /\ \A x \in Procs : x # q => Moved(x)' = Moved(x) /\ Phase(x)' = Phase(x)
<1>1. /\ t[q] \in Peers(q) /\ pc[q] = "ready" /\ Answered(t[q]) /\ r[q] = len[t[q]]
      /\ t[q] \in Procs /\ q \in Procs /\ pc' = [pc EXCEPT ![q] = "idle"] /\ buf' = buf
      /\ pc'[q] = "idle" /\ t' = [t EXCEPT ![q] = None]
      /\ \A x \in Procs : x # q => pc'[x] = pc[x] /\ t'[x] = t[x]
  BY AloneFacts DEF Ready, ServeInv, At, Goto, TypeInv, TypeOK, Links, Return, Forget, Peers, nodes
<1>2. Moved(q) = buf[t[q]] /\ buf[t[q]] \in Data
  BY <1>1 DEF Moved, TypeInv, TypeOK
<1>3. Phase(q) = "done" /\ Phase(q)' = "idle" /\ Moved(q)' = <<>>
  BY <1>1, <1>2 DEF Phase, Moved, Answered, Live, Copying
<1>4. ASSUME NEW x \in Procs, x # q PROVE Moved(x)' = Moved(x) /\ Phase(x)' = Phase(x)
  <2>1. Moved(x)' = Moved(x)
    BY <1>1, <1>4 DEF Moved, Live
  <2> QED BY <1>1, <1>4, <2>1 DEF Phase
<1> QED BY <1>1, <1>2, <1>3, <1>4 DEF Answered

LEMMA WakeMoved ==
  ASSUME TypeInv, OneEach, CoreInv, NEW q \in load.procs, Wake(q)
  PROVE  /\ Moved(q) = buf[q] /\ Moved(q) \in Data /\ len[q] = Len(Moved(q))
         /\ Phase(q) = IF Moved(q) = <<>> THEN "pending" ELSE "done"
         /\ Moved(q) = <<>> => ends # {"c0", "c1"}
         /\ Phase(q)' = "idle" /\ Moved(q)' = <<>>
         /\ \A x \in Procs : x # q => Moved(x)' = Moved(x) /\ Phase(x)' = Phase(x)
<1>1. /\ q \in Procs /\ pc[q] = "wake" /\ state[q] = "run" /\ pc' = [pc EXCEPT ![q] = "idle"]
      /\ pc'[q] = "idle" /\ t' = [t EXCEPT ![q] = None]
      /\ \A x \in Procs : x # q => pc'[x] = pc[x] /\ t'[x] = t[x] /\ buf'[x] = buf[x]
  BY AloneFacts DEF Wake, At, Goto, TypeInv, TypeOK, Links, Return, Forget
<1>2. Answered(q) \/ Told(q)
  BY <1>1, AloneFacts DEF OwnInv, Live, Fresh, Parked
<1>3. Moved(q) = buf[q] /\ buf[q] \in Data
  BY <1>1 DEF Moved, Live, TypeInv, TypeOK
<1>4. Len(<<>>) = 0
  OBVIOUS
<1>5. /\ len[q] = Len(Moved(q)) /\ (Moved(q) = <<>> => ends # {"c0", "c1"})
      /\ Phase(q) = IF Moved(q) = <<>> THEN "pending" ELSE "done"
  BY <1>1, <1>2, <1>3, <1>4 DEF Answered, Told, Phase, Copying
<1>6. Phase(q)' = "idle" /\ Moved(q)' = <<>>
  BY <1>1 DEF Phase, Moved, Live, Copying
<1>7. ASSUME NEW x \in Procs, x # q PROVE Moved(x)' = Moved(x) /\ Phase(x)' = Phase(x)
  <2>1. pc[x] = "ready" => t[x] \in Procs /\ t[x] # q
    BY <1>1, AloneFacts DEF ServeInv, Parked, Peers, ServingInv, TypeInv
  <2>2. Moved(x)' = Moved(x)
    BY <1>1, <1>7, <2>1 DEF Moved, Live
  <2> QED BY <1>1, <1>7, <2>2 DEF Phase
<1> QED BY <1>3, <1>5, <1>6, <1>7

LEMMA AnswerKeepsStream ==
  ASSUME TypeInv, OneEach, CoreInv, StreamInv, PeerInv, NEW q \in load.procs, Answer(q),
         UNCHANGED load
  PROVE  StreamInv' /\ PeerInv'
<1>1. PICK rd \in Readers \cap load.procs, w \in Writers \cap load.procs :
           /\ \A x \in {rd, w} : /\ Moved(x) = <<>>
                                 /\ Moved(x)' = Bytes(w, Min({n[rd], n[w]}))
           /\ \A x \in Procs \ {rd, w} : Moved(x)' = Moved(x)
           /\ Min({n[rd], n[w]}) \in Nat \ {0}
  BY AnswerMoved
<1>k. PICK k : k = Min({n[rd], n[w]})
  OBVIOUS
<1>2. got' = got /\ pos' = pos /\ load' = load
  BY DEF Answer, result
<1>3. /\ Len(Bytes(w, k)) = k /\ DOMAIN Bytes(w, k) = 1..k
      /\ \A i \in 1..k : Bytes(w, k)[i] = <<w, pos[w] + i>>
  BY <1>1, <1>k, BytesTyped
<1>4. \A x \in Readers \cap load.procs, y \in Writers \cap load.procs : x = rd /\ y = w
  BY PipeAssumption DEF OneEach, SameDirection
<1>5. k \in Nat /\ pos[w] \in Nat /\ Len(<<>>) = 0
  BY <1>1, <1>k DEF TypeInv, TypeOK
<1>6. Moved(rd)' = Bytes(w, k) /\ Moved(w)' = Bytes(w, k) /\ Moved(rd) = <<>> /\ Moved(w) = <<>>
  BY <1>1, <1>k
<1>7. StreamInv'
  <2>1. /\ Len(got[rd]) = pos[w]
        /\ \A j \in DOMAIN got[rd] : got[rd][j] = <<w, j>>
    BY <1>1, <1>5, <1>6 DEF StreamInv, TypeInv, TypeOK, Data
  <2>2. /\ Len(got'[rd]) + Len(Moved(rd)') = pos'[w] + Len(Moved(w)')
        /\ \A j \in DOMAIN got'[rd] : got'[rd][j] = <<w, j>>
        /\ \A j \in DOMAIN Moved(rd)' : Moved(rd)'[j] = <<w, Len(got'[rd]) + j>>
    BY <1>2, <1>3, <1>5, <1>6, <2>1
  <2> QED BY <1>2, <1>4, <2>2 DEF StreamInv
<1>8. PeerInv'
  <2>1. ASSUME NEW y \in Writers, y # w PROVE Moved(y)' = Moved(y)
    BY <1>1, <2>1, PipeAssumption DEF Procs
  <2> QED BY <1>1, <1>2, <2>1 DEF PeerInv
<1> QED BY <1>7, <1>8

-----------------------------------------------------------------------------
(* What each action does to the state of Stream.                           *)
LEMMA StreamStutters ==
  ASSUME UNCHANGED <<got, pos, n, ends>>,
         \A x \in Procs : Moved(x)' = Moved(x) /\ Phase(x)' = Phase(x)
  PROVE  UNCHANGED S!svars
BY DEF S!svars

LEMMA StreamTyped ==
  ASSUME TypeInv, NEW q \in load.procs
  PROVE  /\ S!Procs = Procs /\ q \in Procs
         /\ DOMAIN n = Procs /\ DOMAIN got = Readers /\ DOMAIN pos = Writers
BY LoadTyped DEF S!Procs, Procs, TypeInv, TypeOK

LEMMA StreamReturns ==
  ASSUME TypeInv, OneEach, NEW q \in load.procs, UNCHANGED ends, n' = [n EXCEPT ![q] = 0],
         Phase(q) = IF Moved(q) = <<>> THEN "pending" ELSE "done",
         Moved(q) \in Data,
         Moved(q) = <<>> => ends # {"c0", "c1"},
         Phase(q)' = "idle", Moved(q)' = <<>>,
         \A x \in Procs : x # q => Moved(x)' = Moved(x) /\ Phase(x)' = Phase(x),
         q \in Readers => got' = [got EXCEPT ![q] = @ \o Moved(q)] /\ pos' = pos,
         q \in Writers => pos' = [pos EXCEPT ![q] = @ + Len(Moved(q))] /\ got' = got
  PROVE  S!SNext
<1> DEFINE ph == [x \in Procs |-> Phase(x)]
           mv == [x \in Procs |-> Moved(x)]
<1>1. /\ ph' = [ph EXCEPT ![q] = "idle"] /\ mv' = [mv EXCEPT ![q] = <<>>]
      /\ ph[q] = Phase(q) /\ mv[q] = Moved(q) /\ q \in Procs /\ S!Procs = Procs
  BY StreamTyped
<1>2. S!Back(q)
  BY <1>1 DEF S!Back
<1>3. CASE Moved(q) # <<>>
  <2>1. S!Return(q)
    BY <1>1, <1>2, <1>3, PipeAssumption DEF S!Return, Procs
  <2> QED BY <1>1, <2>1 DEF S!SNext
<1>4. CASE Moved(q) = <<>>
  <2>1. got' = got
    <3>1. q \in Readers => got[q] \o <<>> = got[q]
      BY DEF TypeInv, TypeOK, Data
    <3> QED BY <1>1, <1>4, <3>1, PipeAssumption DEF TypeInv, TypeOK, Procs
  <2>2. pos' = pos
    <3>1. Len(<<>>) = 0
      OBVIOUS
    <3>2. q \in Writers => pos[q] + 0 = pos[q]
      BY DEF TypeInv, TypeOK
    <3> QED BY <1>1, <1>4, <3>1, <3>2 DEF TypeInv, TypeOK, Procs
  <2>3. mv' = mv
    BY <1>1, <1>4
  <2>4. {"c0", "c1"} \ ends # {}
    BY <1>4 DEF TypeInv, TypeOK
  <2>5. S!ReturnEOF(q)
    BY <1>1, <1>2, <1>4, <2>1, <2>2, <2>3, <2>4 DEF S!ReturnEOF
  <2> QED BY <1>1, <2>5 DEF S!SNext
<1> QED BY <1>3, <1>4

(* Every step of a process keeps the invariant and is a step of Stream.    *)
LEMMA StepAlone ==
  ASSUME TypeInv, TypeInv', OneEach, AloneInv, NEW q \in load.procs, UNCHANGED load,
         Call(q) \/ Copies(q) \/ Closes(q) \/ Undefined(q)
  PROVE  AloneInv' /\ [S!SNext]_(S!svars)
<1>1. CoreInv /\ StreamInv /\ PeerInv /\ q \in Procs /\ n \in [Procs -> 0..MaxLen]
  BY LoadTyped DEF AloneInv, TypeInv, TypeOK
<1>2. ASSUME NEW k \in 1..load.len, Begin(q, k) PROVE AloneInv' /\ [S!SNext]_(S!svars)
  <2>1. /\ CoreInv' /\ UNCHANGED <<got, pos>>
        /\ \A x \in Procs : Moved(x)' = Moved(x)
    BY <1>1, <1>2, BeginCore, BeginMoved DEF Begin, result
  <2>2. StreamInv' /\ PeerInv'
    BY <1>1, <2>1, SameStream
  <2> DEFINE ph == [x \in Procs |-> Phase(x)]
  <2>3. Phase(q) = "idle" /\ Phase(q)' = "pending" /\ \A x \in Procs \ {q} : Phase(x)' = Phase(x)
    BY <1>1, <1>2, BeginMoved
  <2>4. ph' = [ph EXCEPT ![q] = "pending"] /\ ph[q] = "idle"
    BY <1>1, <2>3
  <2>5. /\ [x \in Procs |-> Moved(x)]' = [x \in Procs |-> Moved(x)]
        /\ n' = [n EXCEPT ![q] = k] /\ ends' = ends
    BY <1>2, <2>1 DEF Begin, pipe
  <2>6. S!Begin(q, k)
    BY <2>1, <2>4, <2>5 DEF S!Begin
  <2>7. k \in 1..MaxLen /\ q \in S!Procs
    BY <1>1, LoadTyped, PipeAssumption, StreamTyped DEF TypeInv, TypeOK
  <2>8. S!SNext
    BY <2>6, <2>7 DEF S!SNext
  <2> QED BY <2>1, <2>2, <2>8 DEF AloneInv
<1>3. ASSUME Close(q) PROVE AloneInv' /\ [S!SNext]_(S!svars)
  <2>1. /\ CoreInv' /\ UNCHANGED <<got, pos>>
        /\ \A x \in Procs : Moved(x)' = Moved(x)
    BY <1>1, <1>3, CloseCore, CloseMoved DEF Close, result
  <2>2. StreamInv' /\ PeerInv'
    BY <1>1, <2>1, SameStream
  <2>3. \A x \in Procs : Phase(x)' = Phase(x)
    BY <1>1, <1>3, CloseMoved
  <2>4. n' = n /\ ends' = ends
    BY <1>3 DEF Close, locals, pipe
  <2>5. UNCHANGED S!svars
    BY <2>1, <2>3, <2>4, StreamStutters
  <2> QED BY <2>1, <2>2, <2>5 DEF AloneInv
<1>4. ASSUME LoadHead(q) PROVE AloneInv' /\ [S!SNext]_(S!svars)
  <2>1. /\ CoreInv' /\ UNCHANGED <<got, pos>>
        /\ \A x \in Procs : Moved(x)' = Moved(x)
    BY <1>1, <1>4, LoadHeadCore, LoadHeadMoved DEF LoadHead, result
  <2>2. StreamInv' /\ PeerInv'
    BY <1>1, <2>1, SameStream
  <2>3. \A x \in Procs : Phase(x)' = Phase(x)
    BY <1>1, <1>4, LoadHeadMoved
  <2>4. n' = n /\ ends' = ends
    BY <1>4 DEF LoadHead, locals, pipe
  <2>5. UNCHANGED S!svars
    BY <2>1, <2>3, <2>4, StreamStutters
  <2> QED BY <2>1, <2>2, <2>5 DEF AloneInv
<1>5. ASSUME WalkEnds(q) PROVE AloneInv' /\ [S!SNext]_(S!svars)
  <2>1. /\ CoreInv' /\ UNCHANGED <<got, pos>>
        /\ \A x \in Procs : Moved(x)' = Moved(x)
    BY <1>1, <1>5, WalkEndsCore, WalkEndsMoved DEF WalkEnds, result
  <2>2. StreamInv' /\ PeerInv'
    BY <1>1, <2>1, SameStream
  <2>3. \A x \in Procs : Phase(x)' = Phase(x)
    BY <1>1, <1>5, WalkEndsMoved
  <2>4. n' = n /\ ends' = ends
    BY <1>5 DEF WalkEnds, locals, pipe
  <2>5. UNCHANGED S!svars
    BY <2>1, <2>3, <2>4, StreamStutters
  <2> QED BY <2>1, <2>2, <2>5 DEF AloneInv
<1>6. ASSUME ReturnEOF(q) PROVE AloneInv' /\ [S!SNext]_(S!svars)
  <2>1. /\ CoreInv' /\ UNCHANGED <<got, pos>>
        /\ \A x \in Procs : Moved(x)' = Moved(x)
    BY <1>1, <1>6, ReturnEOFCore, ReturnEOFMoved DEF ReturnEOF, result
  <2>2. StreamInv' /\ PeerInv'
    BY <1>1, <2>1, SameStream
  <2>3. /\ Phase(q) = "pending" /\ Phase(q)' = "idle" /\ Moved(q) = <<>>
        /\ \A x \in Procs \ {q} : Phase(x)' = Phase(x)
    BY <1>1, <1>6, ReturnEOFMoved, AloneFacts DEF ReturnEOF, At, Moved, OwnInv, Live
  <2>4. n' = [n EXCEPT ![q] = 0] /\ ends' = ends /\ ends # {"c0", "c1"} /\ <<>> \in Data
    BY <1>6 DEF ReturnEOF, Forget, pipe, Data
  <2>5. /\ q \in Readers => got' = [got EXCEPT ![q] = @ \o Moved(q)]
        /\ q \in Writers => pos' = [pos EXCEPT ![q] = @ + Len(Moved(q))]
    <3>1. Len(<<>>) = 0 /\ (q \in Readers => got[q] \o <<>> = got[q]) /\ (q \in Writers => pos[q] + 0 = pos[q])
      BY DEF TypeInv, TypeOK, Data
    <3> QED BY <2>1, <2>3, <3>1 DEF TypeInv, TypeOK
  <2>6. S!SNext
    BY <1>1, <2>1, <2>3, <2>4, <2>5, StreamReturns
  <2> QED BY <2>1, <2>2, <2>6 DEF AloneInv
<1>7. ASSUME Check(q) PROVE AloneInv' /\ [S!SNext]_(S!svars)
  <2>1. /\ CoreInv' /\ UNCHANGED <<got, pos>>
        /\ \A x \in Procs : Moved(x)' = Moved(x)
    BY <1>1, <1>7, CheckCore, CheckMoved DEF Check, result
  <2>2. StreamInv' /\ PeerInv'
    BY <1>1, <2>1, SameStream
  <2>3. \A x \in Procs : Phase(x)' = Phase(x)
    BY <1>1, <1>7, CheckMoved
  <2>4. n' = n /\ ends' = ends
    BY <1>7 DEF Check, locals, pipe
  <2>5. UNCHANGED S!svars
    BY <2>1, <2>3, <2>4, StreamStutters
  <2> QED BY <2>1, <2>2, <2>5 DEF AloneInv
<1>8. ASSUME Push(q) PROVE AloneInv' /\ [S!SNext]_(S!svars)
  <2>1. /\ CoreInv' /\ UNCHANGED <<got, pos>>
        /\ \A x \in Procs : Moved(x)' = Moved(x)
    BY <1>1, <1>8, PushCore, PushMoved DEF Push, result
  <2>2. StreamInv' /\ PeerInv'
    BY <1>1, <2>1, SameStream
  <2>3. \A x \in Procs : Phase(x)' = Phase(x)
    BY <1>1, <1>8, PushMoved
  <2>4. n' = n /\ ends' = ends
    BY <1>8 DEF Push, locals, pipe
  <2>5. UNCHANGED S!svars
    BY <2>1, <2>3, <2>4, StreamStutters
  <2> QED BY <2>1, <2>2, <2>5 DEF AloneInv
<1>9. ASSUME PushFails(q) PROVE AloneInv' /\ [S!SNext]_(S!svars)
  <2>1. /\ CoreInv' /\ UNCHANGED <<got, pos>>
        /\ \A x \in Procs : Moved(x)' = Moved(x)
    BY <1>1, <1>9, PushFailsCore, PushFailsMoved DEF PushFails, result
  <2>2. StreamInv' /\ PeerInv'
    BY <1>1, <2>1, SameStream
  <2>3. \A x \in Procs : Phase(x)' = Phase(x)
    BY <1>1, <1>9, PushFailsMoved
  <2>4. n' = n /\ ends' = ends
    BY <1>9 DEF PushFails, locals, pipe
  <2>5. UNCHANGED S!svars
    BY <2>1, <2>3, <2>4, StreamStutters
  <2> QED BY <2>1, <2>2, <2>5 DEF AloneInv
<1>10. ASSUME Sleep(q) PROVE AloneInv' /\ [S!SNext]_(S!svars)
  <2>1. /\ CoreInv' /\ UNCHANGED <<got, pos>>
        /\ \A x \in Procs : Moved(x)' = Moved(x)
    BY <1>1, <1>10, SleepCore, SleepMoved DEF Sleep, result
  <2>2. StreamInv' /\ PeerInv'
    BY <1>1, <2>1, SameStream
  <2>3. \A x \in Procs : Phase(x)' = Phase(x)
    BY <1>1, <1>10, SleepMoved
  <2>4. n' = n /\ ends' = ends
    BY <1>10 DEF Sleep, locals, pipe
  <2>5. UNCHANGED S!svars
    BY <2>1, <2>3, <2>4, StreamStutters
  <2> QED BY <2>1, <2>2, <2>5 DEF AloneInv
<1>11. ASSUME Take(q) PROVE AloneInv' /\ [S!SNext]_(S!svars)
  <2>1. /\ CoreInv' /\ UNCHANGED <<got, pos>>
        /\ \A x \in Procs : Moved(x)' = Moved(x)
    BY <1>1, <1>11, TakeCore, TakeMoved DEF Take, result
  <2>2. StreamInv' /\ PeerInv'
    BY <1>1, <2>1, SameStream
  <2>3. \A x \in Procs : Phase(x)' = Phase(x)
    BY <1>1, <1>11, TakeMoved
  <2>4. n' = n /\ ends' = ends
    BY <1>11 DEF Take, locals, pipe
  <2>5. UNCHANGED S!svars
    BY <2>1, <2>3, <2>4, StreamStutters
  <2> QED BY <2>1, <2>2, <2>5 DEF AloneInv
<1>12. ASSUME Copy(q) PROVE AloneInv' /\ [S!SNext]_(S!svars)
  <2>1. /\ CoreInv' /\ UNCHANGED <<got, pos>>
        /\ \A x \in Procs : Moved(x)' = Moved(x)
    BY <1>1, <1>12, CopyCore, CopyMoved DEF Copy, result
  <2>2. StreamInv' /\ PeerInv'
    BY <1>1, <2>1, SameStream
  <2>3. \A x \in Procs : Phase(x)' = Phase(x)
    BY <1>1, <1>12, CopyMoved
  <2>4. n' = n /\ ends' = ends
    BY <1>12 DEF Copy, locals, pipe
  <2>5. UNCHANGED S!svars
    BY <2>1, <2>3, <2>4, StreamStutters
  <2> QED BY <2>1, <2>2, <2>5 DEF AloneInv
<1>13. ASSUME NilEnd(q) PROVE AloneInv' /\ [S!SNext]_(S!svars)
  <2>1. /\ CoreInv' /\ UNCHANGED <<got, pos>>
        /\ \A x \in Procs : Moved(x)' = Moved(x)
    BY <1>1, <1>13, NilEndCore, NilEndMoved DEF NilEnd, result
  <2>2. StreamInv' /\ PeerInv'
    BY <1>1, <2>1, SameStream
  <2>3. /\ \A x \in Procs : Phase(x)' = Phase(x)
        /\ n' = n /\ ends' = ends \ {End(q)} /\ End(q) \in {"c0", "c1"}
    BY <1>1, <1>13, NilEndMoved DEF NilEnd, locals, End
  <2>4. {"c0", "c1"} \ ends' = ({"c0", "c1"} \ ends) \cup {End(q)}
    BY <2>3
  <2>5. S!CloseEnd(End(q))
    BY <2>1, <2>3, <2>4 DEF S!CloseEnd
  <2>6. S!SNext
    BY <2>3, <2>5 DEF S!SNext
  <2> QED BY <2>1, <2>2, <2>6 DEF AloneInv
<1>14. ASSUME LoadAll(q) PROVE AloneInv' /\ [S!SNext]_(S!svars)
  <2>1. /\ CoreInv' /\ UNCHANGED <<got, pos>>
        /\ \A x \in Procs : Moved(x)' = Moved(x)
    BY <1>1, <1>14, LoadAllCore, LoadAllMoved DEF LoadAll, result
  <2>2. StreamInv' /\ PeerInv'
    BY <1>1, <2>1, SameStream
  <2>3. \A x \in Procs : Phase(x)' = Phase(x)
    BY <1>1, <1>14, LoadAllMoved
  <2>4. n' = n /\ ends' = ends
    BY <1>14 DEF LoadAll, locals, pipe
  <2>5. UNCHANGED S!svars
    BY <2>1, <2>3, <2>4, StreamStutters
  <2> QED BY <2>1, <2>2, <2>5 DEF AloneInv
<1>15. ASSUME ClearAll(q) PROVE AloneInv' /\ [S!SNext]_(S!svars)
  <2>1. /\ CoreInv' /\ UNCHANGED <<got, pos>>
        /\ \A x \in Procs : Moved(x)' = Moved(x)
    BY <1>1, <1>15, ClearAllCore, ClearAllMoved DEF ClearAll, result
  <2>2. StreamInv' /\ PeerInv'
    BY <1>1, <2>1, SameStream
  <2>3. \A x \in Procs : Phase(x)' = Phase(x)
    BY <1>1, <1>15, ClearAllMoved
  <2>4. n' = n /\ ends' = ends
    BY <1>15 DEF ClearAll, locals, pipe
  <2>5. UNCHANGED S!svars
    BY <2>1, <2>3, <2>4, StreamStutters
  <2> QED BY <2>1, <2>2, <2>5 DEF AloneInv
<1>16. ASSUME SetEOF(q) PROVE AloneInv' /\ [S!SNext]_(S!svars)
  <2>1. /\ CoreInv' /\ UNCHANGED <<got, pos>>
        /\ \A x \in Procs : Moved(x)' = Moved(x)
    BY <1>1, <1>16, SetEOFCore, SetEOFMoved DEF SetEOF, result
  <2>2. StreamInv' /\ PeerInv'
    BY <1>1, <2>1, SameStream
  <2>3. \A x \in Procs : Phase(x)' = Phase(x)
    BY <1>1, <1>16, SetEOFMoved
  <2>4. n' = n /\ ends' = ends
    BY <1>16 DEF SetEOF, locals, pipe
  <2>5. UNCHANGED S!svars
    BY <2>1, <2>3, <2>4, StreamStutters
  <2> QED BY <2>1, <2>2, <2>5 DEF AloneInv
<1>17. ASSUME WakeClosed(q) PROVE AloneInv' /\ [S!SNext]_(S!svars)
  <2>1. /\ CoreInv' /\ UNCHANGED <<got, pos>>
        /\ \A x \in Procs : Moved(x)' = Moved(x)
    BY <1>1, <1>17, WakeClosedCore, WakeClosedMoved DEF WakeClosed, result
  <2>2. StreamInv' /\ PeerInv'
    BY <1>1, <2>1, SameStream
  <2>3. \A x \in Procs : Phase(x)' = Phase(x)
    BY <1>1, <1>17, WakeClosedMoved
  <2>4. n' = n /\ ends' = ends
    BY <1>17 DEF WakeClosed, locals, pipe
  <2>5. UNCHANGED S!svars
    BY <2>1, <2>3, <2>4, StreamStutters
  <2> QED BY <2>1, <2>2, <2>5 DEF AloneInv
<1>18. ASSUME NextClosed(q) PROVE AloneInv' /\ [S!SNext]_(S!svars)
  <2>1. /\ CoreInv' /\ UNCHANGED <<got, pos>>
        /\ \A x \in Procs : Moved(x)' = Moved(x)
    BY <1>1, <1>18, NextClosedCore, NextClosedMoved DEF NextClosed, result
  <2>2. StreamInv' /\ PeerInv'
    BY <1>1, <2>1, SameStream
  <2>3. \A x \in Procs : Phase(x)' = Phase(x)
    BY <1>1, <1>18, NextClosedMoved
  <2>4. n' = n /\ ends' = ends
    BY <1>18 DEF NextClosed, locals, pipe
  <2>5. UNCHANGED S!svars
    BY <2>1, <2>3, <2>4, StreamStutters
  <2> QED BY <2>1, <2>2, <2>5 DEF AloneInv
<1>19. ASSUME FreePipe(q) PROVE AloneInv' /\ [S!SNext]_(S!svars)
  <2>1. /\ CoreInv' /\ UNCHANGED <<got, pos>>
        /\ \A x \in Procs : Moved(x)' = Moved(x)
    BY <1>1, <1>19, FreePipeCore, FreePipeMoved DEF FreePipe, result
  <2>2. StreamInv' /\ PeerInv'
    BY <1>1, <2>1, SameStream
  <2>3. \A x \in Procs : Phase(x)' = Phase(x)
    BY <1>1, <1>19, FreePipeMoved
  <2>4. n' = n /\ ends' = ends
    BY <1>1, <1>19, AloneFacts DEF FreePipe, locals, pipe, Forget, OwnInv, At, Copying
  <2>5. UNCHANGED S!svars
    BY <2>1, <2>3, <2>4, StreamStutters
  <2> QED BY <2>1, <2>2, <2>5 DEF AloneInv
<1>20. ~Walk(q)
  BY <1>1, WalkCore
<1>21. ASSUME Answer(q) PROVE AloneInv' /\ [S!SNext]_(S!svars)
  <2>1. CoreInv' /\ StreamInv' /\ PeerInv'
    BY <1>1, <1>21, AnswerCore, AnswerKeepsStream
  <2>2. PICK rd \in Readers \cap load.procs, w \in Writers \cap load.procs :
           /\ \A x \in {rd, w} : /\ Moved(x) = <<>> /\ Phase(x) = "pending"
                                 /\ Moved(x)' = Bytes(w, Min({n[rd], n[w]})) /\ Phase(x)' = "done"
           /\ \A x \in Procs \ {rd, w} : Moved(x)' = Moved(x) /\ Phase(x)' = Phase(x)
    BY <1>1, <1>21, AnswerMoved
  <2> DEFINE ph == [x \in Procs |-> Phase(x)]
             mv == [x \in Procs |-> Moved(x)]
             b == S!Bytes(w, pos[w], Min({n[rd], n[w]}))
  <2>3. b = Bytes(w, Min({n[rd], n[w]})) /\ rd \in Procs /\ w \in Procs
    BY DEF Bytes, S!Bytes, Procs
  <2>4. UNCHANGED <<n, got, pos, ends>>
    BY <1>21 DEF Answer, locals, result, pipe
  <2>5. \A x \in {rd, w} : Moved(x)' = b /\ Phase(x)' = "done"
    BY <2>2, <2>3
  <2>6. PICK c : c = b
    OBVIOUS
  <2> HIDE DEF b
  <2>7. ph' = [ph EXCEPT ![rd] = "done", ![w] = "done"] /\ mv' = [mv EXCEPT ![rd] = c, ![w] = c]
    BY <2>2, <2>3, <2>5, <2>6
  <2>8. ph[rd] = "pending" /\ ph[w] = "pending"
    BY <2>2, <2>3
  <2>11. c = S!Bytes(w, pos[w], Min({n[rd], n[w]}))
    BY <2>6 DEF b
  <2>9. S!Transfer(rd, w)
    <3>1. mv' = [mv EXCEPT ![rd] = S!Bytes(w, pos[w], Min({n[rd], n[w]})),
                          ![w] = S!Bytes(w, pos[w], Min({n[rd], n[w]}))]
      BY <2>7, <2>11
    <3>2. UNCHANGED ({"c0", "c1"} \ ends)
      BY <2>4
    <3>3. S!Min({n[rd], n[w]}) = Min({n[rd], n[w]})
      BY DEF S!Min, Min
    <3> QED BY <2>4, <2>7, <2>8, <3>1, <3>2, <3>3 DEF S!Transfer
  <2>10. S!SNext
    BY <2>9 DEF S!SNext
  <2> QED BY <2>1, <2>10 DEF AloneInv
<1>22. ASSUME Ready(q) PROVE AloneInv' /\ [S!SNext]_(S!svars)
  <2>1. CoreInv' /\ UNCHANGED ends /\ n' = [n EXCEPT ![q] = 0]
    BY <1>1, <1>22, ReadyCore DEF Ready, pipe, Return, Forget
  <2>2. /\ Moved(q) \in Data /\ r[q] = Len(Moved(q))
        /\ Phase(q) = (IF Moved(q) = <<>> THEN "pending" ELSE "done")
        /\ Moved(q) = <<>> => ends # {"c0", "c1"}
        /\ Phase(q)' = "idle" /\ Moved(q)' = <<>>
        /\ \A x \in Procs : x # q => Moved(x)' = Moved(x) /\ Phase(x)' = Phase(x)
    BY <1>1, <1>22, ReadyMoved
  <2>3. /\ StreamInv' /\ PeerInv'
        /\ q \in Readers => got' = [got EXCEPT ![q] = @ \o Moved(q)] /\ pos' = pos
        /\ q \in Writers => pos' = [pos EXCEPT ![q] = @ + Len(Moved(q))] /\ got' = got
    <3>1. PICK b : b = (IF q \in Readers THEN buf[t[q]] ELSE <<>>)
      OBVIOUS
    <3>2. PICK k : k = r[q]
      OBVIOUS
    <3>3. Return(q, k, b) /\ k = Len(Moved(q)) /\ (q \in Readers => b = Moved(q))
      BY <1>1, <1>22, <2>2, <3>1, <3>2, ReadyMoved DEF Ready
    <3>4. \A x \in Procs : Moved(x)' = IF x = q THEN <<>> ELSE Moved(x)
      BY <2>2
    <3> QED BY <1>1, <2>2, <3>3, <3>4, ReturnKeepsStream
  <2>4. S!SNext
    BY <1>1, <2>1, <2>2, <2>3, StreamReturns
  <2> QED BY <2>1, <2>3, <2>4 DEF AloneInv
<1>23. ASSUME Wake(q) PROVE AloneInv' /\ [S!SNext]_(S!svars)
  <2>1. CoreInv' /\ UNCHANGED ends /\ n' = [n EXCEPT ![q] = 0]
    BY <1>1, <1>23, WakeCore DEF Wake, pipe, Return, Forget
  <2>2. /\ Moved(q) \in Data /\ len[q] = Len(Moved(q))
        /\ Phase(q) = (IF Moved(q) = <<>> THEN "pending" ELSE "done")
        /\ Moved(q) = <<>> => ends # {"c0", "c1"}
        /\ Phase(q)' = "idle" /\ Moved(q)' = <<>>
        /\ \A x \in Procs : x # q => Moved(x)' = Moved(x) /\ Phase(x)' = Phase(x)
    BY <1>1, <1>23, WakeMoved
  <2>3. /\ StreamInv' /\ PeerInv'
        /\ q \in Readers => got' = [got EXCEPT ![q] = @ \o Moved(q)] /\ pos' = pos
        /\ q \in Writers => pos' = [pos EXCEPT ![q] = @ + Len(Moved(q))] /\ got' = got
    <3>1. PICK b : b = (buf[q])
      OBVIOUS
    <3>2. PICK k : k = len[q]
      OBVIOUS
    <3>3. Return(q, k, b) /\ k = Len(Moved(q)) /\ (q \in Readers => b = Moved(q))
      BY <1>1, <1>23, <2>2, <3>1, <3>2, WakeMoved DEF Wake
    <3>4. \A x \in Procs : Moved(x)' = IF x = q THEN <<>> ELSE Moved(x)
      BY <2>2
    <3> QED BY <1>1, <2>2, <3>3, <3>4, ReturnKeepsStream
  <2>4. S!SNext
    BY <1>1, <2>1, <2>2, <2>3, StreamReturns
  <2> QED BY <2>1, <2>3, <2>4 DEF AloneInv
<1>24. ASSUME Undefined(q) PROVE AloneInv' /\ [S!SNext]_(S!svars)
  <2>1. /\ UNCHANGED <<trans, ends, next, len, buf, state, pc, n, head, t, tp, r, got, pos>>
    BY <1>24 DEF Undefined, pipe, nodes, locals, result
  <2>2. \A x \in Procs : Moved(x)' = Moved(x) /\ Phase(x)' = Phase(x)
    BY <2>1 DEF Moved, Phase, Live
  <2>3. UNCHANGED S!svars
    BY <2>1, <2>2, StreamStutters
  <2>4. StreamInv' /\ PeerInv'
    BY <1>1, <2>1, <2>2, SameStream
  <2>5. CoreInv'
    BY <1>1, <2>1 DEF CoreInv, OwnInv, ServeInv, ListInv, Peers, Fresh, Parked, Answered, Told, Live
  <2> QED BY <2>3, <2>4, <2>5 DEF AloneInv
<1> QED
  BY <1>2, <1>3, <1>4, <1>5, <1>6, <1>7, <1>8, <1>9, <1>10, <1>11, <1>12, <1>13, <1>14, <1>15, <1>16, <1>17, <1>18, <1>19, <1>20, <1>21, <1>22, <1>23, <1>24 DEF Call, Copies, Closes

LEMMA InitAlone == Init => AloneInv
<1> SUFFICES ASSUME Init PROVE AloneInv
  OBVIOUS
<1>1. <<>> \in Data /\ Len(<<>>) = 0 /\ DOMAIN <<>> = {}
  BY DEF Data
<1>2. load.procs \subseteq Procs /\ Procs = Readers \cup Writers
  BY LoadTyped DEF Init, Procs
<1>3. \A x \in Procs : Moved(x) = <<>>
  BY DEF Init, Moved, Live
<1>4. CoreInv
  BY <1>2 DEF Init, CoreInv, OwnInv, ServeInv, ListInv, Live, Copying, Closing
<1>5. StreamInv /\ PeerInv
  BY <1>1, <1>2, <1>3 DEF Init, StreamInv, PeerInv
<1> QED BY <1>4, <1>5 DEF AloneInv

LEMMA InitStream == Init => S!SInit
<1> SUFFICES ASSUME Init PROVE S!SInit
  OBVIOUS
<1>1. \A x \in Procs : Moved(x) = <<>> /\ Phase(x) = "idle"
  BY DEF Init, Moved, Phase, Live, Copying
<1> QED BY <1>1 DEF Init, S!SInit, S!Procs, Procs

IInv == TypeInv /\ (OneEach => AloneInv)

LEMMA NextAlone ==
  IInv /\ [Next]_vars => IInv' /\ (OneEach => [S!SNext]_(S!svars))
<1> SUFFICES ASSUME IInv, [Next]_vars PROVE IInv' /\ (OneEach => [S!SNext]_(S!svars))
  OBVIOUS
<1>1. TypeInv /\ TypeInv'
  BY StaysTyped DEF IInv
<1>2. load' = load
  BY DEF Next, vars
<1>3. OneEach' = OneEach
  BY <1>2 DEF OneEach, SameDirection
<1>4. CASE Next
  <2>1. PICK q \in load.procs : Call(q) \/ Copies(q) \/ Closes(q) \/ Undefined(q)
    BY <1>4 DEF Next
  <2>2. OneEach => AloneInv' /\ [S!SNext]_(S!svars)
    BY <1>1, <1>2, <2>1, StepAlone DEF IInv
  <2> QED BY <1>1, <1>3, <2>2 DEF IInv
<1>5. CASE UNCHANGED vars
  <2>1. /\ UNCHANGED <<load, trans, ends, next, len, buf, state, pc, n, head, t, tp, r, got, pos>>
    BY <1>5 DEF vars, pipe, nodes, locals, result
  <2>2. \A x \in Procs : Moved(x)' = Moved(x) /\ Phase(x)' = Phase(x)
    BY <2>1 DEF Moved, Phase, Live
  <2>3. UNCHANGED S!svars
    BY <2>1, <2>2, StreamStutters
  <2>4. OneEach => StreamInv' /\ PeerInv'
    BY <1>1, <2>1, <2>2, SameStream DEF IInv, AloneInv
  <2>5. OneEach => CoreInv'
    BY <2>1 DEF IInv, AloneInv, CoreInv, OwnInv, ServeInv, ListInv, Peers, Fresh, Parked, Answered, Told, Live
  <2> QED BY <1>1, <1>3, <2>3, <2>4, <2>5 DEF IInv, AloneInv
<1> QED BY <1>4, <1>5

LEMMA AloneLosesNothing == IInv => NoByteLost
<1> SUFFICES ASSUME IInv, OneEach PROVE NothingLost /\ ListIsCurrent
  BY DEF NoByteLost
<1>0. /\ load.procs \subseteq Procs /\ Procs = Readers \cup Writers /\ None \notin Procs
      /\ CoreInv /\ StreamInv /\ PeerInv /\ TypeInv
  BY LoadTyped, PipeAssumption DEF IInv, AloneInv, TypeInv, TypeOK, Procs
<1>1. ListIsCurrent
  BY <1>0 DEF CoreInv, ListInv, OwnInv, Fresh, Parked, ListIsCurrent
<1>2. ASSUME NEW w \in Writers, NEW i \in 1..pos[w]
      PROVE \E q \in Readers : \E j \in DOMAIN (got[q] \o Moved(q)) : (got[q] \o Moved(q))[j] = <<w, i>>
  <2>1. \A x \in Procs : Moved(x) \in Data
    <3> SUFFICES ASSUME NEW x \in Procs PROVE Moved(x) \in Data
      OBVIOUS
    <3>1. <<>> \in Data
      BY DEF Data
    <3> QED BY <1>0, <3>1 DEF Moved, TypeInv, TypeOK, ServingInv
  <2>2. pos[w] \in Nat /\ w \in Procs /\ Len(Moved(w)) \in Nat
    BY <1>0, <2>1 DEF TypeInv, TypeOK, Data
  <2>3. w \in load.procs /\ Readers \cap load.procs # {}
    BY <1>0, <2>2 DEF PeerInv
  <2>4. PICK rd \in Readers \cap load.procs : TRUE
    BY <2>3
  <2> DEFINE g == got[rd]
             v == Moved(rd)
  <2>5. /\ g \in Data /\ v \in Data /\ Len(g) + Len(v) = pos[w] + Len(Moved(w))
        /\ \A j \in DOMAIN g : g[j] = <<w, j>>
        /\ \A j \in DOMAIN v : v[j] = <<w, Len(g) + j>>
    BY <1>0, <2>1, <2>3 DEF StreamInv, TypeInv, TypeOK
  <2> HIDE DEF g, v
  <2>6. /\ DOMAIN (g \o v) = 1..(Len(g) + Len(v)) /\ Len(g) \in Nat /\ Len(v) \in Nat
    BY <2>5 DEF Data
  <2>7. i \in 1..(Len(g) + Len(v))
    BY <2>2, <2>5, <2>6
  <2>8. (g \o v)[i] = <<w, i>>
    <3>1. CASE i <= Len(g)
      BY <2>5, <2>7, <3>1 DEF Data
    <3>2. CASE i > Len(g)
      <4>1. i - Len(g) \in 1..Len(v) /\ Len(g) + (i - Len(g)) = i
        BY <2>6, <2>7, <3>2
      <4>2. (g \o v)[i] = v[i - Len(g)]
        BY <2>5, <2>7, <3>2 DEF Data
      <4>3. v[i - Len(g)] = <<w, Len(g) + (i - Len(g))>>
        BY <2>5, <4>1 DEF Data
      <4> QED BY <4>1, <4>2, <4>3
    <3> QED BY <2>6, <2>7, <3>1, <3>2
  <2>9. \E j \in DOMAIN (g \o v) : (g \o v)[j] = <<w, i>>
    BY <2>6, <2>7, <2>8
  <2> QED BY <2>4, <2>9 DEF g, v
<1>3. NothingLost
  BY <1>2 DEF NothingLost
<1> QED BY <1>1, <1>3

LEMMA InitIInv == Init => IInv
BY InitTyped, InitAlone DEF IInv

(* However one reader and one writer interleave in pipedocopy() and        *)
(* pipeclose(), a byte that a write returned as written is returned by a   *)
(* read, and the list of the pipe leads only to calls that still wait.     *)
THEOREM BytesKept == Spec => []NoByteLost
<1>1. IInv /\ [Next]_vars => IInv'
  BY NextAlone
<1> QED BY InitIInv, <1>1, AloneLosesNothing, PTL DEF Spec

(* With one process on each side every step of pipe.c is a step of Stream  *)
(* or leaves it alone.                                                     *)
THEOREM PipeIsStream == Spec => StreamKept
<1>1. IInv /\ [Next]_vars => IInv'
  BY NextAlone
<1>2. Init => (OneEach => S!SInit)
  BY InitStream
<1>3. IInv /\ [Next]_vars => [OneEach => [S!SNext]_(S!svars)]_vars
  BY NextAlone
<1> QED BY InitIInv, <1>1, <1>2, <1>3, PTL DEF Spec, StreamKept
=============================================================================
