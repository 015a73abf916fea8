---------------------------- MODULE MountProofs ----------------------------
(***************************************************************************)
(* The binding of a mounted server, for any number of clients.             *)
(*   DataInOrder: while a write's data is awaited, no other request is     *)
(*     being written, so the data reaches the server behind its own head.  *)
(*     The lock is what makes it so: HoldInv says who holds it at each     *)
(*     place, mountproc() included, MoreInv that the writer the server     *)
(*     waits for is still there.                                           *)
(*   MountTyped: types and bounds, by counting the requests that have been *)
(*     given a number (Made) and the references given up (RefsInv).        *)
(*   RequestsFound: as long as mountproc() wakes nobody who sleeps for     *)
(*     something else, it finds every request that has no answer; FoundInv *)
(*     says what the list holds.                                           *)
(***************************************************************************)
EXTENDS Mount, FiniteSetTheorems, TLAPS

Labels == {"idle", "test", "number", "load", "push", "lock", "write", "head", "data", "failed",
           "unlock", "check", "sleep", "asleep", "fail", "dead", "dec", "in?", "close in",
           "nil in", "out?", "close out", "nil out", "last", "end", "list", "loop", "read",
           "reading", "find", "walk", "remove", "copy", "serve", "ready", "tear", "wake"}

TransType == [kind : {"read", "write", "other"}, rid : Nat, next : Clients \cup {None},
              served : BOOLEAN, resp : Nat]

BindingType == [waiting : Clients \cup {None}, nreqid : Nat, refs : Int, ends : SUBSET {"in", "out"}]

(* The types that the argument needs; the bounds of the counters are those *)
(* of a small instance and are left out.                                   *)
TypeInv == /\ b \in BindingType
           /\ holder \in Procs \cup {None}
           /\ trans \in [Clients -> TransType]
           /\ pc \in [Procs -> Labels]
           /\ n \in [Procs -> Clients \cup {None}]
           /\ t \in Clients \cup {None} /\ p \in Clients \cup {None}
           /\ tresp \in [rid : Nat, ok : BOOLEAN, wrote : BOOLEAN]
           /\ srv \in [at : {"idle", "more", "work", "data"}, rid : Nat, kind : {"read", "write", "other"}]

(* mountproc() has a transaction where it uses one. *)
PtrInv == pc[mnt] \in {"remove", "copy", "data", "serve", "ready", "fail", "wake"} => t # None

(* Who writes a request holds the lock, and so does mountproc() while it   *)
(* fails the waiters.                                                      *)
HoldInv == /\ \A c \in Clients : pc[c] \in {"write", "head", "data", "unlock", "failed"} => holder = c
           /\ pc[mnt] \in {"list", "fail", "wake", "unlock"} => holder = mnt

(* A server that waits for data waits for a client that is writing it.     *)
MoreInv == /\ srv.at = "more" => \E c \in Clients : pc[c] = "data" /\ trans[c].rid = srv.rid
           /\ gone => srv.at = "idle"

IInv == TypeInv /\ PtrInv /\ HoldInv /\ MoreInv

USE MountAssumption DEF Procs

(* ELINK, the largest response number and one more, is a number. *)
LEMMA ElinkType == ELINK \in Nat /\ MaxRid \in Nat
  <1>1. Cardinality(Clients) \in Nat
    BY FS_CardinalityType
  <1> QED
    BY <1>1 DEF ELINK, MaxRid

(* A change of one field of a transaction keeps the types, and its number. *)
LEMMA TransUpdate ==
  ASSUME trans \in [Clients -> TransType], NEW c \in Clients
  PROVE  /\ \A v \in Nat : [trans EXCEPT ![c].rid = v] \in [Clients -> TransType]
         /\ \A v \in Clients \cup {None} : [trans EXCEPT ![c].next = v] \in [Clients -> TransType]
         /\ \A v \in BOOLEAN : [trans EXCEPT ![c].served = v] \in [Clients -> TransType]
         /\ \A v \in Nat : [trans EXCEPT ![c].resp = v] \in [Clients -> TransType]
  <1>1. trans[c] \in TransType
    OBVIOUS
  <1>2. \A v \in Nat : [trans[c] EXCEPT !.rid = v] \in TransType
    BY <1>1 DEF TransType
  <1>3. \A v \in Clients \cup {None} : [trans[c] EXCEPT !.next = v] \in TransType
    BY <1>1 DEF TransType
  <1>4. \A v \in BOOLEAN : [trans[c] EXCEPT !.served = v] \in TransType
    BY <1>1 DEF TransType
  <1>5. \A v \in Nat : [trans[c] EXCEPT !.resp = v] \in TransType
    BY <1>1 DEF TransType
  <1> QED
    BY <1>2, <1>3, <1>4, <1>5

(* Only a store to rid changes the number of a transaction. *)
LEMMA RidKept ==
  ASSUME trans \in [Clients -> TransType], NEW c \in Clients, NEW v,
         \/ trans' = [trans EXCEPT ![c].next = v]
         \/ trans' = [trans EXCEPT ![c].served = v]
         \/ trans' = [trans EXCEPT ![c].resp = v]
  PROVE  \A d \in Clients : trans'[d].rid = trans[d].rid
  <1> SUFFICES ASSUME NEW d \in Clients PROVE trans'[d].rid = trans[d].rid
    OBVIOUS
  <1>1. trans[c] \in TransType
    OBVIOUS
  <1>2. /\ [trans[c] EXCEPT !.next = v].rid = trans[c].rid
        /\ [trans[c] EXCEPT !.served = v].rid = trans[c].rid
        /\ [trans[c] EXCEPT !.resp = v].rid = trans[c].rid
    BY <1>1 DEF TransType
  <1>3. CASE d # c
    BY <1>3
  <1>4. CASE d = c
    BY <1>2, <1>4
  <1> QED
    BY <1>3, <1>4

(* A change of one field of the binding keeps the types. *)
LEMMA BindingUpdate ==
  ASSUME b \in BindingType
  PROVE  /\ b.waiting \in Clients \cup {None} /\ b.nreqid \in Nat /\ b.nreqid + 1 \in Nat
         /\ \A v \in Clients \cup {None} : [b EXCEPT !.waiting = v] \in BindingType
         /\ [b EXCEPT !.nreqid = @ + 1] \in BindingType
         /\ [b EXCEPT !.refs = @ - 1] \in BindingType
         /\ \A e : [b EXCEPT !.ends = @ \ {e}] \in BindingType
  <1>1. b.waiting \in Clients \cup {None} /\ b.nreqid \in Nat /\ b.refs \in Int
    BY DEF BindingType
  <1>1a. b.nreqid + 1 \in Nat
    BY <1>1
  <1>2. \A e : b.ends \ {e} \in SUBSET {"in", "out"}
    BY DEF BindingType
  <1>3. \A v \in Clients \cup {None} : [b EXCEPT !.waiting = v] \in BindingType
    BY DEF BindingType
  <1>4. \A v \in Nat : [b EXCEPT !.nreqid = v] \in BindingType
    BY DEF BindingType
  <1>5. \A v \in Int : [b EXCEPT !.refs = v] \in BindingType
    BY DEF BindingType
  <1>6. \A v \in SUBSET {"in", "out"} : [b EXCEPT !.ends = v] \in BindingType
    BY DEF BindingType
  <1>7. [b EXCEPT !.nreqid = @ + 1] \in BindingType
    BY <1>1, <1>4
  <1>8. [b EXCEPT !.refs = @ - 1] \in BindingType
    BY <1>1, <1>5
  <1>9. \A e : [b EXCEPT !.ends = @ \ {e}] \in BindingType
    BY <1>2, <1>6
  <1> QED
    BY <1>1a, <1>1, <1>3, <1>7, <1>8, <1>9

(* Nobody holds the lock, and nobody is being served, at the start. *)
LEMMA InitIInv == Init => IInv
  <1> SUFFICES ASSUME Init PROVE IInv
    OBVIOUS
  <1>1. trans \in [Clients -> TransType]
    BY DEF Init, TransType, NoTrans
  <1>2. tresp \in [rid : Nat, ok : BOOLEAN, wrote : BOOLEAN]
    <2>1. Stale \subseteq Nat
      BY ElinkType, StaleAssumption
    <2> QED
      BY <2>1 DEF Init
  <1>3. pc \in [Procs -> Labels]
    BY DEF Init, Labels
  <1>4. TypeInv
    BY <1>1, <1>2, <1>3 DEF Init, TypeInv, Idle, BindingType
  <1> QED
    BY <1>4 DEF Init, IInv, PtrInv, HoldInv, MoreInv, Idle

(* Every step keeps the types. *)
LEMMA TypeStep ==
  ASSUME TypeInv, PtrInv, Next
  PROVE  TypeInv'
  <1> USE DEF TypeInv, Labels, At, Goto, Rest, MntUnchanged, Idle
  <1>1. ASSUME NEW c \in Clients, NEW k \in Kinds, Call(c, k) PROVE TypeInv'
    <2>1. [NoTrans EXCEPT !.kind = k] \in TransType
      BY DEF NoTrans, TransType
    <2> QED
      BY <1>1, <2>1 DEF Call
  <1>2. ASSUME NEW c \in Clients, TestOut(c) PROVE TypeInv'
    BY <1>2 DEF TestOut
  <1>3. ASSUME NEW c \in Clients, Number(c) PROVE TypeInv'
    <2>1. b.nreqid + 1 \in Nat
      BY BindingUpdate
    <2>2. trans' \in [Clients -> TransType]
      BY <1>3, <2>1, TransUpdate DEF Number
    <2> QED
      BY <1>3, <2>2, BindingUpdate DEF Number
  <1>4. ASSUME NEW c \in Clients, LoadWaiting(c) PROVE TypeInv'
    <2>2. trans' \in [Clients -> TransType]
      BY <1>4, TransUpdate, BindingUpdate DEF LoadWaiting
    <2> QED
      BY <1>4, <2>2, BindingUpdate DEF LoadWaiting
  <1>5. ASSUME NEW c \in Clients, Push(c) PROVE TypeInv'
    BY <1>5, BindingUpdate DEF Push
  <1>6. ASSUME NEW c \in Clients, PushFails(c) PROVE TypeInv'
    BY <1>6 DEF PushFails
  <1>7. ASSUME NEW c \in Clients, Lock(c) PROVE TypeInv'
    BY <1>7 DEF Lock
  <1>8. ASSUME NEW c \in Clients, Write(c) PROVE TypeInv'
    BY <1>8 DEF Write
  <1>9. ASSUME NEW c \in Clients, WriteFails(c) PROVE TypeInv'
    BY <1>9 DEF WriteFails
  <1>10. ASSUME NEW c \in Clients, DataFails(c) PROVE TypeInv'
    BY <1>10 DEF DataFails
  <1>11. ASSUME NEW c \in Clients, Unlock(c) PROVE TypeInv'
    BY <1>11 DEF Unlock
  <1>12. ASSUME NEW c \in Clients, Check(c) PROVE TypeInv'
    BY <1>12 DEF Check
  <1>13. ASSUME NEW c \in Clients, Sleep(c) PROVE TypeInv'
    BY <1>13 DEF Sleep
  <1>14. ASSUME NEW c \in Clients, Return(c) PROVE TypeInv'
    <2>1. NoTrans \in TransType
      BY DEF NoTrans, TransType
    <2> QED
      BY <1>14, <2>1 DEF Return
  <1>15. ASSUME NEW c \in Clients, Drop(c) PROVE TypeInv'
    BY <1>15 DEF Drop
  <1>16. ASSUME NEW c \in Clients, ReadRequest(c) PROVE TypeInv'
    <2>1. trans[c].rid \in Nat /\ trans[c].kind \in {"read", "write", "other"}
      BY DEF TransType
    <2> QED
      BY <1>16, <2>1 DEF ReadRequest
  <1>17. ASSUME NEW c \in Clients, ReadData(c) PROVE TypeInv'
    BY <1>17 DEF ReadData
  <1>18. ASSUME NEW ok \in BOOLEAN, Respond(ok) PROVE TypeInv'
    BY <1>18 DEF Respond
  <1>19. CASE RespondData
    BY <1>19 DEF RespondData
  <1>20. CASE Quit
    BY <1>20 DEF Quit
  <1>21. CASE Loop
    BY <1>21 DEF Loop
  <1>22. CASE Read
    BY <1>22 DEF Read
  <1>23. CASE ReadFails
    BY <1>23 DEF ReadFails
  <1>24. CASE Find
    BY <1>24, BindingUpdate DEF Find
  <1>25. CASE Walk
    <2>1. t \in Clients
      BY <1>25 DEF Walk
    <2>2. trans[t].next \in Clients \cup {None}
      BY <2>1 DEF TransType
    <2> QED
      BY <1>25, <2>1, <2>2 DEF Walk
  <1>26. CASE NoWaiter
    BY <1>26 DEF NoWaiter
  <1>27. CASE Found
    <2>1. t \in Clients
      BY <1>27 DEF Found
    <2>2. trans[t].next \in Clients \cup {None}
      BY <2>1 DEF TransType
    <2> QED
      BY <1>27, <2>1, <2>2 DEF Found
  <1>28. CASE Remove
    <2>1. t \in Clients /\ n[mnt] \in Clients \cup {None}
      BY <1>28 DEF Remove, PtrInv
    <2>2. b' \in BindingType /\ trans' \in [Clients -> TransType]
      <3>1. CASE b' = [b EXCEPT !.waiting = n[mnt]] /\ UNCHANGED trans
        BY <2>1, <3>1, BindingUpdate
      <3>2. CASE p # None /\ trans' = [trans EXCEPT ![p].next = n[mnt]] /\ UNCHANGED b
        <4>1. p \in Clients
          BY <3>2
        <4> QED
          BY <2>1, <3>2, <4>1, TransUpdate
      <3> QED
        BY <1>28, <3>1, <3>2 DEF Remove
    <2> QED
      BY <1>28, <2>1, <2>2 DEF Remove
  <1>29. CASE RemoveFails
    BY <1>29 DEF RemoveFails
  <1>30. CASE Copy
    <2>1. t \in Clients
      BY <1>30 DEF Copy, PtrInv
    <2>2. trans' \in [Clients -> TransType]
      BY <1>30, <2>1, TransUpdate DEF Copy
    <2> QED
      BY <1>30, <2>1, <2>2 DEF Copy
  <1>31. CASE DataMissing
    BY <1>31 DEF DataMissing
  <1>32. CASE Served
    <2>1. t \in Clients
      BY <1>32 DEF Served, PtrInv
    <2>2. trans' \in [Clients -> TransType]
      BY <1>32, <2>1, TransUpdate DEF Served
    <2> QED
      BY <1>32, <2>1, <2>2 DEF Served
  <1>33. CASE Ready
    BY <1>33 DEF Ready
  <1>34. CASE TearDown
    BY <1>34 DEF TearDown
  <1>35. CASE LoadList
    BY <1>35, BindingUpdate DEF LoadList
  <1>36. CASE FailWaiter
    <2>1. t \in Clients
      BY <1>36 DEF FailWaiter, PtrInv
    <2>2. trans' \in [Clients -> TransType] /\ trans[t].next \in Clients \cup {None}
      BY <1>36, <2>1, TransUpdate, ElinkType DEF FailWaiter, TransType
    <2> QED
      BY <1>36, <2>1, <2>2 DEF FailWaiter
  <1>37. CASE WakeWaiter
    BY <1>37 DEF WakeWaiter
  <1>38. CASE MntUnlock
    BY <1>38 DEF MntUnlock
  <1>39. ASSUME NEW q \in Procs, DecRefs(q) PROVE TypeInv'
    BY <1>39, BindingUpdate DEF DecRefs
  <1>40. ASSUME NEW q \in Procs, FreeEnds(q) PROVE TypeInv'
    <2>1. CASE TestEnd(q, "in", "in?", "close in", "out?")
      BY <1>40, <2>1 DEF TestEnd
    <2>2. CASE CloseEnd(q, "in", "close in", "nil in")
      BY <1>40, <2>2 DEF CloseEnd
    <2>3. CASE ClearEnd(q, "in", "nil in", "out?")
      BY <1>40, <2>3, BindingUpdate DEF ClearEnd
    <2>4. CASE TestEnd(q, "out", "out?", "close out", AfterEnds(q))
      BY <1>40, <2>4 DEF TestEnd, AfterEnds
    <2>5. CASE CloseEnd(q, "out", "close out", "nil out")
      BY <1>40, <2>5 DEF CloseEnd
    <2>6. CASE ClearEnd(q, "out", "nil out", AfterEnds(q))
      BY <1>40, <2>6, BindingUpdate DEF ClearEnd, AfterEnds
    <2> QED
      BY <1>40, <2>1, <2>2, <2>3, <2>4, <2>5, <2>6 DEF FreeEnds
  <1>41. ASSUME NEW q \in Procs, FreeBinding(q) PROVE TypeInv'
    BY <1>41 DEF FreeBinding
  <1>42. ASSUME NEW q \in Procs, Undefined(q) PROVE TypeInv'
    BY <1>42 DEF Undefined
  <1>43. CASE WakesAstray
    BY <1>43 DEF WakesAstray
  <1> QED
    BY <1>1, <1>2, <1>3, <1>4, <1>5, <1>6, <1>7, <1>8, <1>9, <1>10, <1>11, <1>12, <1>13, <1>14, <1>15, <1>16, <1>17, <1>18, <1>19, <1>20, <1>21, <1>22, <1>23, <1>24, <1>25, <1>26, <1>27, <1>28, <1>29, <1>30, <1>31, <1>32, <1>33, <1>34, <1>35, <1>36, <1>37, <1>38, <1>39, <1>40, <1>41, <1>42, <1>43
       DEF Next, Asks, Server, Mounts, Frees

(* Every step keeps a transaction where one is used. *)
LEMMA PtrStep ==
  ASSUME TypeInv, PtrInv, Next
  PROVE  PtrInv'
  <1> USE DEF TypeInv, Labels, PtrInv, At, Goto, Rest, MntUnchanged
  <1>1. ASSUME NEW c \in Clients, NEW k \in Kinds, Call(c, k) PROVE PtrInv'
    BY <1>1 DEF Call
  <1>2. ASSUME NEW c \in Clients, TestOut(c) PROVE PtrInv'
    BY <1>2 DEF TestOut
  <1>3. ASSUME NEW c \in Clients, Number(c) PROVE PtrInv'
    BY <1>3 DEF Number
  <1>4. ASSUME NEW c \in Clients, LoadWaiting(c) PROVE PtrInv'
    BY <1>4 DEF LoadWaiting
  <1>5. ASSUME NEW c \in Clients, Push(c) PROVE PtrInv'
    BY <1>5 DEF Push
  <1>6. ASSUME NEW c \in Clients, PushFails(c) PROVE PtrInv'
    BY <1>6 DEF PushFails
  <1>7. ASSUME NEW c \in Clients, Lock(c) PROVE PtrInv'
    BY <1>7 DEF Lock
  <1>8. ASSUME NEW c \in Clients, Write(c) PROVE PtrInv'
    BY <1>8 DEF Write
  <1>9. ASSUME NEW c \in Clients, WriteFails(c) PROVE PtrInv'
    BY <1>9 DEF WriteFails
  <1>10. ASSUME NEW c \in Clients, DataFails(c) PROVE PtrInv'
    BY <1>10 DEF DataFails
  <1>11. ASSUME NEW c \in Clients, Unlock(c) PROVE PtrInv'
    BY <1>11 DEF Unlock
  <1>12. ASSUME NEW c \in Clients, Check(c) PROVE PtrInv'
    BY <1>12 DEF Check
  <1>13. ASSUME NEW c \in Clients, Sleep(c) PROVE PtrInv'
    BY <1>13 DEF Sleep
  <1>14. ASSUME NEW c \in Clients, Return(c) PROVE PtrInv'
    BY <1>14 DEF Return
  <1>15. ASSUME NEW c \in Clients, Drop(c) PROVE PtrInv'
    BY <1>15 DEF Drop
  <1>16. ASSUME NEW c \in Clients, ReadRequest(c) PROVE PtrInv'
    BY <1>16 DEF ReadRequest
  <1>17. ASSUME NEW c \in Clients, ReadData(c) PROVE PtrInv'
    BY <1>17 DEF ReadData
  <1>18. ASSUME NEW ok \in BOOLEAN, Respond(ok) PROVE PtrInv'
    BY <1>18 DEF Respond
  <1>19. CASE RespondData
    BY <1>19 DEF RespondData
  <1>20. CASE Quit
    BY <1>20 DEF Quit
  <1>21. CASE Loop
    BY <1>21 DEF Loop
  <1>22. CASE Read
    BY <1>22 DEF Read
  <1>23. CASE ReadFails
    BY <1>23 DEF ReadFails
  <1>24. CASE Find
    BY <1>24 DEF Find
  <1>25. CASE Walk
    BY <1>25 DEF Walk
  <1>26. CASE NoWaiter
    BY <1>26 DEF NoWaiter
  <1>27. CASE Found
    BY <1>27 DEF Found
  <1>28. CASE Remove
    BY <1>28 DEF Remove
  <1>29. CASE RemoveFails
    BY <1>29 DEF RemoveFails
  <1>30. CASE Copy
    BY <1>30 DEF Copy
  <1>31. CASE DataMissing
    BY <1>31 DEF DataMissing
  <1>32. CASE Served
    BY <1>32 DEF Served
  <1>33. CASE Ready
    BY <1>33 DEF Ready
  <1>34. CASE TearDown
    BY <1>34 DEF TearDown
  <1>35. CASE LoadList
    BY <1>35 DEF LoadList
  <1>36. CASE FailWaiter
    BY <1>36 DEF FailWaiter
  <1>37. CASE WakeWaiter
    BY <1>37 DEF WakeWaiter
  <1>38. CASE MntUnlock
    BY <1>38 DEF MntUnlock
  <1>39. ASSUME NEW q \in Procs, DecRefs(q) PROVE PtrInv'
    BY <1>39 DEF DecRefs
  <1>40. ASSUME NEW q \in Procs, FreeEnds(q) PROVE PtrInv'
    <2>1. CASE TestEnd(q, "in", "in?", "close in", "out?")
      BY <1>40, <2>1 DEF TestEnd
    <2>2. CASE CloseEnd(q, "in", "close in", "nil in")
      BY <1>40, <2>2 DEF CloseEnd
    <2>3. CASE ClearEnd(q, "in", "nil in", "out?")
      BY <1>40, <2>3 DEF ClearEnd
    <2>4. CASE TestEnd(q, "out", "out?", "close out", AfterEnds(q))
      BY <1>40, <2>4 DEF TestEnd, AfterEnds
    <2>5. CASE CloseEnd(q, "out", "close out", "nil out")
      BY <1>40, <2>5 DEF CloseEnd
    <2>6. CASE ClearEnd(q, "out", "nil out", AfterEnds(q))
      BY <1>40, <2>6 DEF ClearEnd, AfterEnds
    <2> QED
      BY <1>40, <2>1, <2>2, <2>3, <2>4, <2>5, <2>6 DEF FreeEnds
  <1>41. ASSUME NEW q \in Procs, FreeBinding(q) PROVE PtrInv'
    BY <1>41 DEF FreeBinding
  <1>42. ASSUME NEW q \in Procs, Undefined(q) PROVE PtrInv'
    BY <1>42 DEF Undefined
  <1>43. CASE WakesAstray
    BY <1>43 DEF WakesAstray
  <1> QED
    BY <1>1, <1>2, <1>3, <1>4, <1>5, <1>6, <1>7, <1>8, <1>9, <1>10, <1>11, <1>12, <1>13, <1>14, <1>15, <1>16, <1>17, <1>18, <1>19, <1>20, <1>21, <1>22, <1>23, <1>24, <1>25, <1>26, <1>27, <1>28, <1>29, <1>30, <1>31, <1>32, <1>33, <1>34, <1>35, <1>36, <1>37, <1>38, <1>39, <1>40, <1>41, <1>42, <1>43
       DEF Next, Asks, Server, Mounts, Frees

(* Every step keeps the lock with the one that is writing. *)
LEMMA HoldStep ==
  ASSUME TypeInv, HoldInv, Next
  PROVE  HoldInv'
  <1> USE DEF TypeInv, Labels, HoldInv, At, Goto, Rest, MntUnchanged
  <1>1. ASSUME NEW c \in Clients, NEW k \in Kinds, Call(c, k) PROVE HoldInv'
    BY <1>1 DEF Call
  <1>2. ASSUME NEW c \in Clients, TestOut(c) PROVE HoldInv'
    BY <1>2 DEF TestOut
  <1>3. ASSUME NEW c \in Clients, Number(c) PROVE HoldInv'
    BY <1>3 DEF Number
  <1>4. ASSUME NEW c \in Clients, LoadWaiting(c) PROVE HoldInv'
    BY <1>4 DEF LoadWaiting
  <1>5. ASSUME NEW c \in Clients, Push(c) PROVE HoldInv'
    BY <1>5 DEF Push
  <1>6. ASSUME NEW c \in Clients, PushFails(c) PROVE HoldInv'
    BY <1>6 DEF PushFails
  <1>7. ASSUME NEW c \in Clients, Lock(c) PROVE HoldInv'
    BY <1>7 DEF Lock
  <1>8. ASSUME NEW c \in Clients, Write(c) PROVE HoldInv'
    BY <1>8 DEF Write
  <1>9. ASSUME NEW c \in Clients, WriteFails(c) PROVE HoldInv'
    BY <1>9 DEF WriteFails
  <1>10. ASSUME NEW c \in Clients, DataFails(c) PROVE HoldInv'
    BY <1>10 DEF DataFails
  <1>11. ASSUME NEW c \in Clients, Unlock(c) PROVE HoldInv'
    BY <1>11 DEF Unlock
  <1>12. ASSUME NEW c \in Clients, Check(c) PROVE HoldInv'
    BY <1>12 DEF Check
  <1>13. ASSUME NEW c \in Clients, Sleep(c) PROVE HoldInv'
    BY <1>13 DEF Sleep
  <1>14. ASSUME NEW c \in Clients, Return(c) PROVE HoldInv'
    BY <1>14 DEF Return
  <1>15. ASSUME NEW c \in Clients, Drop(c) PROVE HoldInv'
    BY <1>15 DEF Drop
  <1>16. ASSUME NEW c \in Clients, ReadRequest(c) PROVE HoldInv'
    BY <1>16 DEF ReadRequest
  <1>17. ASSUME NEW c \in Clients, ReadData(c) PROVE HoldInv'
    BY <1>17 DEF ReadData
  <1>18. ASSUME NEW ok \in BOOLEAN, Respond(ok) PROVE HoldInv'
    BY <1>18 DEF Respond
  <1>19. CASE RespondData
    BY <1>19 DEF RespondData
  <1>20. CASE Quit
    BY <1>20 DEF Quit
  <1>21. CASE Loop
    BY <1>21 DEF Loop
  <1>22. CASE Read
    BY <1>22 DEF Read
  <1>23. CASE ReadFails
    BY <1>23 DEF ReadFails
  <1>24. CASE Find
    BY <1>24 DEF Find
  <1>25. CASE Walk
    BY <1>25 DEF Walk
  <1>26. CASE NoWaiter
    BY <1>26 DEF NoWaiter
  <1>27. CASE Found
    BY <1>27 DEF Found
  <1>28. CASE Remove
    BY <1>28 DEF Remove
  <1>29. CASE RemoveFails
    BY <1>29 DEF RemoveFails
  <1>30. CASE Copy
    BY <1>30 DEF Copy
  <1>31. CASE DataMissing
    BY <1>31 DEF DataMissing
  <1>32. CASE Served
    BY <1>32 DEF Served
  <1>33. CASE Ready
    BY <1>33 DEF Ready
  <1>34. CASE TearDown
    BY <1>34 DEF TearDown
  <1>35. CASE LoadList
    BY <1>35 DEF LoadList
  <1>36. CASE FailWaiter
    BY <1>36 DEF FailWaiter
  <1>37. CASE WakeWaiter
    BY <1>37 DEF WakeWaiter
  <1>38. CASE MntUnlock
    BY <1>38 DEF MntUnlock
  <1>39. ASSUME NEW q \in Procs, DecRefs(q) PROVE HoldInv'
    BY <1>39 DEF DecRefs
  <1>40. ASSUME NEW q \in Procs, FreeEnds(q) PROVE HoldInv'
    <2>1. CASE TestEnd(q, "in", "in?", "close in", "out?")
      BY <1>40, <2>1 DEF TestEnd
    <2>2. CASE CloseEnd(q, "in", "close in", "nil in")
      BY <1>40, <2>2 DEF CloseEnd
    <2>3. CASE ClearEnd(q, "in", "nil in", "out?")
      BY <1>40, <2>3 DEF ClearEnd
    <2>4. CASE TestEnd(q, "out", "out?", "close out", AfterEnds(q))
      BY <1>40, <2>4 DEF TestEnd, AfterEnds
    <2>5. CASE CloseEnd(q, "out", "close out", "nil out")
      BY <1>40, <2>5 DEF CloseEnd
    <2>6. CASE ClearEnd(q, "out", "nil out", AfterEnds(q))
      BY <1>40, <2>6 DEF ClearEnd, AfterEnds
    <2> QED
      BY <1>40, <2>1, <2>2, <2>3, <2>4, <2>5, <2>6 DEF FreeEnds
  <1>41. ASSUME NEW q \in Procs, FreeBinding(q) PROVE HoldInv'
    BY <1>41 DEF FreeBinding
  <1>42. ASSUME NEW q \in Procs, Undefined(q) PROVE HoldInv'
    BY <1>42 DEF Undefined
  <1>43. CASE WakesAstray
    BY <1>43 DEF WakesAstray
  <1> QED
    BY <1>1, <1>2, <1>3, <1>4, <1>5, <1>6, <1>7, <1>8, <1>9, <1>10, <1>11, <1>12, <1>13, <1>14, <1>15, <1>16, <1>17, <1>18, <1>19, <1>20, <1>21, <1>22, <1>23, <1>24, <1>25, <1>26, <1>27, <1>28, <1>29, <1>30, <1>31, <1>32, <1>33, <1>34, <1>35, <1>36, <1>37, <1>38, <1>39, <1>40, <1>41, <1>42, <1>43
       DEF Next, Asks, Server, Mounts, Frees

(* Every step keeps the writer that the server waits for. *)
LEMMA MoreStep ==
  ASSUME TypeInv, PtrInv, HoldInv, MoreInv, Next
  PROVE  MoreInv'
  <1> USE DEF TypeInv, Labels, MoreInv, At, Goto, Rest, MntUnchanged, Idle
  <1>1. ASSUME NEW c \in Clients, NEW k \in Kinds, Call(c, k) PROVE MoreInv'
    BY <1>1 DEF Call
  <1>2. ASSUME NEW c \in Clients, TestOut(c) PROVE MoreInv'
    BY <1>2 DEF TestOut
  <1>3. ASSUME NEW c \in Clients, Number(c) PROVE MoreInv'
    BY <1>3 DEF Number
  <1>4. ASSUME NEW c \in Clients, LoadWaiting(c) PROVE MoreInv'
    <2>0. trans' = [trans EXCEPT ![c].next = b.waiting]
      BY <1>4 DEF LoadWaiting
    <2>1. \A d \in Clients : trans'[d].rid = trans[d].rid
      <3> HIDE DEF TypeInv, MoreInv
      <3> QED
        BY <2>0, RidKept DEF TypeInv
    <2> QED
      BY <1>4, <2>1 DEF LoadWaiting
  <1>5. ASSUME NEW c \in Clients, Push(c) PROVE MoreInv'
    BY <1>5 DEF Push
  <1>6. ASSUME NEW c \in Clients, PushFails(c) PROVE MoreInv'
    BY <1>6 DEF PushFails
  <1>7. ASSUME NEW c \in Clients, Lock(c) PROVE MoreInv'
    BY <1>7 DEF Lock
  <1>8. ASSUME NEW c \in Clients, Write(c) PROVE MoreInv'
    BY <1>8 DEF Write
  <1>9. ASSUME NEW c \in Clients, WriteFails(c) PROVE MoreInv'
    BY <1>9 DEF WriteFails
  <1>10. ASSUME NEW c \in Clients, DataFails(c) PROVE MoreInv'
    BY <1>10 DEF DataFails
  <1>11. ASSUME NEW c \in Clients, Unlock(c) PROVE MoreInv'
    BY <1>11 DEF Unlock
  <1>12. ASSUME NEW c \in Clients, Check(c) PROVE MoreInv'
    BY <1>12 DEF Check
  <1>13. ASSUME NEW c \in Clients, Sleep(c) PROVE MoreInv'
    BY <1>13 DEF Sleep
  <1>14. ASSUME NEW c \in Clients, Return(c) PROVE MoreInv'
    BY <1>14 DEF Return
  <1>15. ASSUME NEW c \in Clients, Drop(c) PROVE MoreInv'
    BY <1>15 DEF Drop
  <1>16. ASSUME NEW c \in Clients, ReadRequest(c) PROVE MoreInv'
    BY <1>16 DEF ReadRequest
  <1>17. ASSUME NEW c \in Clients, ReadData(c) PROVE MoreInv'
    BY <1>17 DEF ReadData
  <1>18. ASSUME NEW ok \in BOOLEAN, Respond(ok) PROVE MoreInv'
    BY <1>18 DEF Respond
  <1>19. CASE RespondData
    BY <1>19 DEF RespondData
  <1>20. CASE Quit
    BY <1>20 DEF Quit
  <1>21. CASE Loop
    BY <1>21 DEF Loop
  <1>22. CASE Read
    BY <1>22 DEF Read
  <1>23. CASE ReadFails
    BY <1>23 DEF ReadFails
  <1>24. CASE Find
    BY <1>24 DEF Find
  <1>25. CASE Walk
    BY <1>25 DEF Walk
  <1>26. CASE NoWaiter
    BY <1>26 DEF NoWaiter
  <1>27. CASE Found
    BY <1>27 DEF Found
  <1>28. CASE Remove
    <2>1. \A d \in Clients : trans'[d].rid = trans[d].rid
      <3>1. CASE UNCHANGED trans
        BY <3>1
      <3>2. CASE p # None /\ trans' = [trans EXCEPT ![p].next = n[mnt]]
        <4>1. p \in Clients
          BY <3>2
        <4> QED
          BY <3>2, <4>1, RidKept
      <3> QED
        BY <1>28, <3>1, <3>2 DEF Remove
    <2> QED
      BY <1>28, <2>1 DEF Remove
  <1>29. CASE RemoveFails
    BY <1>29 DEF RemoveFails
  <1>30. CASE Copy
    <2>1. t \in Clients
      BY <1>30 DEF Copy, PtrInv
    <2>2. \A d \in Clients : trans'[d].rid = trans[d].rid
      BY <1>30, <2>1, RidKept DEF Copy
    <2> QED
      BY <1>30, <2>2 DEF Copy
  <1>31. CASE DataMissing
    BY <1>31 DEF DataMissing
  <1>32. CASE Served
    <2>1. t \in Clients
      BY <1>32 DEF Served, PtrInv
    <2>2. \A d \in Clients : trans'[d].rid = trans[d].rid
      BY <1>32, <2>1, RidKept DEF Served
    <2> QED
      BY <1>32, <2>2 DEF Served
  <1>33. CASE Ready
    BY <1>33 DEF Ready
  <1>34. CASE TearDown
    BY <1>34 DEF TearDown
  <1>35. CASE LoadList
    BY <1>35 DEF LoadList
  <1>36. CASE FailWaiter
    <2>1. t \in Clients
      BY <1>36 DEF FailWaiter, PtrInv
    <2>2. \A d \in Clients : trans'[d].rid = trans[d].rid
      BY <1>36, <2>1, RidKept DEF FailWaiter
    <2> QED
      BY <1>36, <2>2 DEF FailWaiter
  <1>37. CASE WakeWaiter
    BY <1>37 DEF WakeWaiter
  <1>38. CASE MntUnlock
    BY <1>38 DEF MntUnlock
  <1>39. ASSUME NEW q \in Procs, DecRefs(q) PROVE MoreInv'
    BY <1>39 DEF DecRefs
  <1>40. ASSUME NEW q \in Procs, FreeEnds(q) PROVE MoreInv'
    <2>1. CASE TestEnd(q, "in", "in?", "close in", "out?")
      BY <1>40, <2>1 DEF TestEnd
    <2>2. CASE CloseEnd(q, "in", "close in", "nil in")
      BY <1>40, <2>2 DEF CloseEnd
    <2>3. CASE ClearEnd(q, "in", "nil in", "out?")
      BY <1>40, <2>3 DEF ClearEnd
    <2>4. CASE TestEnd(q, "out", "out?", "close out", AfterEnds(q))
      BY <1>40, <2>4 DEF TestEnd, AfterEnds
    <2>5. CASE CloseEnd(q, "out", "close out", "nil out")
      BY <1>40, <2>5 DEF CloseEnd
    <2>6. CASE ClearEnd(q, "out", "nil out", AfterEnds(q))
      BY <1>40, <2>6 DEF ClearEnd, AfterEnds
    <2> QED
      BY <1>40, <2>1, <2>2, <2>3, <2>4, <2>5, <2>6 DEF FreeEnds
  <1>41. ASSUME NEW q \in Procs, FreeBinding(q) PROVE MoreInv'
    BY <1>41 DEF FreeBinding
  <1>42. ASSUME NEW q \in Procs, Undefined(q) PROVE MoreInv'
    BY <1>42 DEF Undefined
  <1>43. CASE WakesAstray
    BY <1>43 DEF WakesAstray
  <1> QED
    BY <1>1, <1>2, <1>3, <1>4, <1>5, <1>6, <1>7, <1>8, <1>9, <1>10, <1>11, <1>12, <1>13, <1>14, <1>15, <1>16, <1>17, <1>18, <1>19, <1>20, <1>21, <1>22, <1>23, <1>24, <1>25, <1>26, <1>27, <1>28, <1>29, <1>30, <1>31, <1>32, <1>33, <1>34, <1>35, <1>36, <1>37, <1>38, <1>39, <1>40, <1>41, <1>42, <1>43
       DEF Next, Asks, Server, Mounts, Frees

(* IInv is inductive. *)
LEMMA Inductive == IInv /\ [Next]_vars => IInv'
  <1> SUFFICES ASSUME IInv, [Next]_vars PROVE IInv'
    OBVIOUS
  <1>1. CASE UNCHANGED vars
    BY <1>1 DEF vars, IInv, TypeInv, PtrInv, HoldInv, MoreInv
  <1>2. CASE Next
    BY <1>2, TypeStep, PtrStep, HoldStep, MoreStep DEF IInv
  <1> QED
    BY <1>1, <1>2

(* No request is written between the head of a write and its data, for any *)
(* number of clients and of calls (filewrite(), kern/file.c:647-655).      *)
THEOREM DataInOrder == Spec => []DataFollowsHead
  <1>1. IInv => DataFollowsHead
    <2> SUFFICES ASSUME IInv, srv.at = "more", NEW d \in Clients, pc[d] \in {"head", "data"}
                 PROVE  trans[d].rid = srv.rid
      BY DEF DataFollowsHead
    <2>1. PICK c \in Clients : pc[c] = "data" /\ trans[c].rid = srv.rid
      BY DEF IInv, MoreInv
    <2>2. holder = c /\ holder = d
      BY <2>1 DEF IInv, HoldInv
    <2> QED
      BY <2>1, <2>2
  <1> QED
    BY InitIInv, Inductive, <1>1, PTL DEF Spec

(* The fields of a transaction and of the binding after a store to one.    *)
LEMMA TransFields ==
  ASSUME trans \in [Clients -> TransType], NEW y \in Clients, NEW v
  PROVE  /\ trans' = [trans EXCEPT ![y].rid = v] => \A d \in Clients :
              /\ trans'[d].next = trans[d].next /\ trans'[d].served = trans[d].served
              /\ trans'[d].resp = trans[d].resp
              /\ trans'[d].rid = IF d = y THEN v ELSE trans[d].rid
         /\ trans' = [trans EXCEPT ![y].next = v] => \A d \in Clients :
              /\ trans'[d].rid = trans[d].rid /\ trans'[d].served = trans[d].served
              /\ trans'[d].resp = trans[d].resp
              /\ trans'[d].next = IF d = y THEN v ELSE trans[d].next
         /\ trans' = [trans EXCEPT ![y].served = v] => \A d \in Clients :
              /\ trans'[d].rid = trans[d].rid /\ trans'[d].next = trans[d].next
              /\ trans'[d].resp = trans[d].resp
              /\ trans'[d].served = IF d = y THEN v ELSE trans[d].served
         /\ trans' = [trans EXCEPT ![y].resp = v] => \A d \in Clients :
              /\ trans'[d].rid = trans[d].rid /\ trans'[d].next = trans[d].next
              /\ trans'[d].served = trans[d].served
              /\ trans'[d].resp = IF d = y THEN v ELSE trans[d].resp
  <1>1. trans[y] \in TransType
    OBVIOUS
  <1>2. /\ [trans[y] EXCEPT !.rid = v].next = trans[y].next
        /\ [trans[y] EXCEPT !.rid = v].served = trans[y].served
        /\ [trans[y] EXCEPT !.rid = v].resp = trans[y].resp
        /\ [trans[y] EXCEPT !.rid = v].rid = v
    BY <1>1 DEF TransType
  <1>3. /\ [trans[y] EXCEPT !.next = v].rid = trans[y].rid
        /\ [trans[y] EXCEPT !.next = v].served = trans[y].served
        /\ [trans[y] EXCEPT !.next = v].resp = trans[y].resp
        /\ [trans[y] EXCEPT !.next = v].next = v
    BY <1>1 DEF TransType
  <1>4. /\ [trans[y] EXCEPT !.served = v].rid = trans[y].rid
        /\ [trans[y] EXCEPT !.served = v].next = trans[y].next
        /\ [trans[y] EXCEPT !.served = v].resp = trans[y].resp
        /\ [trans[y] EXCEPT !.served = v].served = v
    BY <1>1 DEF TransType
  <1>5. /\ [trans[y] EXCEPT !.resp = v].rid = trans[y].rid
        /\ [trans[y] EXCEPT !.resp = v].next = trans[y].next
        /\ [trans[y] EXCEPT !.resp = v].served = trans[y].served
        /\ [trans[y] EXCEPT !.resp = v].resp = v
    BY <1>1 DEF TransType
  <1>6. ASSUME NEW r, trans' = [trans EXCEPT ![y] = r]
        PROVE  \A d \in Clients : trans'[d] = IF d = y THEN r ELSE trans[d]
    BY <1>6
  <1>7. ASSUME trans' = [trans EXCEPT ![y].rid = v]
        PROVE  \A d \in Clients : trans'[d] = IF d = y THEN [trans[y] EXCEPT !.rid = v] ELSE trans[d]
    BY <1>7
  <1>8. ASSUME trans' = [trans EXCEPT ![y].next = v]
        PROVE  \A d \in Clients : trans'[d] = IF d = y THEN [trans[y] EXCEPT !.next = v] ELSE trans[d]
    BY <1>8
  <1>9. ASSUME trans' = [trans EXCEPT ![y].served = v]
        PROVE  \A d \in Clients : trans'[d] = IF d = y THEN [trans[y] EXCEPT !.served = v] ELSE trans[d]
    BY <1>9
  <1>10. ASSUME trans' = [trans EXCEPT ![y].resp = v]
         PROVE  \A d \in Clients : trans'[d] = IF d = y THEN [trans[y] EXCEPT !.resp = v] ELSE trans[d]
    BY <1>10
  <1> QED
    BY <1>2, <1>3, <1>4, <1>5, <1>7, <1>8, <1>9, <1>10

LEMMA BindingFields ==
  ASSUME b \in BindingType, NEW v
  PROVE  /\ b' = [b EXCEPT !.waiting = v] =>
              b'.waiting = v /\ b'.nreqid = b.nreqid /\ b'.refs = b.refs /\ b'.ends = b.ends
         /\ b' = [b EXCEPT !.nreqid = v] =>
              b'.waiting = b.waiting /\ b'.nreqid = v /\ b'.refs = b.refs /\ b'.ends = b.ends
  BY DEF BindingType

-----------------------------------------------------------------------------
(* The counters stay in their bounds.  A client that has been given a      *)
(* number has made a call for it: Made has a pair for each of these calls. *)
PlainInv == /\ calls \in [Clients -> 0..MaxCalls] /\ state \in [Procs -> {"run", "waiting"}]
            /\ closed \subseteq {"in", "out"}
            /\ \A c \in Clients : pc[c] \in {"test", "number"} => calls[c] >= 1

Made == {m \in Clients \X (1..MaxCalls) :
           m[2] < calls[m[1]] \/ (m[2] = calls[m[1]] /\ pc[m[1]] \notin {"test", "number"})}
NumberInv == b.nreqid <= Cardinality(Made)

BoundInv == /\ \A c \in Clients : trans[c].rid <= MaxRid /\ trans[c].resp <= ELINK
            /\ tresp.rid <= MaxRid /\ srv.rid <= MaxRid

(* Each side gives up its reference once: mountproc() when it has let go   *)
(* of the lock, and the last client.                                       *)
Done == {"in?", "close in", "nil in", "out?", "close out", "nil out", "last", "end", "list"}
MntDone == pc[mnt] \in Done /\ holder # mnt
ClientsDone == \E c \in Clients : pc[c] \in Done
RefsInv == /\ b.refs = 2 - (IF MntDone THEN 1 ELSE 0) - (IF ClientsDone THEN 1 ELSE 0)
           /\ pc[mnt] \in {"dec", "last", "end"} => holder # mnt
           /\ \A c \in Clients : pc[c] \in Done \cup {"dec"} =>
                \A d \in Clients \ {c} : pc[d] = "idle" /\ calls[d] = MaxCalls

AllTypes == IInv /\ PlainInv /\ NumberInv /\ BoundInv /\ RefsInv

(* calls, states and closed ends keep their types. *)
LEMMA PlainStep ==
  ASSUME TypeInv, PtrInv, PlainInv, Next
  PROVE  PlainInv'
  <1> USE DEF TypeInv, Labels, PlainInv, At, Goto, Rest, MntUnchanged
  <1>1. ASSUME NEW c \in Clients, NEW k \in Kinds, Call(c, k) PROVE PlainInv'
    <2>1. calls[c] \in 0..MaxCalls /\ calls[c] < MaxCalls /\ calls' = [calls EXCEPT ![c] = calls[c] + 1]
      BY <1>1 DEF Call
    <2>2. calls[c] + 1 \in 0..MaxCalls /\ calls[c] + 1 >= 1
      <3> HIDE DEF PlainInv, TypeInv
      <3>1. MaxCalls \in Nat
        BY MountAssumption
      <3> QED
        BY <2>1, <3>1
    <2>3. calls' \in [Clients -> 0..MaxCalls] /\ calls'[c] >= 1
      <3>1. calls \in [Clients -> 0..MaxCalls]
        OBVIOUS
      <3>2. calls'[c] = calls[c] + 1
        BY <2>1, <3>1
      <3> QED
        BY <2>1, <2>2, <3>1, <3>2
    <2>4. \A d \in Clients : d # c => calls'[d] = calls[d] /\ pc'[d] = pc[d]
      BY <1>1, <2>1 DEF Call
    <2>5. state' = state /\ closed' = closed
      BY <1>1 DEF Call
    <2>6. \A d \in Clients : pc'[d] \in {"test", "number"} => calls'[d] >= 1
      BY <2>3, <2>4
    <2> QED
      BY <2>3, <2>5, <2>6
  <1>2. ASSUME NEW c \in Clients, TestOut(c) PROVE PlainInv'
    BY <1>2 DEF TestOut
  <1>3. ASSUME NEW c \in Clients, Number(c) PROVE PlainInv'
    BY <1>3 DEF Number
  <1>4. ASSUME NEW c \in Clients, LoadWaiting(c) PROVE PlainInv'
    BY <1>4 DEF LoadWaiting
  <1>5. ASSUME NEW c \in Clients, Push(c) PROVE PlainInv'
    BY <1>5 DEF Push
  <1>6. ASSUME NEW c \in Clients, PushFails(c) PROVE PlainInv'
    BY <1>6 DEF PushFails
  <1>7. ASSUME NEW c \in Clients, Lock(c) PROVE PlainInv'
    BY <1>7 DEF Lock
  <1>8. ASSUME NEW c \in Clients, Write(c) PROVE PlainInv'
    BY <1>8 DEF Write
  <1>9. ASSUME NEW c \in Clients, WriteFails(c) PROVE PlainInv'
    BY <1>9 DEF WriteFails
  <1>10. ASSUME NEW c \in Clients, DataFails(c) PROVE PlainInv'
    BY <1>10 DEF DataFails
  <1>11. ASSUME NEW c \in Clients, Unlock(c) PROVE PlainInv'
    BY <1>11 DEF Unlock
  <1>12. ASSUME NEW c \in Clients, Check(c) PROVE PlainInv'
    BY <1>12 DEF Check
  <1>13. ASSUME NEW c \in Clients, Sleep(c) PROVE PlainInv'
    BY <1>13 DEF Sleep
  <1>14. ASSUME NEW c \in Clients, Return(c) PROVE PlainInv'
    BY <1>14 DEF Return
  <1>15. ASSUME NEW c \in Clients, Drop(c) PROVE PlainInv'
    BY <1>15 DEF Drop
  <1>16. ASSUME NEW c \in Clients, ReadRequest(c) PROVE PlainInv'
    BY <1>16 DEF ReadRequest
  <1>17. ASSUME NEW c \in Clients, ReadData(c) PROVE PlainInv'
    BY <1>17 DEF ReadData
  <1>18. ASSUME NEW ok \in BOOLEAN, Respond(ok) PROVE PlainInv'
    BY <1>18 DEF Respond
  <1>19. CASE RespondData
    BY <1>19 DEF RespondData
  <1>20. CASE Quit
    BY <1>20 DEF Quit
  <1>21. CASE Loop
    BY <1>21 DEF Loop
  <1>22. CASE Read
    BY <1>22 DEF Read
  <1>23. CASE ReadFails
    BY <1>23 DEF ReadFails
  <1>24. CASE Find
    BY <1>24 DEF Find
  <1>25. CASE Walk
    BY <1>25 DEF Walk
  <1>26. CASE NoWaiter
    BY <1>26 DEF NoWaiter
  <1>27. CASE Found
    BY <1>27 DEF Found
  <1>28. CASE Remove
    BY <1>28 DEF Remove
  <1>29. CASE RemoveFails
    BY <1>29 DEF RemoveFails
  <1>30. CASE Copy
    BY <1>30 DEF Copy
  <1>31. CASE DataMissing
    BY <1>31 DEF DataMissing
  <1>32. CASE Served
    BY <1>32 DEF Served
  <1>33. CASE Ready
    <2>1. t \in Clients
      BY <1>33 DEF Ready, PtrInv
    <2> QED
      BY <1>33, <2>1 DEF Ready
  <1>34. CASE TearDown
    BY <1>34 DEF TearDown
  <1>35. CASE LoadList
    BY <1>35 DEF LoadList
  <1>36. CASE FailWaiter
    BY <1>36 DEF FailWaiter
  <1>37. CASE WakeWaiter
    <2>1. t \in Clients
      BY <1>37 DEF WakeWaiter, PtrInv
    <2> QED
      BY <1>37, <2>1 DEF WakeWaiter
  <1>38. CASE MntUnlock
    BY <1>38 DEF MntUnlock
  <1>39. ASSUME NEW q \in Procs, DecRefs(q) PROVE PlainInv'
    BY <1>39 DEF DecRefs
  <1>40. ASSUME NEW q \in Procs, FreeEnds(q) PROVE PlainInv'
    <2>1. CASE TestEnd(q, "in", "in?", "close in", "out?")
      BY <1>40, <2>1 DEF TestEnd
    <2>2. CASE CloseEnd(q, "in", "close in", "nil in")
      BY <1>40, <2>2 DEF CloseEnd
    <2>3. CASE ClearEnd(q, "in", "nil in", "out?")
      BY <1>40, <2>3 DEF ClearEnd
    <2>4. CASE TestEnd(q, "out", "out?", "close out", AfterEnds(q))
      BY <1>40, <2>4 DEF TestEnd, AfterEnds
    <2>5. CASE CloseEnd(q, "out", "close out", "nil out")
      BY <1>40, <2>5 DEF CloseEnd
    <2>6. CASE ClearEnd(q, "out", "nil out", AfterEnds(q))
      BY <1>40, <2>6 DEF ClearEnd, AfterEnds
    <2> QED
      BY <1>40, <2>1, <2>2, <2>3, <2>4, <2>5, <2>6 DEF FreeEnds
  <1>41. ASSUME NEW q \in Procs, FreeBinding(q) PROVE PlainInv'
    BY <1>41 DEF FreeBinding
  <1>42. ASSUME NEW q \in Procs, Undefined(q) PROVE PlainInv'
    BY <1>42 DEF Undefined
  <1>43. CASE WakesAstray
    BY <1>43 DEF WakesAstray
  <1> QED
    BY <1>1, <1>2, <1>3, <1>4, <1>5, <1>6, <1>7, <1>8, <1>9, <1>10, <1>11, <1>12, <1>13, <1>14, <1>15, <1>16, <1>17, <1>18, <1>19, <1>20, <1>21, <1>22, <1>23, <1>24, <1>25, <1>26, <1>27, <1>28, <1>29, <1>30, <1>31, <1>32, <1>33, <1>34, <1>35, <1>36, <1>37, <1>38, <1>39, <1>40, <1>41, <1>42, <1>43
       DEF Next, Asks, Server, Mounts, Frees

LEMMA MadeBound ==
  ASSUME NEW M, M \subseteq Clients \X (1..MaxCalls)
  PROVE  /\ IsFiniteSet(M) /\ Cardinality(M) \in Nat /\ Cardinality(M) <= MaxRid
         /\ MaxRid \in Nat
  <1>1. /\ IsFiniteSet(1..MaxCalls) /\ Cardinality(1..MaxCalls) = MaxCalls
    BY FS_Interval
  <1>2. /\ IsFiniteSet(Clients \X (1..MaxCalls))
        /\ Cardinality(Clients \X (1..MaxCalls)) = Cardinality(Clients) * MaxCalls
    BY <1>1, FS_Product
  <1>4. IsFiniteSet(M) /\ Cardinality(M) <= Cardinality(Clients \X (1..MaxCalls))
    BY <1>2, FS_Subset
  <1>5. Cardinality(M) \in Nat /\ Cardinality(Clients) \in Nat
    BY <1>4, FS_CardinalityType
  <1>6. Cardinality(Clients) * MaxCalls = MaxCalls * Cardinality(Clients)
    BY <1>5
  <1> QED
    BY <1>2, <1>4, <1>5, <1>6, ElinkType DEF MaxRid

(* A step after which all the calls that were made still are.              *)
LEMMA MadeGrows ==
  ASSUME b \in BindingType, b'.nreqid = b.nreqid, NumberInv, Made \subseteq Made'
  PROVE  NumberInv'
  <1> DEFINE M == Made'
  <1>0. M \subseteq Clients \X (1..MaxCalls) /\ Made \subseteq Clients \X (1..MaxCalls)
    BY DEF Made
  <1>0a. Made \subseteq M
    OBVIOUS
  <1> HIDE DEF M
  <1>1. IsFiniteSet(M) /\ Cardinality(M) \in Nat
    BY <1>0, MadeBound
  <1>2. Cardinality(Made) <= Cardinality(M) /\ Cardinality(Made) \in Nat
    BY <1>0, <1>0a, <1>1, MadeBound, FS_Subset
  <1>3. b.nreqid \in Nat
    BY DEF BindingType
  <1> QED
    BY <1>1, <1>2, <1>3 DEF NumberInv, M

(* Calls are numbered at most once each.                                   *)
LEMMA NumberStep ==
  ASSUME TypeInv, PtrInv, PlainInv, NumberInv, Next
  PROVE  NumberInv'
  <1> USE DEF At, Goto, Rest, MntUnchanged
  <1>1. PlainInv'
    BY PlainStep
  <1>2. b \in BindingType /\ pc \in [Procs -> Labels] /\ calls \in [Clients -> 0..MaxCalls]
    BY DEF TypeInv, PlainInv
  <1>3. ASSUME NEW y \in Procs, NEW l, l \notin {"test", "number"} \/ pc[y] \in {"test", "number"},
               pc' = [pc EXCEPT ![y] = l] \/ pc' = pc, calls' = calls, b'.nreqid = b.nreqid
        PROVE  NumberInv'
    <2>1. \A c \in Clients : pc'[c] \in {"test", "number"} => pc[c] \in {"test", "number"}
      BY <1>2, <1>3
    <2>2. Made \subseteq Made'
      BY <1>3, <2>1 DEF Made
    <2> QED
      BY <1>1, <1>2, <1>3, <2>2, MadeGrows
  <1>4. ASSUME NEW c \in Clients, NEW k \in Kinds, Call(c, k) PROVE NumberInv'
    <2>1. /\ pc[c] = "idle" /\ calls' = [calls EXCEPT ![c] = @ + 1] /\ pc' = [pc EXCEPT ![c] = "test"]
          /\ b' = b
      BY <1>4 DEF Call
    <2>2. /\ \A d \in Clients \ {c} : calls'[d] = calls[d] /\ pc'[d] = pc[d]
          /\ calls'[c] = calls[c] + 1 /\ calls[c] \in Nat
      BY <1>2, <2>1
    <2>3. Made \subseteq Made'
      <3> SUFFICES ASSUME NEW m \in Made PROVE m \in Made'
        OBVIOUS
      <3>1. /\ m \in Clients \X (1..MaxCalls) /\ m[1] \in Clients /\ m[2] \in Nat
            /\ m[2] < calls[m[1]] \/ (m[2] = calls[m[1]] /\ pc[m[1]] \notin {"test", "number"})
        BY DEF Made
      <3>2. CASE m[1] = c
        <4>1. m[2] < calls'[m[1]]
          BY <2>2, <3>1, <3>2
        <4> QED
          BY <3>1, <4>1 DEF Made
      <3>3. CASE m[1] # c
        <4>1. m[2] < calls'[m[1]] \/ (m[2] = calls'[m[1]] /\ pc'[m[1]] \notin {"test", "number"})
          BY <2>2, <3>1, <3>3
        <4> QED
          BY <3>1, <4>1 DEF Made
      <3> QED
        BY <3>2, <3>3
    <2>4. b'.nreqid = b.nreqid
      BY <2>1
    <2> QED
      BY <1>1, <1>2, <2>3, <2>4, MadeGrows
  <1>5. ASSUME NEW c \in Clients, Number(c) PROVE NumberInv'
    <2>1. /\ pc[c] = "number" /\ calls' = calls /\ pc' = [pc EXCEPT ![c] = "load"]
          /\ b' = [b EXCEPT !.nreqid = @ + 1]
      BY <1>5 DEF Number
    <2>2. b'.nreqid = b.nreqid + 1 /\ b.nreqid \in Nat
      BY <1>2, <2>1 DEF BindingType
    <2>3. calls[c] \in 1..MaxCalls
      BY <1>2, <2>1 DEF PlainInv
    <2>4. PICK x : x = <<c, calls[c]>>
      OBVIOUS
    <2>5. x \notin Made
      BY <2>1, <2>3, <2>4 DEF Made
    <2>6. x \in Made'
      <3>1. x \in Clients \X (1..MaxCalls) /\ x[1] = c /\ x[2] = calls[c]
        BY <2>3, <2>4
      <3>2. calls'[c] = calls[c] /\ pc'[c] = "load"
        BY <1>2, <2>1
      <3> QED
        BY <3>1, <3>2 DEF Made
    <2>7. Made \subseteq Made'
      BY <1>2, <2>1 DEF Made
    <2> DEFINE M == Made'
    <2>7a. M \subseteq Clients \X (1..MaxCalls) /\ Made \subseteq Clients \X (1..MaxCalls)
      BY DEF Made
    <2>9. Made \cup {x} \subseteq M
      BY <2>6, <2>7
    <2> HIDE DEF M
    <2>8. IsFiniteSet(M) /\ Cardinality(M) \in Nat
      BY <2>7a, MadeBound
    <2>10. /\ IsFiniteSet(Made) /\ Cardinality(Made) \in Nat
           /\ IsFiniteSet(Made \cup {x}) /\ Cardinality(Made \cup {x}) = Cardinality(Made) + 1
      BY <2>5, <2>7a, MadeBound, FS_AddElement
    <2>11. Cardinality(Made \cup {x}) <= Cardinality(M)
      BY <2>8, <2>9, FS_Subset
    <2>12. b.nreqid + 1 <= Cardinality(M)
      BY <2>2, <2>8, <2>10, <2>11 DEF NumberInv
    <2> QED
      BY <2>2, <2>12 DEF NumberInv, M
  <1>6. ASSUME NEW c \in Clients, \/ TestOut(c) \/ LoadWaiting(c) \/ Push(c) \/ PushFails(c) \/ Lock(c) \/ Write(c) \/ WriteFails(c)
       PROVE  NumberInv'
    <2>1. calls' = calls
      BY <1>6 DEF TestOut, LoadWaiting, Push, PushFails, Lock, Write, WriteFails
    <2>2. pc' \in {[pc EXCEPT ![c] = l] : l \in {"number", "fail", "push", "lock", "load", "write", "head", "dead", "failed"}}
      BY <1>6 DEF TestOut, LoadWaiting, Push, PushFails, Lock, Write, WriteFails
    <2>3. pc[c] \in {"test", "number"} \/ pc'[c] \notin {"test", "number"}
      BY <1>6, <1>2, <2>2 DEF TestOut, LoadWaiting, Push, PushFails, Lock, Write, WriteFails
    <2>4. b'.nreqid = b.nreqid
      BY <1>6, <1>2 DEF TestOut, LoadWaiting, Push, PushFails, Lock, Write, WriteFails, BindingType
    <2>5. PICK l \in {"number", "fail", "push", "lock", "load", "write", "head", "dead", "failed"} : pc' = [pc EXCEPT ![c] = l]
      BY <2>2
    <2>6. l = pc'[c]
      BY <1>2, <2>5
    <2> QED
      BY <1>3, <2>1, <2>3, <2>4, <2>5, <2>6
  <1>7. ASSUME NEW c \in Clients, \/ DataFails(c) \/ Unlock(c) \/ Check(c) \/ Sleep(c) \/ Return(c) \/ Drop(c) \/ ReadRequest(c) \/ ReadData(c)
       PROVE  NumberInv'
    <2>1. calls' = calls
      BY <1>7 DEF DataFails, Unlock, Check, Sleep, Return, Drop, ReadRequest, ReadData
    <2>2. pc' \in {[pc EXCEPT ![c] = l] : l \in {"unlock", "check", "fail", "asleep", "sleep", "idle", "dec", "data"}}
      BY <1>7 DEF DataFails, Unlock, Check, Sleep, Return, Drop, ReadRequest, ReadData
    <2>3. pc[c] \in {"test", "number"} \/ pc'[c] \notin {"test", "number"}
      BY <1>7, <1>2, <2>2 DEF DataFails, Unlock, Check, Sleep, Return, Drop, ReadRequest, ReadData
    <2>4. b'.nreqid = b.nreqid
      BY <1>7, <1>2 DEF DataFails, Unlock, Check, Sleep, Return, Drop, ReadRequest, ReadData, BindingType
    <2>5. PICK l \in {"unlock", "check", "fail", "asleep", "sleep", "idle", "dec", "data"} : pc' = [pc EXCEPT ![c] = l]
      BY <2>2
    <2>6. l = pc'[c]
      BY <1>2, <2>5
    <2> QED
      BY <1>3, <2>1, <2>3, <2>4, <2>5, <2>6
  <1>8. ASSUME \/ (\E ok \in BOOLEAN : Respond(ok)) \/ RespondData \/ Loop \/ Read \/ ReadFails \/ Find \/ NoWaiter \/ Found \/ Remove
       PROVE  NumberInv'
    <2>1. calls' = calls
      BY <1>8 DEF Respond, RespondData, Loop, Read, ReadFails, Find, NoWaiter, Found, Remove
    <2>2. pc' \in {[pc EXCEPT ![mnt] = l] : l \in {"find", "serve", "read", "tear", "reading", "dead", "walk", "remove", "copy"}}
      BY <1>8 DEF Respond, RespondData, Loop, Read, ReadFails, Find, NoWaiter, Found, Remove
    <2>3. pc[mnt] \in {"test", "number"} \/ pc'[mnt] \notin {"test", "number"}
      BY <1>8, <1>2, <2>2 DEF Respond, RespondData, Loop, Read, ReadFails, Find, NoWaiter, Found, Remove
    <2>4. b'.nreqid = b.nreqid
      BY <1>8, <1>2 DEF Respond, RespondData, Loop, Read, ReadFails, Find, NoWaiter, Found, Remove, BindingType
    <2>5. PICK l \in {"find", "serve", "read", "tear", "reading", "dead", "walk", "remove", "copy"} : pc' = [pc EXCEPT ![mnt] = l]
      BY <2>2
    <2>6. l = pc'[mnt]
      BY <1>2, <2>5
    <2> QED
      BY <1>3, <2>1, <2>3, <2>4, <2>5, <2>6
  <1>9. ASSUME \/ RemoveFails \/ Copy \/ DataMissing \/ Served \/ Ready \/ TearDown \/ LoadList \/ FailWaiter \/ WakeWaiter \/ MntUnlock
       PROVE  NumberInv'
    <2>1. calls' = calls
      BY <1>9 DEF RemoveFails, Copy, DataMissing, Served, Ready, TearDown, LoadList, FailWaiter, WakeWaiter, MntUnlock
    <2>2. pc' \in {[pc EXCEPT ![mnt] = l] : l \in {"find", "data", "serve", "ready", "loop", "in?", "unlock", "fail", "wake", "dec"}}
      BY <1>9 DEF RemoveFails, Copy, DataMissing, Served, Ready, TearDown, LoadList, FailWaiter, WakeWaiter, MntUnlock
    <2>3. pc[mnt] \in {"test", "number"} \/ pc'[mnt] \notin {"test", "number"}
      BY <1>9, <1>2, <2>2 DEF RemoveFails, Copy, DataMissing, Served, Ready, TearDown, LoadList, FailWaiter, WakeWaiter, MntUnlock
    <2>4. b'.nreqid = b.nreqid
      BY <1>9, <1>2 DEF RemoveFails, Copy, DataMissing, Served, Ready, TearDown, LoadList, FailWaiter, WakeWaiter, MntUnlock, BindingType
    <2>5. PICK l \in {"find", "data", "serve", "ready", "loop", "in?", "unlock", "fail", "wake", "dec"} : pc' = [pc EXCEPT ![mnt] = l]
      BY <2>2
    <2>6. l = pc'[mnt]
      BY <1>2, <2>5
    <2> QED
      BY <1>3, <2>1, <2>3, <2>4, <2>5, <2>6
  <1>10. ASSUME NEW q \in Procs, DecRefs(q) \/ FreeBinding(q) \/ FreeEnds(q)
       PROVE  NumberInv'
    <2>1. calls' = calls
      BY <1>10 DEF DecRefs, FreeBinding, FreeEnds, TestEnd, CloseEnd, ClearEnd, AfterEnds
    <2>2. pc' \in {[pc EXCEPT ![q] = l] : l \in {"end", "in?", "close in", "nil in", "out?", "close out", "nil out", "list", "last"}}
      BY <1>10 DEF DecRefs, FreeBinding, FreeEnds, TestEnd, CloseEnd, ClearEnd, AfterEnds
    <2>3. pc[q] \in {"test", "number"} \/ pc'[q] \notin {"test", "number"}
      BY <1>10, <1>2, <2>2 DEF DecRefs, FreeBinding, FreeEnds, TestEnd, CloseEnd, ClearEnd, AfterEnds
    <2>4. b'.nreqid = b.nreqid
      BY <1>10, <1>2 DEF DecRefs, FreeBinding, FreeEnds, TestEnd, CloseEnd, ClearEnd, AfterEnds, BindingType
    <2>5. PICK l \in {"end", "in?", "close in", "nil in", "out?", "close out", "nil out", "list", "last"} : pc' = [pc EXCEPT ![q] = l]
      BY <2>2
    <2>6. l = pc'[q]
      BY <1>2, <2>5
    <2> QED
      BY <1>3, <2>1, <2>3, <2>4, <2>5, <2>6
  <1>11. ASSUME Walk \/ Quit \/ WakesAstray \/ (\E q \in Procs : Undefined(q))
        PROVE  NumberInv'
    <2>1. pc' = pc /\ calls' = calls /\ b'.nreqid = b.nreqid
      BY <1>11 DEF Walk, Quit, WakesAstray, Undefined
    <2> QED
      BY <1>3, <2>1
  <1> QED
    BY <1>4, <1>5, <1>6, <1>7, <1>8, <1>9, <1>10, <1>11
       DEF Next, Asks, Server, Mounts, Frees

(* Numbers of requests and responses stay in their bounds.                 *)
LEMMA BoundStep ==
  ASSUME TypeInv, PtrInv, PlainInv, NumberInv, NumberInv', BoundInv, Next
  PROVE  BoundInv'
  <1> USE DEF BoundInv, At, Goto, Rest, MntUnchanged
  <1>a. /\ ELINK \in Nat /\ MaxRid \in Nat /\ ELINK = MaxRid + 1
        /\ trans \in [Clients -> TransType] /\ b \in BindingType
    BY ElinkType DEF ELINK, TypeInv
  <1>b. ASSUME NEW c \in Clients, trans' \in {[trans EXCEPT ![c].next = v] : v \in Clients \cup {None}}
                                               \cup {[trans EXCEPT ![c].served = TRUE]},
               tresp' = tresp, srv' = srv
        PROVE  BoundInv'
    BY <1>a, <1>b, TransFields
  <1>1. ASSUME NEW c \in Clients, NEW k \in Kinds, Call(c, k) PROVE BoundInv'
    <2>1. \A d \in Clients : trans'[d].rid \in {0, trans[d].rid} /\ trans'[d].resp \in {0, trans[d].resp}
      BY <1>1, <1>a DEF Call, NoTrans
    <2> QED
      BY <1>1, <1>a, <2>1 DEF Call
  <1>2. ASSUME NEW c \in Clients, TestOut(c) PROVE BoundInv'
    BY <1>2 DEF TestOut
  <1>3. ASSUME NEW c \in Clients, Number(c) PROVE BoundInv'
    <2>1. b' = [b EXCEPT !.nreqid = b.nreqid + 1] /\ trans' = [trans EXCEPT ![c].rid = b.nreqid + 1]
      BY <1>3 DEF Number
    <2>2. b'.nreqid = b.nreqid + 1 /\ b.nreqid \in Nat
      BY <1>a, <2>1 DEF BindingType
    <2> DEFINE M == Made'
    <2>3. M \subseteq Clients \X (1..MaxCalls) /\ b.nreqid + 1 <= Cardinality(M)
      BY <2>2 DEF Made, NumberInv
    <2> HIDE DEF M
    <2>4. b.nreqid + 1 <= MaxRid
      BY <1>a, <2>2, <2>3, MadeBound
    <2>5. \A d \in Clients : /\ trans'[d].resp = trans[d].resp
                            /\ trans'[d].rid = IF d = c THEN b.nreqid + 1 ELSE trans[d].rid
      BY <1>a, <2>1, TransFields
    <2> QED
      BY <1>3, <2>4, <2>5 DEF Number
  <1>4. ASSUME NEW c \in Clients, LoadWaiting(c) PROVE BoundInv'
    <2>1. b.waiting \in Clients \cup {None}
      BY <1>a DEF BindingType
    <2> QED
      BY <1>4, <1>b, <2>1 DEF LoadWaiting
  <1>5. ASSUME NEW c \in Clients, Push(c) PROVE BoundInv'
    BY <1>5 DEF Push
  <1>6. ASSUME NEW c \in Clients, PushFails(c) PROVE BoundInv'
    BY <1>6 DEF PushFails
  <1>7. ASSUME NEW c \in Clients, Lock(c) PROVE BoundInv'
    BY <1>7 DEF Lock
  <1>8. ASSUME NEW c \in Clients, Write(c) PROVE BoundInv'
    BY <1>8 DEF Write
  <1>9. ASSUME NEW c \in Clients, WriteFails(c) PROVE BoundInv'
    BY <1>9 DEF WriteFails
  <1>10. ASSUME NEW c \in Clients, DataFails(c) PROVE BoundInv'
    BY <1>10 DEF DataFails
  <1>11. ASSUME NEW c \in Clients, Unlock(c) PROVE BoundInv'
    BY <1>11 DEF Unlock
  <1>12. ASSUME NEW c \in Clients, Check(c) PROVE BoundInv'
    BY <1>12 DEF Check
  <1>13. ASSUME NEW c \in Clients, Sleep(c) PROVE BoundInv'
    BY <1>13 DEF Sleep
  <1>14. ASSUME NEW c \in Clients, Return(c) PROVE BoundInv'
    <2>1. \A d \in Clients : trans'[d].rid \in {0, trans[d].rid} /\ trans'[d].resp \in {0, trans[d].resp}
      BY <1>14, <1>a DEF Return, NoTrans
    <2> QED
      BY <1>14, <1>a, <2>1 DEF Return
  <1>15. ASSUME NEW c \in Clients, Drop(c) PROVE BoundInv'
    BY <1>15 DEF Drop
  <1>16. ASSUME NEW c \in Clients, ReadRequest(c) PROVE BoundInv'
    <2>1. trans' = trans /\ tresp' = tresp /\ srv'.rid = trans[c].rid
      BY <1>16 DEF ReadRequest
    <2> QED
      BY <2>1
  <1>17. ASSUME NEW c \in Clients, ReadData(c) PROVE BoundInv'
    <2>1. trans' = trans /\ tresp' = tresp /\ srv'.rid = srv.rid
      BY <1>17 DEF ReadData, TypeInv
    <2> QED
      BY <2>1
  <1>18. ASSUME NEW ok \in BOOLEAN, Respond(ok) PROVE BoundInv'
    <2>1. tresp' = [rid |-> srv.rid, ok |-> ok, wrote |-> TRUE] /\ trans' = trans
      BY <1>18 DEF Respond
    <2>2. srv' = Idle \/ srv' = [srv EXCEPT !.at = "data"]
      BY <1>18 DEF Respond
    <2>3. srv'.rid \in {0, srv.rid}
      BY <2>2 DEF Idle, TypeInv
    <2> QED
      BY <1>a, <2>1, <2>3
  <1>19. CASE RespondData
    BY <1>19, <1>a DEF RespondData, Idle
  <1>20. CASE Quit
    BY <1>20, <1>a DEF Quit, Idle
  <1>21. CASE Loop
    BY <1>21 DEF Loop
  <1>22. CASE Read
    BY <1>22 DEF Read
  <1>23. CASE ReadFails
    BY <1>23 DEF ReadFails
  <1>24. CASE Find
    BY <1>24 DEF Find
  <1>25. CASE Walk
    BY <1>25 DEF Walk
  <1>26. CASE NoWaiter
    BY <1>26 DEF NoWaiter
  <1>27. CASE Found
    BY <1>27 DEF Found
  <1>28. CASE Remove
    <2>1. n[mnt] \in Clients \cup {None} /\ p \in Clients \cup {None}
      BY DEF TypeInv
    <2>2. CASE trans' = trans
      BY <1>28, <2>2 DEF Remove
    <2>3. CASE p # None /\ trans' = [trans EXCEPT ![p].next = n[mnt]]
      BY <1>28, <1>b, <2>1, <2>3 DEF Remove
    <2> QED
      BY <1>28, <2>2, <2>3 DEF Remove
  <1>29. CASE RemoveFails
    BY <1>29 DEF RemoveFails
  <1>30. CASE Copy
    <2>1. t \in Clients /\ trans' = [trans EXCEPT ![t].resp = tresp.rid]
      BY <1>30 DEF Copy, PtrInv, TypeInv
    <2>2. \A d \in Clients : /\ trans'[d].rid = trans[d].rid
                            /\ trans'[d].resp = IF d = t THEN tresp.rid ELSE trans[d].resp
      BY <1>a, <2>1, TransFields
    <2>3. tresp.rid \in Nat /\ tresp.rid <= ELINK
      BY <1>a DEF TypeInv
    <2> QED
      BY <1>30, <2>2, <2>3 DEF Copy
  <1>31. CASE DataMissing
    BY <1>31 DEF DataMissing
  <1>32. CASE Served
    <2>1. t \in Clients
      BY <1>32 DEF Served, PtrInv, TypeInv
    <2> QED
      BY <1>32, <1>b, <2>1 DEF Served
  <1>33. CASE Ready
    BY <1>33 DEF Ready
  <1>34. CASE TearDown
    BY <1>34 DEF TearDown
  <1>35. CASE LoadList
    BY <1>35 DEF LoadList
  <1>36. CASE FailWaiter
    <2>1. t \in Clients /\ trans' = [trans EXCEPT ![t].resp = ELINK]
      BY <1>36 DEF FailWaiter, PtrInv, TypeInv
    <2>2. \A d \in Clients : /\ trans'[d].rid = trans[d].rid
                            /\ trans'[d].resp = IF d = t THEN ELINK ELSE trans[d].resp
      BY <1>a, <2>1, TransFields
    <2> QED
      BY <1>36, <1>a, <2>2 DEF FailWaiter
  <1>37. CASE WakeWaiter
    BY <1>37 DEF WakeWaiter
  <1>38. CASE MntUnlock
    BY <1>38 DEF MntUnlock
  <1>39. ASSUME NEW q \in Procs, DecRefs(q) PROVE BoundInv'
    BY <1>39 DEF DecRefs
  <1>40. ASSUME NEW q \in Procs, FreeEnds(q) PROVE BoundInv'
    <2>1. CASE TestEnd(q, "in", "in?", "close in", "out?")
      BY <1>40, <2>1 DEF TestEnd
    <2>2. CASE CloseEnd(q, "in", "close in", "nil in")
      BY <1>40, <2>2 DEF CloseEnd
    <2>3. CASE ClearEnd(q, "in", "nil in", "out?")
      BY <1>40, <2>3 DEF ClearEnd
    <2>4. CASE TestEnd(q, "out", "out?", "close out", AfterEnds(q))
      BY <1>40, <2>4 DEF TestEnd, AfterEnds
    <2>5. CASE CloseEnd(q, "out", "close out", "nil out")
      BY <1>40, <2>5 DEF CloseEnd
    <2>6. CASE ClearEnd(q, "out", "nil out", AfterEnds(q))
      BY <1>40, <2>6 DEF ClearEnd, AfterEnds
    <2> QED
      BY <1>40, <2>1, <2>2, <2>3, <2>4, <2>5, <2>6 DEF FreeEnds
  <1>41. ASSUME NEW q \in Procs, FreeBinding(q) PROVE BoundInv'
    BY <1>41 DEF FreeBinding
  <1>42. ASSUME NEW q \in Procs, Undefined(q) PROVE BoundInv'
    BY <1>42 DEF Undefined
  <1>43. CASE WakesAstray
    BY <1>43 DEF WakesAstray
  <1> QED
    BY <1>1, <1>2, <1>3, <1>4, <1>5, <1>6, <1>7, <1>8, <1>9, <1>10, <1>11, <1>12, <1>13, <1>14, <1>15, <1>16, <1>17, <1>18, <1>19, <1>20, <1>21, <1>22, <1>23, <1>24, <1>25, <1>26, <1>27, <1>28, <1>29, <1>30, <1>31, <1>32, <1>33, <1>34, <1>35, <1>36, <1>37, <1>38, <1>39, <1>40, <1>41, <1>42, <1>43
       DEF Next, Asks, Server, Mounts, Frees

(* The references are counted by who has given up his: nobody has while a  *)
(* client is in a call or has one left.                                    *)
LEMMA ClientRefs ==
  ASSUME pc \in [Procs -> Labels], RefsInv, NEW y \in Clients, NEW l, l \notin Done \cup {"dec"},
         pc[y] \notin Done \cup {"dec"}, pc[y] = "idle" => calls[y] # MaxCalls,
         pc' = [pc EXCEPT ![y] = l], b'.refs = b.refs, holder' = mnt <=> holder = mnt
  PROVE  RefsInv'
  <1>1. \A c \in Clients : pc'[c] = IF c = y THEN l ELSE pc[c]
    OBVIOUS
  <1>2. pc'[mnt] = pc[mnt]
    OBVIOUS
  <1>3. \A c \in Clients : pc[c] \notin Done \cup {"dec"}
    BY DEF RefsInv
  <1>4. \A c \in Clients : pc'[c] \notin Done \cup {"dec"}
    BY <1>1, <1>3
  <1>5. ~ClientsDone /\ ~ClientsDone'
    BY <1>3, <1>4 DEF ClientsDone
  <1>6. MntDone' <=> MntDone
    BY <1>2 DEF MntDone
  <1> QED
    BY <1>2, <1>4, <1>5, <1>6 DEF RefsInv

(* A client that has given up its reference goes on.                       *)
LEMMA LastRefs ==
  ASSUME pc \in [Procs -> Labels], RefsInv, NEW y \in Clients, NEW l, l \in Done, pc[y] \in Done,
         pc' = [pc EXCEPT ![y] = l], b'.refs = b.refs, holder' = holder, calls' = calls
  PROVE  RefsInv'
  <1>1. \A c \in Clients : pc'[c] = IF c = y THEN l ELSE pc[c]
    OBVIOUS
  <1>2. pc'[mnt] = pc[mnt] /\ ClientsDone /\ ClientsDone'
    BY <1>1 DEF ClientsDone
  <1>3. \A d \in Clients \ {y} : pc[d] = "idle" /\ calls[d] = MaxCalls
    BY DEF RefsInv
  <1>4. \A c \in Clients : pc'[c] \in Done \cup {"dec"} => c = y
    BY <1>1, <1>3 DEF Done
  <1>5. \A c \in Clients : pc'[c] \in Done \cup {"dec"} =>
          \A d \in Clients \ {c} : pc'[d] = "idle" /\ calls'[d] = MaxCalls
    BY <1>1, <1>3, <1>4
  <1>6. MntDone' <=> MntDone
    BY <1>2 DEF MntDone
  <1> QED
    BY <1>2, <1>5, <1>6 DEF RefsInv

(* A step of mountproc() that gives up no reference.                       *)
LEMMA MountRefs ==
  ASSUME pc \in [Procs -> Labels], RefsInv, NEW l, pc' = [pc EXCEPT ![mnt] = l],
         b'.refs = b.refs, calls' = calls, l \in {"dec", "last", "end"} => holder' # mnt,
         pc[mnt] \in Done /\ holder # mnt <=> l \in Done /\ holder' # mnt
  PROVE  RefsInv'
  <1>1. pc'[mnt] = l /\ \A c \in Clients : pc'[c] = pc[c]
    OBVIOUS
  <1>2. (MntDone' <=> MntDone) /\ (ClientsDone' <=> ClientsDone)
    BY <1>1 DEF MntDone, ClientsDone
  <1>3. \A c \in Clients : pc'[c] \in Done \cup {"dec"} =>
          \A d \in Clients \ {c} : pc'[d] = "idle" /\ calls'[d] = MaxCalls
    BY <1>1 DEF RefsInv
  <1> QED
    BY <1>1, <1>2, <1>3 DEF RefsInv

LEMMA RefsStep ==
  ASSUME TypeInv, HoldInv, RefsInv, Next
  PROVE  RefsInv'
  <1> USE DEF At, Goto, Rest, MntUnchanged
  <1>a. pc \in [Procs -> Labels] /\ b \in BindingType
    BY DEF TypeInv
  <1>1. ASSUME NEW c \in Clients, NEW k \in Kinds, Call(c, k) PROVE RefsInv'
    <2>1. /\ pc' = [pc EXCEPT ![c] = "test"] /\ pc[c] = "idle" /\ calls[c] < MaxCalls
          /\ b' = b /\ holder' = holder
      BY <1>1 DEF Call
    <2>2. pc[c] \notin Done \cup {"dec"} /\ "test" \notin Done \cup {"dec"} /\ calls[c] # MaxCalls
      BY <2>1 DEF Done
    <2> QED
      BY <1>a, <2>1, <2>2, ClientRefs
  <1>2. ASSUME NEW c \in Clients, TestOut(c) PROVE RefsInv'
    <2>1. PICK l \in {"number", "fail"} : pc' = [pc EXCEPT ![c] = l]
      BY <1>2 DEF TestOut
    <2>2. pc[c] \notin Done \cup {"dec"} /\ l \notin Done \cup {"dec"} /\ pc[c] # "idle"
      BY <1>2, <2>1 DEF TestOut, Done
    <2>3. b'.refs = b.refs /\ (holder' = mnt <=> holder = mnt)
      BY <1>2, <1>a DEF TestOut, BindingType
    <2> QED
      BY <1>a, <2>1, <2>2, <2>3, ClientRefs
  <1>3. ASSUME NEW c \in Clients, Number(c) PROVE RefsInv'
    <2>1. PICK l \in {"load"} : pc' = [pc EXCEPT ![c] = l]
      BY <1>3 DEF Number
    <2>2. pc[c] \notin Done \cup {"dec"} /\ l \notin Done \cup {"dec"} /\ pc[c] # "idle"
      BY <1>3, <2>1 DEF Number, Done
    <2>3. b'.refs = b.refs /\ (holder' = mnt <=> holder = mnt)
      BY <1>3, <1>a DEF Number, BindingType
    <2> QED
      BY <1>a, <2>1, <2>2, <2>3, ClientRefs
  <1>4. ASSUME NEW c \in Clients, LoadWaiting(c) PROVE RefsInv'
    <2>1. PICK l \in {"push"} : pc' = [pc EXCEPT ![c] = l]
      BY <1>4 DEF LoadWaiting
    <2>2. pc[c] \notin Done \cup {"dec"} /\ l \notin Done \cup {"dec"} /\ pc[c] # "idle"
      BY <1>4, <2>1 DEF LoadWaiting, Done
    <2>3. b'.refs = b.refs /\ (holder' = mnt <=> holder = mnt)
      BY <1>4, <1>a DEF LoadWaiting, BindingType
    <2> QED
      BY <1>a, <2>1, <2>2, <2>3, ClientRefs
  <1>5. ASSUME NEW c \in Clients, Push(c) PROVE RefsInv'
    <2>1. PICK l \in {"lock"} : pc' = [pc EXCEPT ![c] = l]
      BY <1>5 DEF Push
    <2>2. pc[c] \notin Done \cup {"dec"} /\ l \notin Done \cup {"dec"} /\ pc[c] # "idle"
      BY <1>5, <2>1 DEF Push, Done
    <2>3. b'.refs = b.refs /\ (holder' = mnt <=> holder = mnt)
      BY <1>5, <1>a DEF Push, BindingType
    <2> QED
      BY <1>a, <2>1, <2>2, <2>3, ClientRefs
  <1>6. ASSUME NEW c \in Clients, PushFails(c) PROVE RefsInv'
    <2>1. PICK l \in {"load"} : pc' = [pc EXCEPT ![c] = l]
      BY <1>6 DEF PushFails
    <2>2. pc[c] \notin Done \cup {"dec"} /\ l \notin Done \cup {"dec"} /\ pc[c] # "idle"
      BY <1>6, <2>1 DEF PushFails, Done
    <2>3. b'.refs = b.refs /\ (holder' = mnt <=> holder = mnt)
      BY <1>6, <1>a DEF PushFails, BindingType
    <2> QED
      BY <1>a, <2>1, <2>2, <2>3, ClientRefs
  <1>7. ASSUME NEW c \in Clients, Lock(c) PROVE RefsInv'
    <2>1. PICK l \in {"write"} : pc' = [pc EXCEPT ![c] = l]
      BY <1>7 DEF Lock
    <2>2. pc[c] \notin Done \cup {"dec"} /\ l \notin Done \cup {"dec"} /\ pc[c] # "idle"
      BY <1>7, <2>1 DEF Lock, Done
    <2>3. b'.refs = b.refs /\ (holder' = mnt <=> holder = mnt)
      BY <1>7, <1>a DEF Lock, BindingType
    <2> QED
      BY <1>a, <2>1, <2>2, <2>3, ClientRefs
  <1>8. ASSUME NEW c \in Clients, Write(c) PROVE RefsInv'
    <2>1. PICK l \in {"head", "dead"} : pc' = [pc EXCEPT ![c] = l]
      BY <1>8 DEF Write
    <2>2. pc[c] \notin Done \cup {"dec"} /\ l \notin Done \cup {"dec"} /\ pc[c] # "idle"
      BY <1>8, <2>1 DEF Write, Done
    <2>3. b'.refs = b.refs /\ (holder' = mnt <=> holder = mnt)
      BY <1>8, <1>a DEF Write, BindingType
    <2> QED
      BY <1>a, <2>1, <2>2, <2>3, ClientRefs
  <1>9. ASSUME NEW c \in Clients, WriteFails(c) PROVE RefsInv'
    <2>1. PICK l \in {"failed"} : pc' = [pc EXCEPT ![c] = l]
      BY <1>9 DEF WriteFails
    <2>2. pc[c] \notin Done \cup {"dec"} /\ l \notin Done \cup {"dec"} /\ pc[c] # "idle"
      BY <1>9, <2>1 DEF WriteFails, Done
    <2>3. b'.refs = b.refs /\ (holder' = mnt <=> holder = mnt)
      BY <1>9, <1>a DEF WriteFails, BindingType
    <2> QED
      BY <1>a, <2>1, <2>2, <2>3, ClientRefs
  <1>10. ASSUME NEW c \in Clients, DataFails(c) PROVE RefsInv'
    <2>1. PICK l \in {"unlock"} : pc' = [pc EXCEPT ![c] = l]
      BY <1>10 DEF DataFails
    <2>2. pc[c] \notin Done \cup {"dec"} /\ l \notin Done \cup {"dec"} /\ pc[c] # "idle"
      BY <1>10, <2>1 DEF DataFails, Done
    <2>3. b'.refs = b.refs /\ (holder' = mnt <=> holder = mnt)
      BY <1>10, <1>a DEF DataFails, BindingType
    <2> QED
      BY <1>a, <2>1, <2>2, <2>3, ClientRefs
  <1>11. ASSUME NEW c \in Clients, Unlock(c) PROVE RefsInv'
    <2>1. PICK l \in {"check", "fail"} : pc' = [pc EXCEPT ![c] = l]
      BY <1>11 DEF Unlock
    <2>2. pc[c] \notin Done \cup {"dec"} /\ l \notin Done \cup {"dec"} /\ pc[c] # "idle"
      BY <1>11, <2>1 DEF Unlock, Done
    <2>3. b'.refs = b.refs /\ (holder' = mnt <=> holder = mnt)
      BY <1>11, <1>a DEF Unlock, BindingType
    <2> QED
      BY <1>a, <2>1, <2>2, <2>3, ClientRefs
  <1>12. ASSUME NEW c \in Clients, Check(c) PROVE RefsInv'
    <2>1. PICK l \in {"asleep", "sleep"} : pc' = [pc EXCEPT ![c] = l]
      BY <1>12 DEF Check
    <2>2. pc[c] \notin Done \cup {"dec"} /\ l \notin Done \cup {"dec"} /\ pc[c] # "idle"
      BY <1>12, <2>1 DEF Check, Done
    <2>3. b'.refs = b.refs /\ (holder' = mnt <=> holder = mnt)
      BY <1>12, <1>a DEF Check, BindingType
    <2> QED
      BY <1>a, <2>1, <2>2, <2>3, ClientRefs
  <1>13. ASSUME NEW c \in Clients, Sleep(c) PROVE RefsInv'
    <2>1. PICK l \in {"asleep"} : pc' = [pc EXCEPT ![c] = l]
      BY <1>13 DEF Sleep
    <2>2. pc[c] \notin Done \cup {"dec"} /\ l \notin Done \cup {"dec"} /\ pc[c] # "idle"
      BY <1>13, <2>1 DEF Sleep, Done
    <2>3. b'.refs = b.refs /\ (holder' = mnt <=> holder = mnt)
      BY <1>13, <1>a DEF Sleep, BindingType
    <2> QED
      BY <1>a, <2>1, <2>2, <2>3, ClientRefs
  <1>14. ASSUME NEW c \in Clients, Return(c) PROVE RefsInv'
    <2>1. PICK l \in {"idle"} : pc' = [pc EXCEPT ![c] = l]
      BY <1>14 DEF Return
    <2>2. pc[c] \notin Done \cup {"dec"} /\ l \notin Done \cup {"dec"} /\ pc[c] # "idle"
      BY <1>14, <2>1 DEF Return, Done
    <2>3. b'.refs = b.refs /\ (holder' = mnt <=> holder = mnt)
      BY <1>14, <1>a DEF Return, BindingType
    <2> QED
      BY <1>a, <2>1, <2>2, <2>3, ClientRefs
  <1>15. ASSUME NEW c \in Clients, Drop(c) PROVE RefsInv'
    <2>1. /\ pc' = [pc EXCEPT ![c] = "dec"] /\ b' = b /\ holder' = holder /\ calls' = calls
          /\ \A d \in Clients : pc[d] = "idle" /\ calls[d] = MaxCalls
      BY <1>15 DEF Drop
    <2>2. /\ pc'[mnt] = pc[mnt] /\ \A d \in Clients : pc'[d] = IF d = c THEN "dec" ELSE "idle"
      BY <1>a, <2>1
    <2>5. "idle" \notin Done /\ "dec" \notin Done
      BY DEF Done
    <2>6. ~ClientsDone
      BY <2>1, <2>5 DEF ClientsDone
    <2>7. \A d \in Clients : pc'[d] \notin Done
      BY <2>2, <2>5
    <2>8. ~ClientsDone'
      BY <2>7 DEF ClientsDone
    <2>9. MntDone' <=> MntDone
      BY <2>1, <2>2 DEF MntDone
    <2>3. ~ClientsDone /\ ~ClientsDone' /\ (MntDone' <=> MntDone)
      BY <2>6, <2>8, <2>9
    <2>4. \A e \in Clients : pc'[e] \in Done \cup {"dec"} =>
            \A d \in Clients \ {e} : pc'[d] = "idle" /\ calls'[d] = MaxCalls
      BY <2>1, <2>2 DEF Done
    <2> QED
      BY <2>1, <2>2, <2>3, <2>4 DEF RefsInv
  <1>16. ASSUME NEW c \in Clients, ReadRequest(c) PROVE RefsInv'
    <2>1. PICK l \in {"data", "unlock"} : pc' = [pc EXCEPT ![c] = l]
      BY <1>16 DEF ReadRequest
    <2>2. pc[c] \notin Done \cup {"dec"} /\ l \notin Done \cup {"dec"} /\ pc[c] # "idle"
      BY <1>16, <2>1 DEF ReadRequest, Done
    <2>3. b'.refs = b.refs /\ (holder' = mnt <=> holder = mnt)
      BY <1>16, <1>a DEF ReadRequest, BindingType
    <2> QED
      BY <1>a, <2>1, <2>2, <2>3, ClientRefs
  <1>17. ASSUME NEW c \in Clients, ReadData(c) PROVE RefsInv'
    <2>1. PICK l \in {"data", "unlock"} : pc' = [pc EXCEPT ![c] = l]
      BY <1>17 DEF ReadData
    <2>2. pc[c] \notin Done \cup {"dec"} /\ l \notin Done \cup {"dec"} /\ pc[c] # "idle"
      BY <1>17, <2>1 DEF ReadData, Done
    <2>3. b'.refs = b.refs /\ (holder' = mnt <=> holder = mnt)
      BY <1>17, <1>a DEF ReadData, BindingType
    <2> QED
      BY <1>a, <2>1, <2>2, <2>3, ClientRefs
  <1>18. ASSUME NEW ok \in BOOLEAN, Respond(ok) PROVE RefsInv'
    <2>1. PICK l \in {"find"} : pc' = [pc EXCEPT ![mnt] = l]
      BY <1>18 DEF Respond
    <2>2. calls' = calls /\ b'.refs = b.refs
      BY <1>18, <1>a DEF Respond, BindingType
    <2>3. pc[mnt] \notin Done /\ l \notin Done \cup {"dec"}
      BY <1>18, <2>1 DEF Respond, Done
    <2> QED
      BY <1>a, <2>1, <2>2, <2>3, MountRefs DEF Done
  <1>19. CASE RespondData
    <2>1. PICK l \in {"serve"} : pc' = [pc EXCEPT ![mnt] = l]
      BY <1>19 DEF RespondData
    <2>2. calls' = calls /\ b'.refs = b.refs
      BY <1>19, <1>a DEF RespondData, BindingType
    <2>3. pc[mnt] \notin Done /\ l \notin Done \cup {"dec"}
      BY <1>19, <2>1 DEF RespondData, Done
    <2> QED
      BY <1>a, <2>1, <2>2, <2>3, MountRefs DEF Done
  <1>20. CASE Quit
    <2>1. pc' = pc /\ b' = b /\ holder' = holder /\ calls' = calls
      BY <1>20 DEF Quit
    <2> QED
      BY <2>1 DEF RefsInv, MntDone, ClientsDone
  <1>21. CASE Loop
    <2>1. PICK l \in {"read", "tear"} : pc' = [pc EXCEPT ![mnt] = l]
      BY <1>21 DEF Loop
    <2>2. calls' = calls /\ b'.refs = b.refs
      BY <1>21, <1>a DEF Loop, BindingType
    <2>3. pc[mnt] \notin Done /\ l \notin Done \cup {"dec"}
      BY <1>21, <2>1 DEF Loop, Done
    <2> QED
      BY <1>a, <2>1, <2>2, <2>3, MountRefs DEF Done
  <1>22. CASE Read
    <2>1. PICK l \in {"reading", "dead"} : pc' = [pc EXCEPT ![mnt] = l]
      BY <1>22 DEF Read
    <2>2. calls' = calls /\ b'.refs = b.refs
      BY <1>22, <1>a DEF Read, BindingType
    <2>3. pc[mnt] \notin Done /\ l \notin Done \cup {"dec"}
      BY <1>22, <2>1 DEF Read, Done
    <2> QED
      BY <1>a, <2>1, <2>2, <2>3, MountRefs DEF Done
  <1>23. CASE ReadFails
    <2>1. PICK l \in {"find"} : pc' = [pc EXCEPT ![mnt] = l]
      BY <1>23 DEF ReadFails
    <2>2. calls' = calls /\ b'.refs = b.refs
      BY <1>23, <1>a DEF ReadFails, BindingType
    <2>3. pc[mnt] \notin Done /\ l \notin Done \cup {"dec"}
      BY <1>23, <2>1 DEF ReadFails, Done
    <2> QED
      BY <1>a, <2>1, <2>2, <2>3, MountRefs DEF Done
  <1>24. CASE Find
    <2>1. PICK l \in {"walk"} : pc' = [pc EXCEPT ![mnt] = l]
      BY <1>24 DEF Find
    <2>2. calls' = calls /\ b'.refs = b.refs
      BY <1>24, <1>a DEF Find, BindingType
    <2>3. pc[mnt] \notin Done /\ l \notin Done \cup {"dec"}
      BY <1>24, <2>1 DEF Find, Done
    <2> QED
      BY <1>a, <2>1, <2>2, <2>3, MountRefs DEF Done
  <1>25. CASE Walk
    <2>1. pc' = pc /\ b' = b /\ holder' = holder /\ calls' = calls
      BY <1>25 DEF Walk
    <2> QED
      BY <2>1 DEF RefsInv, MntDone, ClientsDone
  <1>26. CASE NoWaiter
    <2>1. PICK l \in {"tear"} : pc' = [pc EXCEPT ![mnt] = l]
      BY <1>26 DEF NoWaiter
    <2>2. calls' = calls /\ b'.refs = b.refs
      BY <1>26, <1>a DEF NoWaiter, BindingType
    <2>3. pc[mnt] \notin Done /\ l \notin Done \cup {"dec"}
      BY <1>26, <2>1 DEF NoWaiter, Done
    <2> QED
      BY <1>a, <2>1, <2>2, <2>3, MountRefs DEF Done
  <1>27. CASE Found
    <2>1. PICK l \in {"remove"} : pc' = [pc EXCEPT ![mnt] = l]
      BY <1>27 DEF Found
    <2>2. calls' = calls /\ b'.refs = b.refs
      BY <1>27, <1>a DEF Found, BindingType
    <2>3. pc[mnt] \notin Done /\ l \notin Done \cup {"dec"}
      BY <1>27, <2>1 DEF Found, Done
    <2> QED
      BY <1>a, <2>1, <2>2, <2>3, MountRefs DEF Done
  <1>28. CASE Remove
    <2>1. PICK l \in {"copy"} : pc' = [pc EXCEPT ![mnt] = l]
      BY <1>28 DEF Remove
    <2>2. calls' = calls /\ b'.refs = b.refs
      BY <1>28, <1>a DEF Remove, BindingType
    <2>3. pc[mnt] \notin Done /\ l \notin Done \cup {"dec"}
      BY <1>28, <2>1 DEF Remove, Done
    <2> QED
      BY <1>a, <2>1, <2>2, <2>3, MountRefs DEF Done
  <1>29. CASE RemoveFails
    <2>1. PICK l \in {"find"} : pc' = [pc EXCEPT ![mnt] = l]
      BY <1>29 DEF RemoveFails
    <2>2. calls' = calls /\ b'.refs = b.refs
      BY <1>29, <1>a DEF RemoveFails, BindingType
    <2>3. pc[mnt] \notin Done /\ l \notin Done \cup {"dec"}
      BY <1>29, <2>1 DEF RemoveFails, Done
    <2> QED
      BY <1>a, <2>1, <2>2, <2>3, MountRefs DEF Done
  <1>30. CASE Copy
    <2>1. PICK l \in {"data", "serve"} : pc' = [pc EXCEPT ![mnt] = l]
      BY <1>30 DEF Copy
    <2>2. calls' = calls /\ b'.refs = b.refs
      BY <1>30, <1>a DEF Copy, BindingType
    <2>3. pc[mnt] \notin Done /\ l \notin Done \cup {"dec"}
      BY <1>30, <2>1 DEF Copy, Done
    <2> QED
      BY <1>a, <2>1, <2>2, <2>3, MountRefs DEF Done
  <1>31. CASE DataMissing
    <2>1. PICK l \in {"serve"} : pc' = [pc EXCEPT ![mnt] = l]
      BY <1>31 DEF DataMissing
    <2>2. calls' = calls /\ b'.refs = b.refs
      BY <1>31, <1>a DEF DataMissing, BindingType
    <2>3. pc[mnt] \notin Done /\ l \notin Done \cup {"dec"}
      BY <1>31, <2>1 DEF DataMissing, Done
    <2> QED
      BY <1>a, <2>1, <2>2, <2>3, MountRefs DEF Done
  <1>32. CASE Served
    <2>1. PICK l \in {"ready"} : pc' = [pc EXCEPT ![mnt] = l]
      BY <1>32 DEF Served
    <2>2. calls' = calls /\ b'.refs = b.refs
      BY <1>32, <1>a DEF Served, BindingType
    <2>3. pc[mnt] \notin Done /\ l \notin Done \cup {"dec"}
      BY <1>32, <2>1 DEF Served, Done
    <2> QED
      BY <1>a, <2>1, <2>2, <2>3, MountRefs DEF Done
  <1>33. CASE Ready
    <2>1. PICK l \in {"loop"} : pc' = [pc EXCEPT ![mnt] = l]
      BY <1>33 DEF Ready
    <2>2. calls' = calls /\ b'.refs = b.refs
      BY <1>33, <1>a DEF Ready, BindingType
    <2>3. pc[mnt] \notin Done /\ l \notin Done \cup {"dec"}
      BY <1>33, <2>1 DEF Ready, Done
    <2> QED
      BY <1>a, <2>1, <2>2, <2>3, MountRefs DEF Done
  <1>34. CASE TearDown
    <2>1. /\ pc' = [pc EXCEPT ![mnt] = "in?"] /\ pc[mnt] = "tear" /\ holder' = mnt /\ holder = None
          /\ calls' = calls /\ b' = b
      BY <1>34 DEF TearDown
    <2> QED
      BY <1>a, <2>1, MountRefs DEF Done
  <1>35. CASE LoadList
    <2>1. PICK l \in {"unlock", "fail"} : pc' = [pc EXCEPT ![mnt] = l]
      BY <1>35 DEF LoadList
    <2>2. calls' = calls /\ b' = b /\ holder = mnt /\ holder' = mnt
      BY <1>35 DEF LoadList, HoldInv
    <2> QED
      BY <1>a, <2>1, <2>2, MountRefs DEF Done
  <1>36. CASE FailWaiter
    <2>1. PICK l \in {"wake"} : pc' = [pc EXCEPT ![mnt] = l]
      BY <1>36 DEF FailWaiter
    <2>2. calls' = calls /\ b'.refs = b.refs
      BY <1>36, <1>a DEF FailWaiter, BindingType
    <2>3. pc[mnt] \notin Done /\ l \notin Done \cup {"dec"}
      BY <1>36, <2>1 DEF FailWaiter, Done
    <2> QED
      BY <1>a, <2>1, <2>2, <2>3, MountRefs DEF Done
  <1>37. CASE WakeWaiter
    <2>1. PICK l \in {"unlock", "fail"} : pc' = [pc EXCEPT ![mnt] = l]
      BY <1>37 DEF WakeWaiter
    <2>2. calls' = calls /\ b'.refs = b.refs
      BY <1>37, <1>a DEF WakeWaiter, BindingType
    <2>3. pc[mnt] \notin Done /\ l \notin Done \cup {"dec"}
      BY <1>37, <2>1 DEF WakeWaiter, Done
    <2> QED
      BY <1>a, <2>1, <2>2, <2>3, MountRefs DEF Done
  <1>38. CASE MntUnlock
    <2>1. /\ pc' = [pc EXCEPT ![mnt] = "dec"] /\ pc[mnt] = "unlock" /\ holder' = None
          /\ calls' = calls /\ b' = b
      BY <1>38 DEF MntUnlock
    <2>2. holder' # mnt
      BY <2>1
    <2> QED
      BY <1>a, <2>1, <2>2, MountRefs DEF Done
  <1>39. ASSUME NEW q \in Procs, DecRefs(q) PROVE RefsInv'
    <2>1. PICK l \in {"end", "in?"} : pc' = [pc EXCEPT ![q] = l]
      BY <1>39 DEF DecRefs
    <2>2. /\ pc[q] = "dec" /\ b'.refs = b.refs - 1 /\ holder' = holder /\ calls' = calls
      BY <1>39, <1>a DEF DecRefs, BindingType
    <2>3. l \in Done /\ "dec" \notin Done
      BY DEF Done
    <2>4. \A r \in Procs : pc'[r] = IF r = q THEN l ELSE pc[r]
      BY <1>a, <2>1
    <2>5. b.refs \in Int
      BY <1>a DEF BindingType
    <2>6. CASE q = mnt
      <3>1. /\ ~MntDone /\ MntDone' /\ (ClientsDone' <=> ClientsDone) /\ holder' # mnt
        BY <2>2, <2>3, <2>4, <2>6 DEF MntDone, ClientsDone, RefsInv
      <3>2. \A c \in Clients : pc'[c] \in Done \cup {"dec"} =>
              \A d \in Clients \ {c} : pc'[d] = "idle" /\ calls'[d] = MaxCalls
        BY <2>2, <2>4, <2>6 DEF RefsInv
      <3>3. b'.refs = 2 - 1 - (IF ClientsDone' THEN 1 ELSE 0)
        BY <2>2, <2>5, <3>1 DEF RefsInv
      <3> QED
        BY <3>1, <3>2, <3>3 DEF RefsInv
    <2>7. CASE q \in Clients
      <3>1. \A d \in Clients \ {q} : pc[d] = "idle" /\ calls[d] = MaxCalls
        BY <2>2, <2>7 DEF RefsInv
      <3>2. ~ClientsDone /\ ClientsDone' /\ (MntDone' <=> MntDone) /\ pc'[mnt] = pc[mnt]
        BY <2>2, <2>3, <2>4, <2>7, <3>1 DEF MntDone, ClientsDone, Done
      <3>3. \A c \in Clients : pc'[c] \in Done \cup {"dec"} =>
              \A d \in Clients \ {c} : pc'[d] = "idle" /\ calls'[d] = MaxCalls
        <4>1. \A c \in Clients \ {q} : pc'[c] = "idle"
          BY <2>4, <3>1
        <4>2. \A c \in Clients : pc'[c] \in Done \cup {"dec"} => c = q
          BY <4>1 DEF Done
        <4> QED
          BY <2>2, <3>1, <4>1, <4>2
      <3>4. b'.refs = 2 - (IF MntDone' THEN 1 ELSE 0) - 1
        BY <2>2, <2>5, <3>2 DEF RefsInv
      <3> QED
        BY <2>2, <3>2, <3>3, <3>4 DEF RefsInv
    <2> QED
      BY <2>6, <2>7
  <1>40. ASSUME NEW q \in Procs, FreeEnds(q) PROVE RefsInv'
    <2>1. /\ b'.refs = b.refs /\ holder' = holder /\ calls' = calls
          /\ pc[q] \in Done
      BY <1>40, <1>a DEF FreeEnds, TestEnd, CloseEnd, ClearEnd, BindingType, Done
    <2>2. pc' \in {[pc EXCEPT ![q] = l] : l \in {"close in", "nil in", "out?", "close out", "nil out", AfterEnds(q)}}
      BY <1>40 DEF FreeEnds, TestEnd, CloseEnd, ClearEnd
    <2>3. PICK l \in {"close in", "nil in", "out?", "close out", "nil out", AfterEnds(q)} :
            pc' = [pc EXCEPT ![q] = l]
      BY <2>2
    <2>4. l \in Done /\ l \notin {"dec", "end"} /\ (l = "last" => holder # q)
      BY DEF AfterEnds, Done
    <2>5. CASE q = mnt
      BY <1>a, <2>1, <2>3, <2>4, <2>5, MountRefs
    <2>6. CASE q \in Clients
      BY <1>a, <2>1, <2>3, <2>4, <2>6, LastRefs
    <2> QED
      BY <2>5, <2>6
  <1>41. ASSUME NEW q \in Procs, FreeBinding(q) PROVE RefsInv'
    <2>1. /\ b' = b /\ holder' = holder /\ calls' = calls /\ pc[q] = "last"
          /\ pc' = [pc EXCEPT ![q] = "end"]
      BY <1>41 DEF FreeBinding
    <2>2. pc[q] \in Done /\ "end" \in Done
      BY <2>1 DEF Done
    <2>3. CASE q = mnt
      <3>1. holder # mnt
        BY <2>1, <2>3 DEF RefsInv
      <3> QED
        BY <1>a, <2>1, <2>2, <2>3, <3>1, MountRefs
    <2>4. CASE q \in Clients
      BY <1>a, <2>1, <2>2, <2>4, LastRefs
    <2> QED
      BY <2>3, <2>4
  <1>42. ASSUME NEW q \in Procs, Undefined(q) PROVE RefsInv'
    <2>1. pc' = pc /\ b' = b /\ holder' = holder /\ calls' = calls
      BY <1>42 DEF Undefined
    <2> QED
      BY <2>1 DEF RefsInv, MntDone, ClientsDone
  <1>43. CASE WakesAstray
    <2>1. pc' = pc /\ b' = b /\ holder' = holder /\ calls' = calls
      BY <1>43 DEF WakesAstray
    <2> QED
      BY <2>1 DEF RefsInv, MntDone, ClientsDone
  <1> QED
    BY <1>1, <1>2, <1>3, <1>4, <1>5, <1>6, <1>7, <1>8, <1>9, <1>10, <1>11, <1>12, <1>13, <1>14, <1>15, <1>16, <1>17, <1>18, <1>19, <1>20, <1>21, <1>22, <1>23, <1>24, <1>25, <1>26, <1>27, <1>28, <1>29, <1>30, <1>31, <1>32, <1>33, <1>34, <1>35, <1>36, <1>37, <1>38, <1>39, <1>40, <1>41, <1>42, <1>43
       DEF Next, Asks, Server, Mounts, Frees

LEMMA InitTypes == Init => AllTypes
  <1> SUFFICES ASSUME Init PROVE AllTypes
    OBVIOUS
  <1>1. PlainInv
    BY DEF Init, PlainInv
  <1>2. NumberInv
    <2>1. Made \subseteq Clients \X (1..MaxCalls) /\ b.nreqid = 0
      BY DEF Init, Made
    <2> QED
      BY <2>1, MadeBound DEF NumberInv
  <1>3. BoundInv
    <2>1. tresp.rid \in 0..MaxRid
      BY StaleAssumption DEF Init
    <2>2. MaxRid \in Nat /\ ELINK \in Nat /\ tresp.rid <= MaxRid
      BY <2>1, ElinkType
    <2> QED
      BY <2>2 DEF Init, BoundInv, NoTrans, Idle
  <1>4. RefsInv
    BY DEF Init, RefsInv, MntDone, ClientsDone, Done
  <1> QED
    BY <1>1, <1>2, <1>3, <1>4, InitIInv DEF AllTypes

LEMMA TypesKept == AllTypes /\ [Next]_vars => AllTypes'
  <1> SUFFICES ASSUME AllTypes, [Next]_vars PROVE AllTypes'
    OBVIOUS
  <1>1. CASE UNCHANGED vars
    <2>1. IInv'
      BY <1>1, Inductive DEF AllTypes
    <2>2. PlainInv'
      BY <1>1 DEF AllTypes, PlainInv, vars
    <2>3. NumberInv'
      BY <1>1 DEF AllTypes, NumberInv, Made, vars
    <2>4. BoundInv'
      BY <1>1 DEF AllTypes, BoundInv, vars
    <2>5. RefsInv'
      BY <1>1 DEF AllTypes, RefsInv, MntDone, ClientsDone, vars
    <2> QED
      BY <2>1, <2>2, <2>3, <2>4, <2>5 DEF AllTypes
  <1>2. CASE Next
    <2>1. TypeInv /\ PtrInv /\ HoldInv
      BY DEF AllTypes, IInv
    <2>2. IInv' /\ PlainInv' /\ NumberInv' /\ RefsInv'
      BY <1>2, <2>1, Inductive, PlainStep, NumberStep, RefsStep DEF AllTypes
    <2>3. BoundInv'
      BY <1>2, <2>1, <2>2, BoundStep DEF AllTypes
    <2> QED
      BY <2>2, <2>3 DEF AllTypes
  <1> QED
    BY <1>1, <1>2

(* The binding, the transactions and the locals keep their types and       *)
(* bounds: numbers do not outrun the calls, and each side gives up its     *)
(* reference to the binding once.                                          *)
THEOREM MountTyped == Spec => []TypeOK
  <1>1. AllTypes => TypeOK
    <2> SUFFICES ASSUME AllTypes PROVE TypeOK
      OBVIOUS
    <2>1. /\ MaxRid \in Nat /\ ELINK \in Nat /\ TypeInv
      BY ElinkType DEF AllTypes, IInv
    <2>2. b.nreqid <= MaxRid
      <3>1. Made \subseteq Clients \X (1..MaxCalls)
        BY DEF Made
      <3>2. b.nreqid \in Nat
        BY <2>1 DEF TypeInv, BindingType
      <3> QED
        BY <2>1, <3>1, <3>2, MadeBound DEF AllTypes, NumberInv
    <2>3. b.refs \in 0..2
      BY DEF AllTypes, RefsInv
    <2>4. b \in [waiting : Clients \cup {None}, nreqid : 0..MaxRid, refs : 0..2, ends : SUBSET {"in", "out"}]
      BY <2>1, <2>2, <2>3 DEF TypeInv, BindingType
    <2>5. trans \in [Clients -> [kind : {"read", "write", "other"}, rid : 0..MaxRid,
                                 next : Clients \cup {None}, served : BOOLEAN, resp : 0..ELINK]]
      <3> SUFFICES ASSUME NEW c \in Clients
                   PROVE  trans[c] \in [kind : {"read", "write", "other"}, rid : 0..MaxRid,
                                 next : Clients \cup {None}, served : BOOLEAN, resp : 0..ELINK]
        BY <2>1 DEF TypeInv
      <3>1. trans[c] \in TransType /\ trans[c].rid <= MaxRid /\ trans[c].resp <= ELINK
        BY <2>1 DEF TypeInv, AllTypes, BoundInv
      <3> QED
        BY <2>1, <3>1 DEF TransType
    <2>6. tresp.rid \in 0..MaxRid /\ srv.rid \in 0..MaxRid
      BY <2>1 DEF AllTypes, BoundInv, TypeInv
    <2>7. {t, p} \cup {n[q] : q \in Procs} \subseteq Clients \cup {None}
      BY <2>1 DEF TypeInv
    <2> QED
      BY <2>1, <2>4, <2>5, <2>6, <2>7 DEF TypeOK, AllTypes, PlainInv, TypeInv
  <1> QED
    BY InitTypes, TypesKept, <1>1, PTL DEF Spec
-----------------------------------------------------------------------------
(* What makes the list of requests reliable, as long as mountproc() wakes  *)
(* nobody who sleeps for something else.                                   *)
Calling == {"test", "number", "load", "push", "lock", "write", "head", "data", "unlock", "failed",
            "check", "sleep", "asleep", "fail", "dead"}
Sent == {"data", "unlock", "check", "sleep", "asleep"}
Serving == {"loop", "read", "reading", "find", "walk", "remove", "copy", "data", "serve", "ready"}

(* No client is in a call, and none will call again.                       *)
AllOver == \A c \in Clients : pc[c] \notin Calling /\ (pc[c] = "idle" => calls[c] = MaxCalls)
Busy == ~gone /\ ~AllOver

(* As long as somebody calls, the mount is not given up.                   *)
LifeInv == /\ pc[mnt] \in Serving /\ b.refs = 2 /\ b.ends = {"in", "out"} /\ closed = {}
           /\ \A c \in Clients : pc[c] \in {"idle"} \cup (Calling \ {"failed", "fail", "dead"})

(* What the transaction of a client says of it.                            *)
ClientInv(c) == /\ trans[c].resp # 0 => pc[c] \in Sent
                /\ trans[c].resp = 0 => ~trans[c].served
                /\ trans[c].resp # 0 => trans[c].served \/ (t = c /\ pc[mnt] \in {"data", "serve"})
                /\ pc[c] = "asleep" /\ ~trans[c].served => state[c] = "waiting"
                /\ pc[c] = "push" => trans[c].next = n[c]

(* Requests have numbers of their own.                                     *)
Numbered(c) == pc[c] \notin {"idle", "test", "number"}
RidInv == \A c \in Clients : Numbered(c) =>
            /\ 1 <= trans[c].rid /\ trans[c].rid <= b.nreqid
            /\ \A d \in Clients \ {c} : Numbered(d) => trans[d].rid # trans[c].rid

(* The requests that nobody has answered or is answering.                  *)
Pending == {c \in Clients : InCall(c) /\ trans[c].resp = 0 /\ ~(t = c /\ pc[mnt] = "copy")}

(* The list from f along nx has all of P, each once, and nothing else.     *)
Leads(f, nx, X) == f \in X \cup {None} /\ \A c \in X : nx[c] \in X \cup {None}
ListOf(f, nx, P) ==
  /\ Leads(f, nx, P)
  /\ \A X \in SUBSET P : Leads(f, nx, X) => X = P
  /\ \A c \in P : nx[c] # None => nx[c] # f /\ \A d \in P \ {c} : nx[d] # nx[c]
NextOf == [c \in Clients |-> trans[c].next]
ListInv == ListOf(b.waiting, NextOf, Pending)

(* The request the server works on, and the one that mountproc() has read  *)
(* the answer of, are two that were sent and have no answer yet.           *)
Asked(rid) == \E c \in Clients : /\ InCall(c) /\ pc[c] \in Sent /\ trans[c].resp = 0
                                 /\ trans[c].rid = rid
AskedInv ==
  /\ srv.at \in {"more", "work"} => Asked(srv.rid)
  /\ pc[mnt] \in {"find", "walk", "remove", "copy"} =>
       Asked(tresp.rid) /\ (srv.at \in {"more", "work"} => srv.rid # tresp.rid)

(* mountproc() has gone past W, and what it looks for is not there.        *)
Past(W) == /\ b.waiting \in W \cup {t, None}
           /\ \A d \in W : trans[d].next \in W \cup {t, None} /\ trans[d].rid # tresp.rid
WalkInv ==
  /\ pc[mnt] = "walk" => /\ {t, p} \subseteq Pending \cup {None}
                         /\ \E W \in SUBSET Pending : Past(W)
  /\ pc[mnt] = "remove" => /\ t \in Pending /\ p \in Pending \cup {None}
                           /\ n[mnt] = trans[t].next /\ trans[t].rid = tresp.rid
  /\ pc[mnt] = "copy" => t \in Clients /\ InCall(t) /\ trans[t].resp = 0 /\ trans[t].rid = tresp.rid
  /\ pc[mnt] \in {"data", "serve"} =>
       t \in Clients /\ InCall(t) /\ trans[t].resp # 0 /\ ~trans[t].served
  /\ pc[mnt] = "ready" => t \in Clients

CallsInv == LifeInv /\ (\A c \in Clients : ClientInv(c)) /\ RidInv
FoundInv == CallsInv /\ ListInv /\ AskedInv /\ WalkInv
BusyInv == Busy => FoundInv

(* Putting y in front of a list.                                           *)
LEMMA ListPush ==
  ASSUME NEW P, NEW f, NEW nx, NEW mx, NEW y, None \notin P \cup {y}, y \notin P,
         ListOf(f, nx, P), mx[y] = f, \A c \in P : mx[c] = nx[c]
  PROVE  ListOf(y, mx, P \cup {y})
  <1>1. Leads(y, mx, P \cup {y})
    BY DEF ListOf, Leads
  <1>2. ASSUME NEW X \in SUBSET (P \cup {y}), Leads(y, mx, X) PROVE X = P \cup {y}
    <2>1. y \in X
      BY <1>2 DEF Leads
    <2>2. Leads(f, nx, X \ {y})
      <3>1. f \in (X \ {y}) \cup {None}
        BY <1>2, <2>1 DEF ListOf, Leads
      <3>2. ASSUME NEW c \in X \ {y} PROVE nx[c] \in (X \ {y}) \cup {None}
        BY <1>2 DEF ListOf, Leads
      <3> QED
        BY <3>1, <3>2 DEF Leads
    <2>3. X \ {y} = P
      BY <1>2, <2>2 DEF ListOf
    <2> QED
      BY <2>1, <2>3
  <1>3. ASSUME NEW c \in P \cup {y}, mx[c] # None
        PROVE  mx[c] # y /\ \A d \in (P \cup {y}) \ {c} : mx[d] # mx[c]
    <2>1. \A e \in P \cup {y} : mx[e] \in P \cup {None}
      BY DEF ListOf, Leads
    <2>2. mx[c] # y
      BY <2>1
    <2>3. ASSUME NEW d \in (P \cup {y}) \ {c} PROVE mx[d] # mx[c]
      <3>1. CASE c = y
        BY <1>3, <3>1, <2>3 DEF ListOf
      <3>2. CASE c # y /\ d = y
        BY <1>3, <3>2 DEF ListOf
      <3>3. CASE c # y /\ d # y
        BY <1>3, <2>3, <3>3 DEF ListOf
      <3> QED
        BY <3>1, <3>2, <3>3
    <2> QED
      BY <2>2, <2>3
  <1> QED
    BY <1>1, <1>2, <1>3 DEF ListOf

(* No member of a list is its own successor.                               *)
LEMMA NoLoop ==
  ASSUME NEW P, NEW f, NEW nx, ListOf(f, nx, P), NEW x \in P, None \notin P
  PROVE  nx[x] # x
  <1> SUFFICES ASSUME nx[x] = x PROVE FALSE
    OBVIOUS
  <1>1. x # f /\ \A d \in P \ {x} : nx[d] # x
    BY DEF ListOf
  <1>2. Leads(f, nx, P \ {x})
    BY <1>1 DEF ListOf, Leads
  <1>3. P \ {x} = P
    BY <1>2 DEF ListOf
  <1> QED
    BY <1>3

(* Taking the first off a list.                                            *)
LEMMA ListPop ==
  ASSUME NEW P, NEW f \in P, NEW nx, None \notin P, ListOf(f, nx, P)
  PROVE  ListOf(nx[f], nx, P \ {f})
  <1>1. nx[f] # f
    BY NoLoop
  <1>2. \A c \in P : nx[c] # f
    BY DEF ListOf
  <1>3. Leads(nx[f], nx, P \ {f})
    BY <1>1, <1>2 DEF ListOf, Leads
  <1>4. ASSUME NEW X \in SUBSET (P \ {f}), Leads(nx[f], nx, X) PROVE X = P \ {f}
    <2>1. Leads(f, nx, X \cup {f})
      BY <1>4 DEF Leads
    <2>2. X \cup {f} = P
      BY <2>1 DEF ListOf
    <2> QED
      BY <2>2
  <1>5. \A c \in P \ {f} : nx[c] # None => nx[c] # nx[f] /\ \A d \in (P \ {f}) \ {c} : nx[d] # nx[c]
    BY DEF ListOf
  <1> QED
    BY <1>3, <1>4, <1>5 DEF ListOf

(* Taking x, which comes after z, out of a list.                           *)
LEMMA ListUnlink ==
  ASSUME NEW P, NEW f, NEW nx, NEW mx, NEW x \in P, NEW z \in P, None \notin P, ListOf(f, nx, P),
         nx[z] = x, mx[z] = nx[x], \A c \in P \ {z} : mx[c] = nx[c]
  PROVE  ListOf(f, mx, P \ {x})
  <1>1. nx[x] # x /\ nx[z] # z /\ z # x
    BY NoLoop
  <1>2. x # f /\ \A c \in P \ {z} : nx[c] # x
    BY DEF ListOf
  <1>3. Leads(f, mx, P \ {x})
    <2>1. f \in (P \ {x}) \cup {None}
      BY <1>2 DEF ListOf, Leads
    <2>2. ASSUME NEW c \in P \ {x} PROVE mx[c] \in (P \ {x}) \cup {None}
      <3>1. CASE c = z
        BY <1>1, <3>1 DEF ListOf, Leads
      <3>2. CASE c # z
        BY <1>2, <3>2 DEF ListOf, Leads
      <3> QED
        BY <3>1, <3>2
    <2> QED
      BY <2>1, <2>2 DEF Leads
  <1>4. ASSUME NEW X \in SUBSET (P \ {x}), Leads(f, mx, X) PROVE X = P \ {x}
    <2>1. Leads(f, nx, X \cup {x}) \/ Leads(f, nx, X)
      <3>1. f \in X \cup {None}
        BY <1>4 DEF Leads
      <3>2. \A c \in X \ {z} : nx[c] \in X \cup {None}
        BY <1>4 DEF Leads
      <3>3. CASE z \in X
        <4>1. nx[x] \in X \cup {None}
          BY <1>4, <3>3 DEF Leads
        <4>2. \A c \in X \cup {x} : nx[c] \in X \cup {x} \cup {None}
          BY <3>2, <4>1
        <4> QED
          BY <3>1, <4>2 DEF Leads
      <3>4. CASE z \notin X
        BY <3>1, <3>2, <3>4 DEF Leads
      <3> QED
        BY <3>3, <3>4
    <2>2. X \cup {x} = P \/ X = P
      BY <2>1 DEF ListOf
    <2> QED
      BY <2>2
  <1>5. ASSUME NEW c \in P \ {x}, mx[c] # None
        PROVE  mx[c] # f /\ \A d \in (P \ {x}) \ {c} : mx[d] # mx[c]
    <2>1. mx[c] = IF c = z THEN nx[x] ELSE nx[c]
      OBVIOUS
    <2>2. mx[c] # f
      BY <1>5, <2>1 DEF ListOf
    <2>3. ASSUME NEW d \in (P \ {x}) \ {c} PROVE mx[d] # mx[c]
      <3>1. mx[d] = IF d = z THEN nx[x] ELSE nx[d]
        OBVIOUS
      <3>2. \A g \in P : nx[g] # None => \A h \in P \ {g} : nx[h] # nx[g]
        BY DEF ListOf
      <3>3. CASE c = z
        BY <1>5, <2>1, <2>3, <3>1, <3>2, <3>3
      <3>4. CASE c # z
        BY <1>5, <2>1, <2>3, <3>1, <3>2, <3>4
      <3> QED
        BY <3>3, <3>4
    <2> QED
      BY <2>2, <2>3
  <1> QED
    BY <1>3, <1>4, <1>5 DEF ListOf

(* A list depends on the successors of its members only.                   *)
LEMMA ListSame ==
  ASSUME NEW P, NEW f, NEW nx, NEW mx, ListOf(f, nx, P), \A c \in P : mx[c] = nx[c]
  PROVE  ListOf(f, mx, P)
  <1>1. Leads(f, mx, P)
    BY DEF ListOf, Leads
  <1>2. ASSUME NEW X \in SUBSET P, Leads(f, mx, X) PROVE X = P
    <2>1. Leads(f, nx, X)
      BY <1>2 DEF Leads
    <2> QED
      BY <2>1 DEF ListOf
  <1>3. \A c \in P : mx[c] # None => mx[c] # f /\ \A d \in P \ {c} : mx[d] # mx[c]
    BY DEF ListOf
  <1> QED
    BY <1>1, <1>2, <1>3 DEF ListOf

LEMMA NotLess == \A x \in Nat : ~(x < x)
  OBVIOUS

(* The end of all calls is for good. *)
LEMMA OverStays ==
  ASSUME TypeInv, Next, AllOver
  PROVE  AllOver'
  <1> USE DEF TypeInv, Labels, AllOver, Calling, At, Goto, Rest, MntUnchanged
  <1>1. ASSUME NEW c \in Clients, NEW k \in Kinds, Call(c, k) PROVE AllOver'
    <2>1. pc[c] = "idle" /\ calls[c] < MaxCalls
      BY <1>1 DEF Call
    <2>2. MaxCalls < MaxCalls /\ MaxCalls \in Nat
      BY <2>1
    <2>3. FALSE
      BY <2>2, NotLess
    <2> QED
      BY <2>3
  <1>2. ASSUME NEW c \in Clients, TestOut(c) PROVE AllOver'
    BY <1>2 DEF TestOut
  <1>3. ASSUME NEW c \in Clients, Number(c) PROVE AllOver'
    BY <1>3 DEF Number
  <1>4. ASSUME NEW c \in Clients, LoadWaiting(c) PROVE AllOver'
    BY <1>4 DEF LoadWaiting
  <1>5. ASSUME NEW c \in Clients, Push(c) PROVE AllOver'
    BY <1>5 DEF Push
  <1>6. ASSUME NEW c \in Clients, PushFails(c) PROVE AllOver'
    BY <1>6 DEF PushFails
  <1>7. ASSUME NEW c \in Clients, Lock(c) PROVE AllOver'
    BY <1>7 DEF Lock
  <1>8. ASSUME NEW c \in Clients, Write(c) PROVE AllOver'
    BY <1>8 DEF Write
  <1>9. ASSUME NEW c \in Clients, WriteFails(c) PROVE AllOver'
    BY <1>9 DEF WriteFails
  <1>10. ASSUME NEW c \in Clients, DataFails(c) PROVE AllOver'
    BY <1>10 DEF DataFails
  <1>11. ASSUME NEW c \in Clients, Unlock(c) PROVE AllOver'
    BY <1>11 DEF Unlock
  <1>12. ASSUME NEW c \in Clients, Check(c) PROVE AllOver'
    BY <1>12 DEF Check
  <1>13. ASSUME NEW c \in Clients, Sleep(c) PROVE AllOver'
    BY <1>13 DEF Sleep
  <1>14. ASSUME NEW c \in Clients, Return(c) PROVE AllOver'
    BY <1>14 DEF Return, NoTrans
  <1>15. ASSUME NEW c \in Clients, Drop(c) PROVE AllOver'
    BY <1>15 DEF Drop
  <1>16. ASSUME NEW c \in Clients, ReadRequest(c) PROVE AllOver'
    BY <1>16 DEF ReadRequest
  <1>17. ASSUME NEW c \in Clients, ReadData(c) PROVE AllOver'
    BY <1>17 DEF ReadData
  <1>18. ASSUME NEW ok \in BOOLEAN, Respond(ok) PROVE AllOver'
    BY <1>18 DEF Respond
  <1>19. CASE RespondData
    BY <1>19 DEF RespondData
  <1>20. CASE Quit
    BY <1>20 DEF Quit
  <1>21. CASE Loop
    BY <1>21 DEF Loop
  <1>22. CASE Read
    BY <1>22 DEF Read
  <1>23. CASE ReadFails
    BY <1>23 DEF ReadFails
  <1>24. CASE Find
    BY <1>24 DEF Find
  <1>25. CASE Walk
    BY <1>25 DEF Walk
  <1>26. CASE NoWaiter
    BY <1>26 DEF NoWaiter
  <1>27. CASE Found
    BY <1>27 DEF Found
  <1>28. CASE Remove
    BY <1>28 DEF Remove
  <1>29. CASE RemoveFails
    BY <1>29 DEF RemoveFails
  <1>30. CASE Copy
    BY <1>30 DEF Copy
  <1>31. CASE DataMissing
    BY <1>31 DEF DataMissing
  <1>32. CASE Served
    BY <1>32 DEF Served
  <1>33. CASE Ready
    BY <1>33 DEF Ready
  <1>34. CASE TearDown
    BY <1>34 DEF TearDown
  <1>35. CASE LoadList
    BY <1>35 DEF LoadList
  <1>36. CASE FailWaiter
    BY <1>36 DEF FailWaiter
  <1>37. CASE WakeWaiter
    BY <1>37 DEF WakeWaiter
  <1>38. CASE MntUnlock
    BY <1>38 DEF MntUnlock
  <1>39. ASSUME NEW q \in Procs, DecRefs(q) PROVE AllOver'
    BY <1>39 DEF DecRefs
  <1>40. ASSUME NEW q \in Procs, FreeEnds(q) PROVE AllOver'
    <2>1. CASE TestEnd(q, "in", "in?", "close in", "out?")
      BY <1>40, <2>1 DEF TestEnd
    <2>2. CASE CloseEnd(q, "in", "close in", "nil in")
      BY <1>40, <2>2 DEF CloseEnd
    <2>3. CASE ClearEnd(q, "in", "nil in", "out?")
      BY <1>40, <2>3 DEF ClearEnd
    <2>4. CASE TestEnd(q, "out", "out?", "close out", AfterEnds(q))
      BY <1>40, <2>4 DEF TestEnd, AfterEnds
    <2>5. CASE CloseEnd(q, "out", "close out", "nil out")
      BY <1>40, <2>5 DEF CloseEnd
    <2>6. CASE ClearEnd(q, "out", "nil out", AfterEnds(q))
      BY <1>40, <2>6 DEF ClearEnd, AfterEnds
    <2> QED
      BY <1>40, <2>1, <2>2, <2>3, <2>4, <2>5, <2>6 DEF FreeEnds
  <1>41. ASSUME NEW q \in Procs, FreeBinding(q) PROVE AllOver'
    BY <1>41 DEF FreeBinding
  <1>42. ASSUME NEW q \in Procs, Undefined(q) PROVE AllOver'
    BY <1>42 DEF Undefined
  <1>43. CASE WakesAstray
    BY <1>43 DEF WakesAstray
  <1> QED
    BY <1>1, <1>2, <1>3, <1>4, <1>5, <1>6, <1>7, <1>8, <1>9, <1>10, <1>11, <1>12, <1>13, <1>14, <1>15, <1>16, <1>17, <1>18, <1>19, <1>20, <1>21, <1>22, <1>23, <1>24, <1>25, <1>26, <1>27, <1>28, <1>29, <1>30, <1>31, <1>32, <1>33, <1>34, <1>35, <1>36, <1>37, <1>38, <1>39, <1>40, <1>41, <1>42, <1>43
       DEF Next, Asks, Server, Mounts, Frees

(* Somebody calls now if somebody calls afterwards.                        *)
LEMMA BusyBefore ==
  ASSUME TypeInv, Next, Busy'
  PROVE  Busy
  <1>1. ~gone
    <2> SUFFICES ASSUME gone PROVE gone'
      BY DEF Busy
    <2> USE DEF Rest, MntUnchanged
    <2>1. ASSUME NEW c \in Clients, NEW k \in Kinds, Call(c, k) PROVE gone'
      BY <2>1 DEF Call
    <2>2. ASSUME NEW c \in Clients, TestOut(c) PROVE gone'
      BY <2>2 DEF TestOut
    <2>3. ASSUME NEW c \in Clients, Number(c) PROVE gone'
      BY <2>3 DEF Number
    <2>4. ASSUME NEW c \in Clients, LoadWaiting(c) PROVE gone'
      BY <2>4 DEF LoadWaiting
    <2>5. ASSUME NEW c \in Clients, Push(c) PROVE gone'
      BY <2>5 DEF Push
    <2>6. ASSUME NEW c \in Clients, PushFails(c) PROVE gone'
      BY <2>6 DEF PushFails
    <2>7. ASSUME NEW c \in Clients, Lock(c) PROVE gone'
      BY <2>7 DEF Lock
    <2>8. ASSUME NEW c \in Clients, Write(c) PROVE gone'
      BY <2>8 DEF Write
    <2>9. ASSUME NEW c \in Clients, WriteFails(c) PROVE gone'
      BY <2>9 DEF WriteFails
    <2>10. ASSUME NEW c \in Clients, DataFails(c) PROVE gone'
      BY <2>10 DEF DataFails
    <2>11. ASSUME NEW c \in Clients, Unlock(c) PROVE gone'
      BY <2>11 DEF Unlock
    <2>12. ASSUME NEW c \in Clients, Check(c) PROVE gone'
      BY <2>12 DEF Check
    <2>13. ASSUME NEW c \in Clients, Sleep(c) PROVE gone'
      BY <2>13 DEF Sleep
    <2>14. ASSUME NEW c \in Clients, Return(c) PROVE gone'
      BY <2>14 DEF Return
    <2>15. ASSUME NEW c \in Clients, Drop(c) PROVE gone'
      BY <2>15 DEF Drop
    <2>16. ASSUME NEW c \in Clients, ReadRequest(c) PROVE gone'
      BY <2>16 DEF ReadRequest
    <2>17. ASSUME NEW c \in Clients, ReadData(c) PROVE gone'
      BY <2>17 DEF ReadData
    <2>18. ASSUME NEW ok \in BOOLEAN, Respond(ok) PROVE gone'
      BY <2>18 DEF Respond
    <2>19. CASE RespondData
      BY <2>19 DEF RespondData
    <2>20. CASE Quit
      BY <2>20 DEF Quit
    <2>21. CASE Loop
      BY <2>21 DEF Loop
    <2>22. CASE Read
      BY <2>22 DEF Read
    <2>23. CASE ReadFails
      BY <2>23 DEF ReadFails
    <2>24. CASE Find
      BY <2>24 DEF Find
    <2>25. CASE Walk
      BY <2>25 DEF Walk
    <2>26. CASE NoWaiter
      BY <2>26 DEF NoWaiter
    <2>27. CASE Found
      BY <2>27 DEF Found
    <2>28. CASE Remove
      BY <2>28 DEF Remove
    <2>29. CASE RemoveFails
      BY <2>29 DEF RemoveFails
    <2>30. CASE Copy
      BY <2>30 DEF Copy
    <2>31. CASE DataMissing
      BY <2>31 DEF DataMissing
    <2>32. CASE Served
      BY <2>32 DEF Served
    <2>33. CASE Ready
      BY <2>33 DEF Ready
    <2>34. CASE TearDown
      BY <2>34 DEF TearDown
    <2>35. CASE LoadList
      BY <2>35 DEF LoadList
    <2>36. CASE FailWaiter
      BY <2>36 DEF FailWaiter
    <2>37. CASE WakeWaiter
      BY <2>37 DEF WakeWaiter
    <2>38. CASE MntUnlock
      BY <2>38 DEF MntUnlock
    <2>39. ASSUME NEW q \in Procs, DecRefs(q) PROVE gone'
      BY <2>39 DEF DecRefs
    <2>40. ASSUME NEW q \in Procs, FreeEnds(q) PROVE gone'
      <3>1. CASE TestEnd(q, "in", "in?", "close in", "out?")
        BY <2>40, <3>1 DEF TestEnd
      <3>2. CASE CloseEnd(q, "in", "close in", "nil in")
        BY <2>40, <3>2 DEF CloseEnd
      <3>3. CASE ClearEnd(q, "in", "nil in", "out?")
        BY <2>40, <3>3 DEF ClearEnd
      <3>4. CASE TestEnd(q, "out", "out?", "close out", AfterEnds(q))
        BY <2>40, <3>4 DEF TestEnd, AfterEnds
      <3>5. CASE CloseEnd(q, "out", "close out", "nil out")
        BY <2>40, <3>5 DEF CloseEnd
      <3>6. CASE ClearEnd(q, "out", "nil out", AfterEnds(q))
        BY <2>40, <3>6 DEF ClearEnd, AfterEnds
      <3> QED
        BY <2>40, <3>1, <3>2, <3>3, <3>4, <3>5, <3>6 DEF FreeEnds
    <2>41. ASSUME NEW q \in Procs, FreeBinding(q) PROVE gone'
      BY <2>41 DEF FreeBinding
    <2>42. ASSUME NEW q \in Procs, Undefined(q) PROVE gone'
      BY <2>42 DEF Undefined
    <2>43. CASE WakesAstray
      BY <2>43 DEF WakesAstray
    <2> QED
      BY <2>1, <2>2, <2>3, <2>4, <2>5, <2>6, <2>7, <2>8, <2>9, <2>10, <2>11, <2>12, <2>13, <2>14, <2>15, <2>16, <2>17, <2>18, <2>19, <2>20, <2>21, <2>22, <2>23, <2>24, <2>25, <2>26, <2>27, <2>28, <2>29, <2>30, <2>31, <2>32, <2>33, <2>34, <2>35, <2>36, <2>37, <2>38, <2>39, <2>40, <2>41, <2>42, <2>43
         DEF Next, Asks, Server, Mounts, Frees
  <1>2. ~AllOver
    BY OverStays DEF Busy
  <1> QED
    BY <1>1, <1>2 DEF Busy

InLabels == {"lock", "write", "head", "data", "unlock", "failed", "check", "sleep", "asleep"}

(* A step of y from one place of its call to the next, which changes no    *)
(* transaction and takes no lock of the list.                              *)
LEMMA ClientMoves ==
  ASSUME TypeInv, FoundInv, NEW y \in Clients, NEW l,
         pc' = [pc EXCEPT ![y] = l], pc[y] # "idle",
         l \in Calling \ {"push", "failed", "fail", "dead"},
         pc[y] \in InLabels <=> l \in InLabels,
         pc[y] \in {"test", "number"} <=> l \in {"test", "number"},
         pc[y] \in Sent => l \in Sent,
         UNCHANGED <<b, closed, trans, calls, t, p, tresp>>,
         n'[mnt] = n[mnt], \A c \in Clients \ {y} : n'[c] = n[c],
         \A c \in Clients \ {y} : state'[c] = state[c],
         l = "asleep" => trans[y].served \/ state'[y] = "waiting",
         srv'.at \in {"more", "work"} =>
            /\ Asked(srv'.rid) \/ (trans[y].rid = srv'.rid /\ trans[y].resp = 0 /\ l \in Sent)
            /\ pc[mnt] \in {"find", "walk", "remove", "copy"} => srv'.rid # tresp.rid
  PROVE  FoundInv'
  <1> USE DEF FoundInv, CallsInv
  <1>1. /\ \A c \in Clients : pc'[c] = IF c = y THEN l ELSE pc[c]
        /\ pc'[mnt] = pc[mnt]
    BY DEF TypeInv
  <1>2. \A c \in Clients : InCall(c)' <=> InCall(c)
    BY <1>1 DEF InCall, InLabels
  <1>3. Pending' = Pending
    BY <1>1, <1>2 DEF Pending
  <1>4. LifeInv'
    <2>1. pc[mnt] \in Serving
      BY DEF LifeInv
    <2>2. \A c \in Clients : pc[c] \in {"idle"} \cup (Calling \ {"failed", "fail", "dead"})
      BY DEF LifeInv
    <2>3. \A c \in Clients : pc'[c] \in {"idle"} \cup (Calling \ {"failed", "fail", "dead"})
      BY <1>1, <2>2
    <2> QED
      BY <1>1, <2>1, <2>3 DEF LifeInv
  <1>5. \A c \in Clients : ClientInv(c)'
    <2> SUFFICES ASSUME NEW c \in Clients PROVE ClientInv(c)'
      OBVIOUS
    <2>1. ClientInv(c) /\ ClientInv(y)
      OBVIOUS
    <2>2. CASE c = y
      BY <1>1, <2>1, <2>2 DEF ClientInv, Calling
    <2>3. CASE c # y
      BY <1>1, <2>1, <2>3 DEF ClientInv
    <2> QED
      BY <2>2, <2>3
  <1>6. RidInv'
    <2>1. \A c \in Clients : Numbered(c)' <=> Numbered(c)
      BY <1>1 DEF Numbered, Calling
    <2> QED
      BY <2>1 DEF RidInv
  <1>7. ListInv'
    BY <1>3 DEF ListInv, NextOf
  <1>8. \A r : Asked(r) => Asked(r)'
    BY <1>1, <1>2 DEF Asked
  <1>9. AskedInv'
    <2>1. l \in Sent => InCall(y)'
      BY <1>1 DEF InCall, Sent
    <2>2. ASSUME trans[y].rid = srv'.rid, trans[y].resp = 0, l \in Sent
          PROVE  Asked(srv.rid)'
      <3>1. InCall(y)' /\ pc'[y] \in Sent /\ trans'[y].resp = 0 /\ trans'[y].rid = srv'.rid
        BY <1>1, <2>1, <2>2
      <3> QED
        BY <3>1 DEF Asked
    <2>3. Asked(srv'.rid) => Asked(srv.rid)'
      <3> SUFFICES ASSUME NEW r, r = srv'.rid, Asked(r) PROVE Asked(srv.rid)'
        OBVIOUS
      <3>1. PICK c \in Clients : InCall(c)' /\ pc'[c] \in Sent /\ trans'[c].resp = 0 /\ trans'[c].rid = r
        BY <1>8 DEF Asked
      <3> QED
        BY <3>1 DEF Asked
    <2>4. srv'.at \in {"more", "work"} => Asked(srv.rid)'
      BY <2>2, <2>3
    <2>5. pc[mnt] \in {"find", "walk", "remove", "copy"} => Asked(tresp.rid)'
      <3> SUFFICES ASSUME NEW r, r = tresp.rid, Asked(r) PROVE Asked(tresp.rid)'
        BY DEF AskedInv
      <3>1. PICK c \in Clients : InCall(c)' /\ pc'[c] \in Sent /\ trans'[c].resp = 0 /\ trans'[c].rid = r
        BY <1>8 DEF Asked
      <3> QED
        BY <3>1 DEF Asked
    <2> QED
      BY <1>1, <2>4, <2>5 DEF AskedInv
  <1>10. WalkInv'
    <2>1. pc'[mnt] = "walk" => /\ {t', p'} \subseteq Pending' \cup {None}
                               /\ \E W \in SUBSET Pending' : Past(W)'
      BY <1>1, <1>3 DEF WalkInv, Past
    <2>2. pc'[mnt] = "remove" => /\ t' \in Pending' /\ p' \in Pending' \cup {None}
                                 /\ n'[mnt] = trans'[t'].next /\ trans'[t'].rid = tresp'.rid
      BY <1>1, <1>3 DEF WalkInv
    <2>3. pc'[mnt] = "copy" => t' \in Clients /\ InCall(t)' /\ trans'[t'].resp = 0
                               /\ trans'[t'].rid = tresp'.rid
      BY <1>1, <1>2 DEF WalkInv
    <2>4. pc'[mnt] \in {"data", "serve"} =>
            t' \in Clients /\ InCall(t)' /\ trans'[t'].resp # 0 /\ ~trans'[t'].served
      BY <1>1, <1>2 DEF WalkInv
    <2>5. pc'[mnt] = "ready" => t' \in Clients
      BY <1>1 DEF WalkInv
    <2> QED
      BY <2>1, <2>2, <2>3, <2>4, <2>5 DEF WalkInv
  <1> QED
    BY <1>4, <1>5, <1>6, <1>7, <1>9, <1>10

(* A step of mountproc() that takes nothing off the list and answers       *)
(* nobody.                                                                 *)
LEMMA SamePending ==
  ASSUME TypeInv, NEW l, pc' = [pc EXCEPT ![mnt] = l], pc[mnt] # "copy", l # "copy",
         trans' = trans
  PROVE  /\ Pending' = Pending /\ pc'[mnt] = l
         /\ \A c \in Clients : pc'[c] = pc[c] /\ (InCall(c)' <=> InCall(c))
         /\ \A r : Asked(r)' <=> Asked(r)
  <1>1. pc'[mnt] = l /\ \A c \in Clients : pc'[c] = pc[c]
    BY DEF TypeInv
  <1>2. \A c \in Clients : InCall(c)' <=> InCall(c)
    BY <1>1 DEF InCall
  <1>3. Pending' = Pending
    BY <1>1, <1>2 DEF Pending
  <1>4. \A r : Asked(r)' <=> Asked(r)
    BY <1>1, <1>2 DEF Asked
  <1> QED
    BY <1>1, <1>2, <1>3, <1>4

LEMMA MountMoves ==
  ASSUME TypeInv, FoundInv, NEW l, pc' = [pc EXCEPT ![mnt] = l], pc[mnt] # "copy",
         l \in Serving \ {"copy"}, UNCHANGED <<b, closed, trans, calls>>,
         \A c \in Clients : n'[c] = n[c] /\ (state'[c] = state[c] \/ ~(pc[c] = "asleep" /\ ~trans[c].served)),
         pc[mnt] \in {"data", "serve"} => l \in {"data", "serve"} /\ t' = t,
         AskedInv', WalkInv'
  PROVE  FoundInv'
  <1> USE DEF FoundInv, CallsInv
  <1>1. /\ Pending' = Pending /\ pc'[mnt] = l
        /\ \A c \in Clients : pc'[c] = pc[c] /\ (InCall(c)' <=> InCall(c))
    BY SamePending
  <1>2. LifeInv'
    BY <1>1 DEF LifeInv
  <1>3. \A c \in Clients : ClientInv(c)'
    BY <1>1 DEF ClientInv
  <1>4. RidInv'
    BY <1>1 DEF RidInv, Numbered
  <1>5. ListInv'
    BY <1>1 DEF ListInv, NextOf
  <1> QED
    BY <1>2, <1>3, <1>4, <1>5

(* A step of y outside the list, that leaves it there.                     *)
LEMMA OutsideStep ==
  ASSUME TypeInv, FoundInv, NEW y \in Clients, NEW l,
         pc' = [pc EXCEPT ![y] = l], l \notin InLabels,
         \A c \in Clients \ {y} : trans'[c] = trans[c],
         n'[mnt] = n[mnt], UNCHANGED <<srv, t, p, tresp>>, b'.waiting = b.waiting,
         InCall(y) => trans[y].served
  PROVE  ListInv' /\ AskedInv' /\ WalkInv'
  <1> USE DEF FoundInv, CallsInv
  <1>1. /\ \A c \in Clients : pc'[c] = IF c = y THEN l ELSE pc[c]
        /\ pc'[mnt] = pc[mnt]
    BY DEF TypeInv
  <1>2. /\ ~InCall(y)'
        /\ \A c \in Clients \ {y} : /\ trans'[c] = trans[c]
                                    /\ pc'[c] = pc[c] /\ (InCall(c)' <=> InCall(c))
    BY <1>1 DEF InCall, InLabels
  <1>3. InCall(y) => trans[y].resp # 0
    BY DEF ClientInv
  <1>4. Pending' = Pending /\ y \notin Pending
    BY <1>1, <1>2, <1>3 DEF Pending
  <1>5. ListInv'
    <2>1. \A c \in Pending : NextOf'[c] = NextOf[c]
      BY <1>2, <1>4 DEF NextOf, Pending
    <2>2. ListOf(b.waiting, NextOf', Pending)
      BY <2>1, ListSame DEF ListInv
    <2> QED
      BY <1>4, <2>2 DEF ListInv
  <1>6. \A r : Asked(r) => Asked(r)'
    <2> SUFFICES ASSUME NEW r, Asked(r) PROVE Asked(r)'
      OBVIOUS
    <2>1. PICK c \in Clients : InCall(c) /\ pc[c] \in Sent /\ trans[c].resp = 0 /\ trans[c].rid = r
      BY DEF Asked
    <2>2. c # y
      BY <1>3, <2>1
    <2>3. InCall(c)' /\ pc'[c] \in Sent /\ trans'[c].resp = 0 /\ trans'[c].rid = r
      BY <1>2, <2>1, <2>2
    <2> QED
      BY <2>3 DEF Asked
  <1>7. AskedInv'
    <2>1. srv.at \in {"more", "work"} => Asked(srv.rid)'
      <3> SUFFICES ASSUME NEW r, r = srv.rid, Asked(r) PROVE Asked(srv.rid)'
        BY DEF AskedInv
      <3>1. Asked(r)'
        BY <1>6
      <3> QED
        BY <3>1 DEF Asked
    <2>2. pc[mnt] \in {"find", "walk", "remove", "copy"} => Asked(tresp.rid)'
      <3> SUFFICES ASSUME NEW r, r = tresp.rid, Asked(r) PROVE Asked(tresp.rid)'
        BY DEF AskedInv
      <3>1. Asked(r)'
        BY <1>6
      <3> QED
        BY <3>1 DEF Asked
    <2> QED
      BY <1>1, <2>1, <2>2 DEF AskedInv
  <1>8. WalkInv'
    <2>1. pc'[mnt] = "walk" => {t', p'} \subseteq Pending' \cup {None}
      BY <1>1, <1>4 DEF WalkInv
    <2>2. pc'[mnt] = "walk" => \E W \in SUBSET Pending' : Past(W)'
      <3> SUFFICES ASSUME pc[mnt] = "walk" PROVE \E W \in SUBSET Pending' : Past(W)'
        BY <1>1
      <3>1. PICK W \in SUBSET Pending : Past(W)
        BY DEF WalkInv
      <3>2. \A d \in W : d \in Clients /\ d # y
        BY <1>4 DEF Pending
      <3>3. Past(W)'
        BY <1>2, <3>1, <3>2 DEF Past
      <3> QED
        BY <1>4, <3>3
    <2>3. pc'[mnt] = "remove" => /\ t' \in Pending' /\ p' \in Pending' \cup {None}
                                 /\ n'[mnt] = trans'[t'].next /\ trans'[t'].rid = tresp'.rid
      BY <1>1, <1>2, <1>4 DEF WalkInv, Pending
    <2>4. t \in Clients /\ InCall(t) /\ ~trans[t].served => t # y
      OBVIOUS
    <2>5. pc'[mnt] = "copy" => /\ t' \in Clients /\ InCall(t)' /\ trans'[t'].resp = 0
                               /\ trans'[t'].rid = tresp'.rid
      BY <1>1, <1>2, <1>3 DEF WalkInv
    <2>6. pc'[mnt] \in {"data", "serve"} =>
            t' \in Clients /\ InCall(t)' /\ trans'[t'].resp # 0 /\ ~trans'[t'].served
      BY <1>1, <1>2, <2>4 DEF WalkInv
    <2>7. pc'[mnt] = "ready" => t' \in Clients
      BY <1>1 DEF WalkInv
    <2> QED
      BY <2>1, <2>2, <2>3, <2>5, <2>6, <2>7 DEF WalkInv
  <1> QED
    BY <1>5, <1>7, <1>8

(* makereq() and filewrite(), step by step. *)
LEMMA CallStep ==
  ASSUME TypeInv, FoundInv, NEW y \in Clients, NEW k \in Kinds, Call(y, k)
  PROVE  FoundInv'
  <1> USE DEF FoundInv, CallsInv
  <1>1. /\ pc[y] = "idle"
        /\ pc' = [pc EXCEPT ![y] = "test"]
        /\ UNCHANGED <<b, state, n, closed, srv, t, p, tresp>>
    BY DEF Call, At, Goto, Rest
  <1>2. \A c \in Clients : trans'[c] = IF c = y THEN [NoTrans EXCEPT !.kind = k] ELSE trans[c]
    BY <1>1 DEF Call, TypeInv
  <1>3. trans'[y].resp = 0 /\ trans'[y].served = FALSE
    BY <1>2 DEF NoTrans
  <1>4. /\ \A c \in Clients : pc'[c] = IF c = y THEN "test" ELSE pc[c]
        /\ pc'[mnt] = pc[mnt]
    BY <1>1 DEF TypeInv
  <1>5. ListInv' /\ AskedInv' /\ WalkInv'
    <2>1. ~InCall(y) /\ "test" \notin InLabels
      BY <1>1 DEF InCall, InLabels
    <2>2. \A c \in Clients \ {y} : trans'[c] = trans[c]
      BY <1>2
    <2> QED
      BY <1>1, <2>1, <2>2, OutsideStep
  <1>6. LifeInv'
    BY <1>1, <1>4 DEF LifeInv, Calling
  <1>7. \A c \in Clients : ClientInv(c)'
    BY <1>1, <1>2, <1>3, <1>4 DEF ClientInv
  <1>8. RidInv'
    BY <1>1, <1>2, <1>4 DEF RidInv, Numbered
  <1> QED
    BY <1>5, <1>6, <1>7, <1>8

LEMMA NumberStepFound ==
  ASSUME TypeInv, FoundInv, NEW y \in Clients, Number(y)
  PROVE  FoundInv'
  <1> USE DEF FoundInv, CallsInv
  <1>1. /\ pc[y] = "number" /\ pc' = [pc EXCEPT ![y] = "load"]
        /\ b' = [b EXCEPT !.nreqid = b.nreqid + 1]
        /\ trans' = [trans EXCEPT ![y].rid = b.nreqid + 1]
        /\ UNCHANGED <<state, n, closed, srv, t, p, tresp, calls>>
    BY DEF Number, At, Goto, Rest
  <1>2. /\ \A c \in Clients : pc'[c] = IF c = y THEN "load" ELSE pc[c]
        /\ pc'[mnt] = pc[mnt]
    BY <1>1 DEF TypeInv
  <1>3. /\ b'.nreqid = b.nreqid + 1 /\ b.nreqid \in Nat
        /\ b'.waiting = b.waiting /\ b'.refs = b.refs /\ b'.ends = b.ends
    BY <1>1 DEF TypeInv, BindingType
  <1>4. \A c \in Clients : /\ trans'[c].resp = trans[c].resp /\ trans'[c].served = trans[c].served
                           /\ trans'[c].next = trans[c].next
                           /\ trans'[c].rid = IF c = y THEN b.nreqid + 1 ELSE trans[c].rid
                           /\ c # y => trans'[c] = trans[c]
    BY <1>1, TransFields DEF TypeInv
  <1>5. ListInv' /\ AskedInv' /\ WalkInv'
    <2>1. ~InCall(y) /\ "load" \notin InLabels
      BY <1>1 DEF InCall, InLabels
    <2>2. \A c \in Clients \ {y} : trans'[c] = trans[c]
      BY <1>1, <1>4
    <2> QED
      BY <1>1, <1>3, <2>1, <2>2, OutsideStep
  <1>6. LifeInv'
    BY <1>1, <1>2, <1>3 DEF LifeInv, Calling
  <1>7. \A c \in Clients : ClientInv(c)'
    BY <1>1, <1>2, <1>4 DEF ClientInv, Sent
  <1>8. RidInv'
    <2> SUFFICES ASSUME NEW c \in Clients, Numbered(c)'
                 PROVE  /\ 1 <= trans'[c].rid /\ trans'[c].rid <= b'.nreqid
                        /\ \A d \in Clients \ {c} : Numbered(d)' => trans'[d].rid # trans'[c].rid
      BY DEF RidInv
    <2>1. \A d \in Clients \ {y} : Numbered(d)' => Numbered(d)
      BY <1>2 DEF Numbered
    <2>2. \A d \in Clients : trans[d].rid \in Nat
      BY DEF TypeInv, TransType
    <2>3. \A d \in Clients \ {y} : Numbered(d)' => trans'[d].rid <= b.nreqid /\ trans'[d].rid >= 1
      BY <1>4, <2>1 DEF RidInv
    <2>4. CASE c = y
      BY <1>3, <1>4, <2>2, <2>3, <2>4
    <2>5. CASE c # y
      BY <1>3, <1>4, <2>1, <2>2, <2>3, <2>5 DEF RidInv
    <2> QED
      BY <2>4, <2>5
  <1> QED
    BY <1>5, <1>6, <1>7, <1>8

LEMMA LoadStepFound ==
  ASSUME TypeInv, FoundInv, NEW y \in Clients, LoadWaiting(y)
  PROVE  FoundInv'
  <1> USE DEF FoundInv, CallsInv
  <1>1. /\ pc[y] = "load" /\ pc' = [pc EXCEPT ![y] = "push"]
        /\ n' = [n EXCEPT ![y] = b.waiting]
        /\ trans' = [trans EXCEPT ![y].next = b.waiting]
        /\ UNCHANGED <<b, state, closed, srv, t, p, tresp, calls>>
    BY DEF LoadWaiting, At, Goto, Rest
  <1>2. /\ \A c \in Clients : pc'[c] = (IF c = y THEN "push" ELSE pc[c]) /\ n'[c] = (IF c = y THEN b.waiting ELSE n[c])
        /\ pc'[mnt] = pc[mnt] /\ n'[mnt] = n[mnt]
    BY <1>1 DEF TypeInv
  <1>4. \A c \in Clients : /\ trans'[c].resp = trans[c].resp /\ trans'[c].served = trans[c].served
                           /\ trans'[c].rid = trans[c].rid
                           /\ trans'[c].next = IF c = y THEN b.waiting ELSE trans[c].next
                           /\ c # y => trans'[c] = trans[c]
    BY <1>1, TransFields DEF TypeInv
  <1>5. ListInv' /\ AskedInv' /\ WalkInv'
    <2>1. ~InCall(y) /\ "push" \notin InLabels
      BY <1>1 DEF InCall, InLabels
    <2>2. \A c \in Clients \ {y} : trans'[c] = trans[c]
      BY <1>1, <1>4
    <2> QED
      BY <1>1, <1>2, <2>1, <2>2, OutsideStep
  <1>6. LifeInv'
    BY <1>1, <1>2 DEF LifeInv, Calling
  <1>7. \A c \in Clients : ClientInv(c)'
    BY <1>1, <1>2, <1>4 DEF ClientInv, Sent
  <1>8. RidInv'
    BY <1>1, <1>2, <1>4 DEF RidInv, Numbered
  <1> QED
    BY <1>5, <1>6, <1>7, <1>8

LEMMA ReturnStep ==
  ASSUME TypeInv, FoundInv, NEW y \in Clients, Return(y)
  PROVE  FoundInv'
  <1> USE DEF FoundInv, CallsInv
  <1>1. /\ pc[y] = "asleep" /\ state[y] = "run" /\ pc' = [pc EXCEPT ![y] = "idle"]
        /\ trans' = [trans EXCEPT ![y] = NoTrans]
        /\ UNCHANGED <<b, state, n, closed, srv, t, p, tresp, calls>>
    BY DEF Return, At, Goto, Rest, LifeInv
  <1>2. /\ \A c \in Clients : pc'[c] = IF c = y THEN "idle" ELSE pc[c]
        /\ pc'[mnt] = pc[mnt]
    BY <1>1 DEF TypeInv
  <1>3. trans[y].served
    BY <1>1 DEF ClientInv
  <1>4. /\ \A c \in Clients \ {y} : trans'[c] = trans[c]
        /\ trans'[y].resp = 0 /\ trans'[y].served = FALSE
    BY <1>1 DEF TypeInv, NoTrans
  <1>5. ListInv' /\ AskedInv' /\ WalkInv'
    <2>1. "idle" \notin InLabels
      BY DEF InLabels
    <2> QED
      BY <1>1, <1>3, <1>4, <2>1, OutsideStep
  <1>6. LifeInv'
    BY <1>1, <1>2 DEF LifeInv, Calling
  <1>7. \A c \in Clients : ClientInv(c)'
    BY <1>1, <1>2, <1>3, <1>4 DEF ClientInv
  <1>8. RidInv'
    BY <1>1, <1>2, <1>4 DEF RidInv, Numbered
  <1> QED
    BY <1>5, <1>6, <1>7, <1>8

LEMMA PushStepFound ==
  ASSUME TypeInv, FoundInv, NEW y \in Clients, Push(y)
  PROVE  FoundInv'
  <1> USE DEF FoundInv, CallsInv
  <1>1. /\ pc[y] = "push" /\ b.waiting = n[y] /\ pc' = [pc EXCEPT ![y] = "lock"]
        /\ b' = [b EXCEPT !.waiting = y] /\ n' = [n EXCEPT ![y] = None]
        /\ UNCHANGED <<trans, state, closed, srv, t, p, tresp, calls>>
    BY DEF Push, At, Goto, Rest
  <1>2. /\ \A c \in Clients : pc'[c] = (IF c = y THEN "lock" ELSE pc[c]) /\ (c # y => n'[c] = n[c])
        /\ pc'[mnt] = pc[mnt] /\ n'[mnt] = n[mnt]
    BY <1>1 DEF TypeInv
  <1>3. /\ b'.waiting = y /\ b'.nreqid = b.nreqid /\ b'.refs = b.refs /\ b'.ends = b.ends
    BY <1>1 DEF TypeInv, BindingType
  <1>4. /\ ~InCall(y) /\ InCall(y)' /\ \A c \in Clients \ {y} : InCall(c)' <=> InCall(c)
    BY <1>1, <1>2 DEF InCall
  <1>5. trans[y].resp = 0 /\ trans[y].next = b.waiting
    BY <1>1 DEF ClientInv, Sent
  <1>6. y \notin Pending /\ None \notin Pending \cup {y}
    BY <1>4 DEF Pending
  <1>7. Pending' = Pending \cup {y}
    <2>1. ~(t = y /\ pc[mnt] = "copy")
      BY <1>4 DEF WalkInv
    <2> QED
      BY <1>1, <1>2, <1>4, <1>5, <2>1 DEF Pending
  <1>8. ListInv'
    <2>1. NextOf[y] = b.waiting /\ NextOf' = NextOf
      BY <1>1, <1>5 DEF NextOf
    <2>2. ListOf(y, NextOf, Pending \cup {y})
      BY <1>6, <2>1, ListPush DEF ListInv
    <2> QED
      BY <1>3, <1>7, <2>1, <2>2 DEF ListInv
  <1>9. \A r : Asked(r) => Asked(r)' /\ trans[y].rid # r
    <2> SUFFICES ASSUME NEW r, Asked(r) PROVE Asked(r)' /\ trans[y].rid # r
      OBVIOUS
    <2>1. PICK c \in Clients : InCall(c) /\ pc[c] \in Sent /\ trans[c].resp = 0 /\ trans[c].rid = r
      BY DEF Asked
    <2>2. c # y
      BY <1>4, <2>1
    <2>3. InCall(c)' /\ pc'[c] \in Sent /\ trans'[c].resp = 0 /\ trans'[c].rid = r
      BY <1>1, <1>2, <1>4, <2>1, <2>2
    <2>4. Numbered(y) /\ Numbered(c)
      BY <1>1, <2>1 DEF Numbered, Sent
    <2> QED
      BY <2>1, <2>2, <2>3, <2>4 DEF Asked, RidInv
  <1>10. AskedInv'
    <2>1. srv.at \in {"more", "work"} => Asked(srv.rid)'
      <3> SUFFICES ASSUME NEW r, r = srv.rid, Asked(r) PROVE Asked(srv.rid)'
        BY DEF AskedInv
      <3>1. Asked(r)'
        BY <1>9
      <3> QED
        BY <1>1, <3>1 DEF Asked
    <2>2. pc[mnt] \in {"find", "walk", "remove", "copy"} => Asked(tresp.rid)'
      <3> SUFFICES ASSUME NEW r, r = tresp.rid, Asked(r) PROVE Asked(tresp.rid)'
        BY DEF AskedInv
      <3>1. Asked(r)'
        BY <1>9
      <3> QED
        BY <1>1, <3>1 DEF Asked
    <2> QED
      BY <1>1, <1>2, <2>1, <2>2 DEF AskedInv
  <1>11. WalkInv'
    <2>1. pc'[mnt] = "walk" => {t', p'} \subseteq Pending' \cup {None}
      BY <1>1, <1>2, <1>7 DEF WalkInv
    <2>2. pc'[mnt] = "walk" => \E W \in SUBSET Pending' : Past(W)'
      <3> SUFFICES ASSUME pc[mnt] = "walk" PROVE \E W \in SUBSET Pending' : Past(W)'
        BY <1>2
      <3>1. PICK W \in SUBSET Pending : Past(W)
        BY DEF WalkInv
      <3>2. trans[y].rid # tresp.rid
        BY <1>9 DEF AskedInv
      <3>3. Past(W \cup {y})'
        BY <1>1, <1>3, <1>5, <3>1, <3>2 DEF Past
      <3>4. W \cup {y} \in SUBSET Pending'
        BY <1>7, <3>1
      <3> QED
        BY <3>3, <3>4
    <2>3. pc'[mnt] = "remove" => /\ t' \in Pending' /\ p' \in Pending' \cup {None}
                                 /\ n'[mnt] = trans'[t'].next /\ trans'[t'].rid = tresp'.rid
      BY <1>1, <1>2, <1>7 DEF WalkInv
    <2>4. t \in Clients /\ InCall(t) => t # y
      BY <1>4
    <2>5. pc'[mnt] = "copy" => /\ t' \in Clients /\ InCall(t)' /\ trans'[t'].resp = 0
                               /\ trans'[t'].rid = tresp'.rid
      BY <1>1, <1>2, <1>4, <2>4 DEF WalkInv
    <2>6. pc'[mnt] \in {"data", "serve"} =>
            t' \in Clients /\ InCall(t)' /\ trans'[t'].resp # 0 /\ ~trans'[t'].served
      BY <1>1, <1>2, <1>4, <2>4 DEF WalkInv
    <2>7. pc'[mnt] = "ready" => t' \in Clients
      BY <1>1, <1>2 DEF WalkInv
    <2> QED
      BY <2>1, <2>2, <2>3, <2>5, <2>6, <2>7 DEF WalkInv
  <1>12. LifeInv'
    BY <1>1, <1>2, <1>3 DEF LifeInv, Calling
  <1>13. \A c \in Clients : ClientInv(c)'
    BY <1>1, <1>2, <1>5 DEF ClientInv
  <1>14. RidInv'
    BY <1>1, <1>2, <1>3 DEF RidInv, Numbered
  <1> QED
    BY <1>8, <1>10, <1>11, <1>12, <1>13, <1>14

(* The steps that leave the list and the server alone. *)
LEMMA PlainMoves ==
  ASSUME TypeInv, PlainInv, FoundInv, NEW y \in Clients,
         \/ TestOut(y) \/ PushFails(y) \/ Lock(y) \/ Write(y) \/ Unlock(y) \/ Check(y) \/ Sleep(y)
  PROVE  FoundInv'
  <1>1. LifeInv /\ AskedInv
    BY DEF FoundInv, CallsInv
  <1>2. srv.at \in {"more", "work"} =>
          /\ Asked(srv.rid)
          /\ pc[mnt] \in {"find", "walk", "remove", "copy"} => srv.rid # tresp.rid
    BY <1>1 DEF AskedInv
  <1>3. PICK l : /\ pc' = [pc EXCEPT ![y] = l] /\ UNCHANGED <<b, closed, trans, calls, t, p, tresp, srv>>
                 /\ <<pc[y], l>> \in {<<"test", "number">>, <<"push", "load">>, <<"lock", "write">>,
                                      <<"write", "head">>, <<"unlock", "check">>, <<"check", "asleep">>,
                                      <<"check", "sleep">>, <<"sleep", "asleep">>}
                 /\ l = "asleep" => trans[y].served \/ state'[y] = "waiting"
                 /\ \A c \in Clients \ {y} : state'[c] = state[c]
                 /\ n' \in {n, [n EXCEPT ![y] = None]}
    <2>1. CASE TestOut(y)
      <3>1. pc[y] = "test" /\ pc' = [pc EXCEPT ![y] = "number"]
        BY <1>1, <2>1 DEF TestOut, At, Goto, LifeInv
      <3>2. UNCHANGED <<b, closed, trans, calls, t, p, tresp, srv, state, n>>
        BY <2>1 DEF TestOut, Rest
      <3> QED
        BY <3>1, <3>2
    <2>2. CASE PushFails(y)
      BY <2>2 DEF PushFails, At, Goto, Rest
    <2>3. CASE Lock(y)
      BY <2>3 DEF Lock, At, Goto, Rest
    <2>4. CASE Write(y)
      <3>1. pc[y] = "write" /\ pc' = [pc EXCEPT ![y] = "head"]
        BY <1>1, <2>4 DEF Write, At, Goto, LifeInv
      <3>2. UNCHANGED <<b, closed, trans, calls, t, p, tresp, srv, state, n>>
        BY <2>4 DEF Write, Rest
      <3> QED
        BY <3>1, <3>2
    <2>5. CASE Unlock(y)
      <3>1. pc[y] # "failed"
        BY <1>1 DEF LifeInv
      <3> QED
        BY <2>5, <3>1 DEF Unlock, At, Goto, Rest
    <2>6. CASE Check(y)
      BY <2>6 DEF Check, At, Goto, Rest
    <2>7. CASE Sleep(y)
      <3>1. pc[y] = "sleep" /\ pc' = [pc EXCEPT ![y] = "asleep"] /\ state' = [state EXCEPT ![y] = "waiting"]
        BY <2>7 DEF Sleep, At, Goto
      <3>2. UNCHANGED <<b, closed, trans, calls, t, p, tresp, srv, n>>
        BY <2>7 DEF Sleep, Rest
      <3>3. state'[y] = "waiting" /\ \A c \in Clients \ {y} : state'[c] = state[c]
        BY <3>1 DEF PlainInv
      <3> QED
        BY <3>1, <3>2, <3>3
    <2> QED
      BY <2>1, <2>2, <2>3, <2>4, <2>5, <2>6, <2>7
  <1>4. pc[y] # "idle" /\ l \in Calling \ {"push", "failed", "fail", "dead"}
    BY <1>3 DEF Calling
  <1>5. /\ pc[y] \in InLabels <=> l \in InLabels
        /\ pc[y] \in {"test", "number"} <=> l \in {"test", "number"}
        /\ pc[y] \in Sent => l \in Sent
    BY <1>3 DEF InLabels, Sent
  <1>6. n'[mnt] = n[mnt] /\ \A c \in Clients \ {y} : n'[c] = n[c]
    BY <1>3 DEF TypeInv
  <1>7. srv'.at \in {"more", "work"} =>
            /\ Asked(srv'.rid) \/ (trans[y].rid = srv'.rid /\ trans[y].resp = 0 /\ l \in Sent)
            /\ pc[mnt] \in {"find", "walk", "remove", "copy"} => srv'.rid # tresp.rid
    BY <1>2, <1>3
  <1> QED
    BY <1>3, <1>4, <1>5, <1>6, <1>7, ClientMoves

(* The server reads a request, or its data. *)
LEMMA ReadMoves ==
  ASSUME TypeInv, FoundInv, NEW y \in Clients, ReadRequest(y) \/ ReadData(y)
  PROVE  FoundInv'
  <1>1. LifeInv /\ AskedInv /\ RidInv /\ ClientInv(y)
    BY DEF FoundInv, CallsInv
  <1>2. PICK l : /\ pc' = [pc EXCEPT ![y] = l] /\ UNCHANGED <<b, closed, trans, calls, t, p, tresp, n, state>>
                 /\ pc[y] \in {"head", "data"} /\ l \in {"data", "unlock"}
                 /\ \/ srv'.rid = trans[y].rid /\ pc[y] = "head"
                    \/ srv'.rid = srv.rid /\ srv.at = "more"
    <2>1. CASE ReadRequest(y)
      BY <2>1 DEF ReadRequest, At, Goto, TypeInv
    <2>2. CASE ReadData(y)
      BY <2>2 DEF ReadData, At, Goto, TypeInv
    <2> QED
      BY <2>1, <2>2
  <1>3. srv'.at \in {"more", "work"} =>
            /\ Asked(srv'.rid) \/ (trans[y].rid = srv'.rid /\ trans[y].resp = 0 /\ l \in Sent)
            /\ pc[mnt] \in {"find", "walk", "remove", "copy"} => srv'.rid # tresp.rid
    <2>1. CASE srv'.rid = srv.rid /\ srv.at = "more"
      BY <1>1, <2>1 DEF AskedInv
    <2>2. CASE srv'.rid = trans[y].rid /\ pc[y] = "head"
      <3>1. trans[y].resp = 0 /\ l \in Sent
        BY <1>1, <1>2, <2>2 DEF ClientInv, Sent
      <3>2. ASSUME Asked(tresp.rid) PROVE trans[y].rid # tresp.rid
        <4>1. PICK c \in Clients : pc[c] \in Sent /\ trans[c].rid = tresp.rid
          BY <3>2 DEF Asked
        <4>2. c # y /\ Numbered(c) /\ Numbered(y)
          BY <2>2, <4>1 DEF Sent, Numbered
        <4> QED
          BY <1>1, <4>1, <4>2 DEF RidInv
      <3> QED
        BY <1>1, <2>2, <3>1, <3>2 DEF AskedInv
    <2> QED
      BY <1>2, <2>1, <2>2
  <1>4. pc[y] # "idle" /\ l \in Calling \ {"push", "failed", "fail", "dead"} /\ l # "asleep"
    BY <1>2 DEF Calling
  <1>5. /\ pc[y] \in InLabels <=> l \in InLabels
        /\ pc[y] \in {"test", "number"} <=> l \in {"test", "number"}
        /\ pc[y] \in Sent => l \in Sent
    BY <1>2 DEF InLabels, Sent
  <1> QED
    BY <1>2, <1>3, <1>4, <1>5, ClientMoves

(* A step of mountproc() keeps what has been asked. *)
LEMMA AskedMoves ==
  ASSUME TypeInv, FoundInv, NEW l, pc' = [pc EXCEPT ![mnt] = l], pc[mnt] # "copy", l # "copy",
         trans' = trans, srv'.at \in {"more", "work"} => srv' = srv,
         l \in {"find", "walk", "remove"} => pc[mnt] \in {"find", "walk", "remove"} /\ tresp' = tresp
  PROVE  AskedInv'
  <1>1. AskedInv
    BY DEF FoundInv
  <1>2. pc'[mnt] = l /\ \A r : Asked(r)' <=> Asked(r)
    BY SamePending
  <1>3. ASSUME srv'.at \in {"more", "work"} PROVE Asked(srv.rid)'
    <2> SUFFICES ASSUME NEW r, r = srv'.rid, Asked(r) PROVE Asked(srv.rid)'
      BY <1>1, <1>3 DEF AskedInv
    <2>1. Asked(r)'
      BY <1>2
    <2> QED
      BY <2>1 DEF Asked
  <1>4. ASSUME l \in {"find", "walk", "remove"} PROVE Asked(tresp.rid)'
    <2> SUFFICES ASSUME NEW r, r = tresp'.rid, Asked(r) PROVE Asked(tresp.rid)'
      BY <1>1, <1>4 DEF AskedInv
    <2>1. Asked(r)'
      BY <1>2
    <2> QED
      BY <2>1 DEF Asked
  <1> QED
    BY <1>1, <1>2, <1>3, <1>4 DEF AskedInv

(* mountproc(), step by step. *)
LEMMA ServeSteps ==
  ASSUME TypeInv, PlainInv, FoundInv, Loop \/ Read \/ RespondData \/ Ready
  PROVE  FoundInv'
  <1>1. LifeInv /\ WalkInv
    BY DEF FoundInv, CallsInv
  <1>2. PICK l : /\ pc' = [pc EXCEPT ![mnt] = l] /\ UNCHANGED <<b, closed, trans, calls, tresp, n>>
                 /\ <<pc[mnt], l>> \in {<<"loop", "read">>, <<"read", "reading">>, <<"data", "serve">>,
                                        <<"ready", "loop">>}
                 /\ srv'.at \in {"more", "work"} => srv' = srv
                 /\ l = "serve" => t' = t
                 /\ \/ state' = state
                    \/ /\ pc[mnt] = "ready" /\ state' = [state EXCEPT ![t] = "run"]
                       /\ state[t] = "run" \/ trans[t].resp # 0
    <2>1. CASE Loop
      <3>1. pc[mnt] = "loop" /\ pc' = [pc EXCEPT ![mnt] = "read"]
        BY <1>1, <2>1 DEF Loop, At, Goto, LifeInv
      <3>2. UNCHANGED <<b, closed, trans, calls, t, p, tresp, srv, state, n>>
        BY <2>1 DEF Loop, MntUnchanged
      <3> QED
        BY <3>1, <3>2
    <2>2. CASE Read
      <3>1. pc[mnt] = "read" /\ pc' = [pc EXCEPT ![mnt] = "reading"]
        BY <1>1, <2>2 DEF Read, At, Goto, LifeInv
      <3>2. UNCHANGED <<b, closed, trans, calls, t, p, tresp, srv, state, n>>
        BY <2>2 DEF Read, MntUnchanged
      <3> QED
        BY <3>1, <3>2
    <2>3. CASE RespondData
      BY <2>3 DEF RespondData, At, Goto, Idle
    <2>4. CASE Ready
      <3>1. state[t] = "run" \/ trans[t].resp # 0
        <4>1. t \in Clients
          BY <1>1, <2>4 DEF Ready, At, WalkInv
        <4> QED
          BY <2>4, <4>1 DEF Ready, Elsewhere, PlainInv
      <3> QED
        BY <2>4, <3>1 DEF Ready, At, Goto, MntUnchanged
    <2> QED
      BY <2>1, <2>2, <2>3, <2>4
  <1>3. l \in Serving \ {"copy"} /\ pc[mnt] # "copy" /\ l \notin {"find", "walk", "remove"}
    BY <1>2 DEF Serving
  <1>4. AskedInv'
    BY <1>2, <1>3, AskedMoves
  <1>5. WalkInv'
    <2>1. pc'[mnt] = l /\ \A c \in Clients : InCall(c)' <=> InCall(c)
      BY <1>2, <1>3, SamePending
    <2>2. CASE l = "serve"
      <3>1. pc[mnt] = "data" /\ t' = t
        BY <1>2, <2>2
      <3>2. t \in Clients /\ InCall(t) /\ trans[t].resp # 0 /\ ~trans[t].served
        BY <1>1, <3>1 DEF WalkInv
      <3> QED
        BY <1>2, <2>1, <2>2, <3>1, <3>2 DEF WalkInv
    <2>3. CASE l # "serve"
      BY <1>2, <2>1, <2>3 DEF WalkInv
    <2> QED
      BY <2>2, <2>3
  <1>6. \A c \in Clients : state'[c] = state[c] \/ ~(pc[c] = "asleep" /\ ~trans[c].served)
    <2> SUFFICES ASSUME NEW c \in Clients, state'[c] # state[c]
                 PROVE  ~(pc[c] = "asleep" /\ ~trans[c].served)
      OBVIOUS
    <2>1. pc[mnt] = "ready" /\ c = t /\ trans[c].resp # 0
      BY <1>2 DEF PlainInv
    <2> QED
      BY <2>1 DEF FoundInv, CallsInv, ClientInv
  <1>7. pc[mnt] \in {"data", "serve"} => l \in {"data", "serve"} /\ t' = t
    BY <1>2
  <1> QED
    BY <1>2, <1>3, <1>4, <1>5, <1>6, <1>7, MountMoves

LEMMA RespondStep ==
  ASSUME TypeInv, FoundInv, NEW ok \in BOOLEAN, Respond(ok)
  PROVE  FoundInv'
  <1>1. /\ pc[mnt] = "reading" /\ srv.at = "work" /\ pc' = [pc EXCEPT ![mnt] = "find"]
        /\ tresp'.rid = srv.rid /\ srv'.at \in {"idle", "data"}
        /\ UNCHANGED <<b, closed, trans, calls, state, n, t, p>>
    BY DEF Respond, At, Goto, Idle, TypeInv
  <1>2. pc'[mnt] = "find" /\ \A r : Asked(r)' <=> Asked(r)
    BY <1>1, SamePending
  <1>3. Asked(tresp.rid)'
    <2> SUFFICES ASSUME NEW r, r = tresp'.rid, Asked(r) PROVE Asked(tresp.rid)'
      BY <1>1 DEF FoundInv, AskedInv
    <2>1. Asked(r)'
      BY <1>2
    <2> QED
      BY <2>1 DEF Asked
  <1>4. AskedInv'
    BY <1>1, <1>3 DEF AskedInv
  <1>5. WalkInv'
    BY <1>2 DEF WalkInv
  <1> QED
    BY <1>1, <1>4, <1>5, MountMoves DEF Serving

LEMMA WalkSteps ==
  ASSUME TypeInv, FoundInv, Find \/ Walk \/ Found \/ RemoveFails
  PROVE  FoundInv'
  <1>1. WalkInv /\ ListInv
    BY DEF FoundInv
  <1>2. PICK l : /\ pc' = [pc EXCEPT ![mnt] = l] /\ pc[mnt] \in {"find", "walk", "remove"}
                 /\ l \in {"find", "walk", "remove"}
                 /\ UNCHANGED <<b, closed, trans, calls, tresp, srv, state>>
                 /\ \A c \in Clients : n'[c] = n[c]
    <2>1. CASE Find
      BY <2>1 DEF Find, At, Goto, MntUnchanged
    <2>2. CASE Walk
      <3>1. pc' = [pc EXCEPT ![mnt] = "walk"]
        BY <2>2 DEF Walk, At, TypeInv
      <3> QED
        BY <2>2, <3>1 DEF Walk, At, MntUnchanged
    <2>3. CASE Found
      BY <2>3 DEF Found, At, Goto, MntUnchanged, TypeInv
    <2>4. CASE RemoveFails
      BY <2>4 DEF RemoveFails, At, Goto, MntUnchanged, TypeInv
    <2> QED
      BY <2>1, <2>2, <2>3, <2>4
  <1>3. l \in Serving \ {"copy"} /\ pc[mnt] # "copy" /\ l # "copy"
    BY <1>2 DEF Serving
  <1>4. AskedInv'
    BY <1>2, <1>3, AskedMoves
  <1>5. Pending' = Pending /\ pc'[mnt] = l
    BY <1>2, <1>3, SamePending
  <1>6. \A c \in Pending : c \in Clients /\ trans[c].next \in Pending \cup {None}
    BY <1>1 DEF ListInv, ListOf, Leads, NextOf, Pending
  <1>7. WalkInv'
    <2>1. CASE Find
      <3>1. l = "walk" /\ t' = b.waiting /\ p' = None
        BY <1>5, <2>1 DEF Find, Goto, TypeInv
      <3>2. Past({})'
        BY <1>2, <3>1 DEF Past
      <3>3. {t', p'} \subseteq Pending' \cup {None}
        BY <1>1, <1>5, <3>1 DEF ListInv, ListOf, Leads
      <3>4. {} \in SUBSET Pending'
        OBVIOUS
      <3>5. \E W \in SUBSET Pending' : Past(W)'
        BY <3>2, <3>4
      <3> QED
        BY <1>5, <3>1, <3>3, <3>5 DEF WalkInv
    <2>2. CASE Walk
      <3>1. /\ pc[mnt] = "walk" /\ l = "walk" /\ t # None /\ trans[t].rid # tresp.rid
            /\ t' = trans[t].next /\ p' = t
        BY <1>5, <2>2 DEF Walk, At, TypeInv
      <3>2. t \in Pending /\ trans[t].next \in Pending \cup {None}
        BY <1>1, <1>6, <3>1 DEF WalkInv
      <3>3. PICK W \in SUBSET Pending : Past(W)
        BY <1>1, <3>1 DEF WalkInv
      <3>4. PICK V \in SUBSET Pending : V = W \cup {t}
        BY <3>2
      <3>5. Past(V)'
        <4>1. b.waiting \in V \cup {None}
          BY <3>3, <3>4 DEF Past
        <4>2. \A d \in V : trans[d].next \in V \cup {t', None} /\ trans[d].rid # tresp.rid
          BY <3>1, <3>3, <3>4 DEF Past
        <4> QED
          BY <1>2, <4>1, <4>2 DEF Past
      <3>6. \E X \in SUBSET Pending' : Past(X)'
        BY <1>5, <3>5
      <3> QED
        BY <1>5, <3>1, <3>2, <3>6 DEF WalkInv
    <2>3. CASE Found
      <3>1. /\ pc[mnt] = "walk" /\ l = "remove" /\ t # None /\ trans[t].rid = tresp.rid
            /\ t' = t /\ p' = p /\ n'[mnt] = trans[t].next
        BY <1>5, <2>3 DEF Found, At, Goto, TypeInv
      <3>2. t \in Pending /\ p \in Pending \cup {None}
        BY <1>1, <3>1 DEF WalkInv
      <3> QED
        BY <1>2, <1>5, <3>1, <3>2 DEF WalkInv
    <2>4. CASE RemoveFails
      <3>1. l = "find"
        BY <1>5, <2>4 DEF RemoveFails, Goto, TypeInv
      <3> QED
        BY <1>5, <3>1 DEF WalkInv
    <2> QED
      BY <2>1, <2>2, <2>3, <2>4
  <1> QED
    BY <1>2, <1>3, <1>4, <1>7, MountMoves

(* mountproc() finds who waits for a response. *)
LEMMA HasWaiter ==
  ASSUME TypeInv, FoundInv, NoWaiter
  PROVE  FALSE
  <1>1. pc[mnt] = "walk" /\ t = None
    BY DEF NoWaiter, At
  <1>2. PICK W \in SUBSET Pending : Past(W)
    BY <1>1 DEF FoundInv, WalkInv
  <1>3. W = Pending
    <2>1. Leads(b.waiting, NextOf, W)
      BY <1>1, <1>2 DEF Past, Leads, NextOf, Pending
    <2> QED
      BY <1>2, <2>1 DEF FoundInv, ListInv, ListOf
  <1>4. PICK c \in Clients : InCall(c) /\ trans[c].resp = 0 /\ trans[c].rid = tresp.rid
    BY <1>1 DEF FoundInv, AskedInv, Asked
  <1>5. c \in Pending
    BY <1>1, <1>4 DEF Pending
  <1> QED
    BY <1>2, <1>3, <1>4, <1>5 DEF Past

LEMMA RemoveStep ==
  ASSUME TypeInv, FoundInv, Remove
  PROVE  FoundInv'
  <1> USE DEF FoundInv, CallsInv
  <1>1. /\ pc[mnt] = "remove" /\ pc' = [pc EXCEPT ![mnt] = "copy"]
        /\ n' = [n EXCEPT ![mnt] = None]
        /\ UNCHANGED <<state, t, tresp, closed, calls, srv>>
    BY DEF Remove, At, Goto, MntUnchanged
  <1>2. /\ t \in Pending /\ p \in Pending \cup {None}
        /\ n[mnt] = trans[t].next /\ trans[t].rid = tresp.rid
    BY <1>1 DEF WalkInv
  <1>3. /\ pc'[mnt] = "copy"
        /\ \A c \in Clients : pc'[c] = pc[c] /\ n'[c] = n[c]
    BY <1>1 DEF TypeInv
  <1>4. /\ \A c \in Clients : InCall(c)' <=> InCall(c)
        /\ None \notin Pending /\ Pending \subseteq Clients
    BY <1>3 DEF InCall, Pending
  <1>5. \/ /\ p = None /\ b.waiting = t /\ trans' = trans
           /\ b' = [b EXCEPT !.waiting = trans[t].next]
        \/ /\ p \in Pending /\ trans[p].next = t /\ b' = b
           /\ trans' = [trans EXCEPT ![p].next = trans[t].next]
    BY <1>2 DEF Remove
  <1>6. /\ b'.nreqid = b.nreqid /\ b'.refs = b.refs /\ b'.ends = b.ends
        /\ p = None => b'.waiting = trans[t].next
        /\ p # None => b'.waiting = b.waiting
    <2>1. b' = b \/ (p = None /\ b' = [b EXCEPT !.waiting = trans[t].next])
      BY <1>5
    <2>2. b \in BindingType /\ (p # None => b' = b) /\ (p = None => b' = [b EXCEPT !.waiting = trans[t].next])
      BY <1>4, <1>5 DEF TypeInv
    <2> QED
      BY <2>1, <2>2, BindingFields
  <1>7. \A c \in Clients : /\ trans'[c].resp = trans[c].resp /\ trans'[c].served = trans[c].served
                           /\ trans'[c].rid = trans[c].rid
                           /\ trans'[c].next = IF c = p THEN trans[t].next ELSE trans[c].next
    <2>1. trans \in [Clients -> TransType]
      BY DEF TypeInv
    <2>2. CASE p = None
      <3>1. trans' = trans
        BY <1>4, <1>5, <2>2
      <3> QED
        BY <2>2, <3>1, MountAssumption
    <2>3. CASE p # None
      <3>1. p \in Clients /\ trans' = [trans EXCEPT ![p].next = trans[t].next]
        BY <1>4, <1>5, <2>3
      <3> QED
        BY <2>1, <3>1, TransFields
    <2> QED
      BY <2>2, <2>3
  <1>8. Pending' = Pending \ {t}
    BY <1>1, <1>3, <1>4, <1>7 DEF Pending
  <1>9. ListInv'
    <2>1. NextOf[t] = trans[t].next /\ \A c \in Clients : NextOf'[c] = IF c = p THEN NextOf[t] ELSE NextOf[c]
      BY <1>2, <1>4, <1>7 DEF NextOf
    <2>2. CASE p = None
      <3>1. ListOf(NextOf[t], NextOf, Pending \ {t})
        BY <1>2, <1>4, <1>5, <2>2, ListPop DEF ListInv
      <3>2. NextOf' = NextOf
        BY <1>4, <1>5, <2>2 DEF NextOf
      <3> QED
        BY <1>6, <1>8, <2>1, <2>2, <3>1, <3>2 DEF ListInv
    <2>3. CASE p # None
      <3>1. p \in Pending /\ NextOf[p] = t /\ NextOf'[p] = NextOf[t]
        BY <1>2, <1>4, <1>5, <2>1, <2>3 DEF NextOf
      <3>2. \A c \in Pending \ {p} : NextOf'[c] = NextOf[c]
        BY <1>4, <2>1
      <3>3. ListOf(b.waiting, NextOf', Pending \ {t})
        BY <1>2, <1>4, <3>1, <3>2, ListUnlink DEF ListInv
      <3> QED
        BY <1>6, <1>8, <2>3, <3>3 DEF ListInv
    <2> QED
      BY <2>2, <2>3
  <1>10. \A r : Asked(r) => Asked(r)'
    BY <1>3, <1>4, <1>7 DEF Asked
  <1>11. AskedInv'
    <2>1. srv.at \in {"more", "work"} => Asked(srv.rid)'
      <3> SUFFICES ASSUME NEW r, r = srv.rid, Asked(r) PROVE Asked(srv.rid)'
        BY DEF AskedInv
      <3>1. Asked(r)'
        BY <1>10
      <3> QED
        BY <1>1, <3>1 DEF Asked
    <2>2. Asked(tresp.rid)'
      <3> SUFFICES ASSUME NEW r, r = tresp.rid, Asked(r) PROVE Asked(tresp.rid)'
        BY <1>1 DEF AskedInv
      <3>1. Asked(r)'
        BY <1>10
      <3> QED
        BY <1>1, <3>1 DEF Asked
    <2> QED
      BY <1>1, <2>1, <2>2 DEF AskedInv
  <1>12. WalkInv'
    <2>1. t \in Clients /\ InCall(t) /\ trans[t].resp = 0
      BY <1>2 DEF Pending
    <2>2. t' = t /\ InCall(t)' /\ trans'[t].resp = 0 /\ trans'[t].rid = tresp'.rid
      BY <1>1, <1>2, <1>4, <1>7, <2>1
    <2> QED
      BY <1>3, <2>1, <2>2 DEF WalkInv
  <1>13. LifeInv'
    BY <1>1, <1>3, <1>6 DEF LifeInv, Serving
  <1>14. \A c \in Clients : ClientInv(c)'
    <2> SUFFICES ASSUME NEW c \in Clients PROVE ClientInv(c)'
      OBVIOUS
    <2>1. ClientInv(c) /\ (c = p => pc[c] # "push")
      BY <1>2 DEF Pending, InCall
    <2> QED
      BY <1>1, <1>3, <1>7, <2>1 DEF ClientInv
  <1>15. RidInv'
    BY <1>3, <1>6, <1>7 DEF RidInv, Numbered
  <1> QED
    BY <1>9, <1>11, <1>12, <1>13, <1>14, <1>15

LEMMA CopyStep ==
  ASSUME TypeInv, FoundInv, Copy
  PROVE  FoundInv'
  <1> USE DEF FoundInv, CallsInv
  <1>1. /\ pc[mnt] = "copy" /\ trans' = [trans EXCEPT ![t].resp = tresp.rid]
        /\ UNCHANGED <<b, state, n, t, p, tresp, closed, calls, srv>>
    BY DEF Copy, At, MntUnchanged
  <1>2. PICK l \in {"data", "serve"} : pc' = [pc EXCEPT ![mnt] = l]
    BY DEF Copy, Goto
  <1>3. /\ pc'[mnt] = l
        /\ \A c \in Clients : pc'[c] = pc[c] /\ (InCall(c)' <=> InCall(c))
    BY <1>2 DEF TypeInv, InCall
  <1>4. t \in Clients /\ InCall(t) /\ trans[t].resp = 0 /\ trans[t].rid = tresp.rid
    BY <1>1 DEF WalkInv
  <1>5. \A c \in Clients : InCall(c) => Numbered(c)
    BY DEF InCall, Numbered
  <1>6. pc[t] \in Sent
    <2>1. PICK c \in Clients : InCall(c) /\ pc[c] \in Sent /\ trans[c].resp = 0 /\ trans[c].rid = tresp.rid
      BY <1>1 DEF AskedInv, Asked
    <2>2. c = t
      BY <1>4, <1>5, <2>1 DEF RidInv
    <2> QED
      BY <2>1, <2>2
  <1>7. tresp.rid # 0
    <2>1. 1 <= trans[t].rid
      BY <1>4, <1>5 DEF RidInv
    <2> QED
      BY <1>4, <2>1
  <1>8. \A c \in Clients : /\ trans'[c].served = trans[c].served
                           /\ trans'[c].rid = trans[c].rid /\ trans'[c].next = trans[c].next
                           /\ trans'[c].resp = IF c = t THEN tresp.rid ELSE trans[c].resp
    BY <1>1, <1>4, TransFields DEF TypeInv
  <1>9. Pending' = Pending
    BY <1>1, <1>3, <1>4, <1>7, <1>8 DEF Pending
  <1>10. ListInv'
    <2>1. NextOf' = NextOf
      BY <1>8 DEF NextOf
    <2> QED
      BY <1>1, <1>9, <2>1 DEF ListInv
  <1>11. AskedInv'
    <2>1. ASSUME srv.at \in {"more", "work"} PROVE Asked(srv.rid)'
      <3>1. srv.rid # tresp.rid
        BY <1>1, <2>1 DEF AskedInv
      <3>2. PICK c \in Clients : InCall(c) /\ pc[c] \in Sent /\ trans[c].resp = 0 /\ trans[c].rid = srv.rid
        BY <2>1 DEF AskedInv, Asked
      <3>3. c # t
        BY <1>4, <3>1, <3>2
      <3>4. InCall(c)' /\ pc'[c] \in Sent /\ trans'[c].resp = 0 /\ trans'[c].rid = srv'.rid
        BY <1>1, <1>3, <1>8, <3>2, <3>3
      <3> QED
        BY <3>4 DEF Asked
    <2> QED
      BY <1>1, <1>2, <1>3, <2>1 DEF AskedInv
  <1>12. WalkInv'
    <2>1. ~trans[t].served
      BY <1>4 DEF ClientInv
    <2>2. t' = t /\ InCall(t)' /\ trans'[t].resp # 0 /\ ~trans'[t].served
      BY <1>1, <1>3, <1>4, <1>7, <1>8, <2>1
    <2> QED
      BY <1>2, <1>3, <1>4, <2>2 DEF WalkInv
  <1>13. LifeInv'
    BY <1>1, <1>2, <1>3 DEF LifeInv, Serving
  <1>14. \A c \in Clients : ClientInv(c)'
    <2> SUFFICES ASSUME NEW c \in Clients PROVE ClientInv(c)'
      OBVIOUS
    <2>1. ClientInv(c) /\ (c = t => pc[c] \in Sent)
      BY <1>6
    <2> QED
      BY <1>1, <1>3, <1>7, <1>8, <2>1 DEF ClientInv
  <1>15. RidInv'
    BY <1>1, <1>3, <1>8 DEF RidInv, Numbered
  <1> QED
    BY <1>10, <1>11, <1>12, <1>13, <1>14, <1>15

LEMMA ServedStep ==
  ASSUME TypeInv, FoundInv, Served
  PROVE  FoundInv'
  <1> USE DEF FoundInv, CallsInv
  <1>1. /\ pc[mnt] = "serve" /\ trans' = [trans EXCEPT ![t].served = TRUE]
        /\ pc' = [pc EXCEPT ![mnt] = "ready"]
        /\ UNCHANGED <<b, state, n, t, p, tresp, closed, calls, srv>>
    BY DEF Served, At, Goto, MntUnchanged
  <1>2. /\ pc'[mnt] = "ready"
        /\ \A c \in Clients : pc'[c] = pc[c] /\ (InCall(c)' <=> InCall(c))
    BY <1>1 DEF TypeInv, InCall
  <1>3. t \in Clients /\ InCall(t) /\ trans[t].resp # 0
    BY <1>1 DEF WalkInv
  <1>4. \A c \in Clients : /\ trans'[c].resp = trans[c].resp
                           /\ trans'[c].rid = trans[c].rid /\ trans'[c].next = trans[c].next
                           /\ trans'[c].served = IF c = t THEN TRUE ELSE trans[c].served
    BY <1>1, <1>3, TransFields DEF TypeInv
  <1>5. Pending' = Pending
    BY <1>1, <1>2, <1>4 DEF Pending
  <1>6. ListInv'
    <2>1. NextOf' = NextOf
      BY <1>4 DEF NextOf
    <2> QED
      BY <1>1, <1>5, <2>1 DEF ListInv
  <1>7. AskedInv'
    <2>1. ASSUME srv.at \in {"more", "work"} PROVE Asked(srv.rid)'
      <3>1. PICK c \in Clients : InCall(c) /\ pc[c] \in Sent /\ trans[c].resp = 0 /\ trans[c].rid = srv.rid
        BY <2>1 DEF AskedInv, Asked
      <3>2. InCall(c)' /\ pc'[c] \in Sent /\ trans'[c].resp = 0 /\ trans'[c].rid = srv'.rid
        BY <1>1, <1>2, <1>4, <3>1
      <3> QED
        BY <3>2 DEF Asked
    <2> QED
      BY <1>1, <1>2, <2>1 DEF AskedInv
  <1>8. WalkInv'
    <2>1. t' = t /\ t \in Clients
      BY <1>1, <1>3
    <2> QED
      BY <1>2, <1>3, <2>1 DEF WalkInv
  <1>9. LifeInv'
    BY <1>1, <1>2 DEF LifeInv, Serving
  <1>10. \A c \in Clients : ClientInv(c)'
    <2> SUFFICES ASSUME NEW c \in Clients PROVE ClientInv(c)'
      OBVIOUS
    <2>1. ClientInv(c)
      OBVIOUS
    <2>2. trans'[c].resp # 0 => trans'[c].served
      BY <1>1, <1>3, <1>4, <2>1 DEF ClientInv
    <2>3. trans'[c].resp = 0 => ~trans'[c].served
      BY <1>3, <1>4, <2>1 DEF ClientInv
    <2> QED
      BY <1>1, <1>2, <1>4, <2>1, <2>2, <2>3 DEF ClientInv
  <1>11. RidInv'
    BY <1>1, <1>2, <1>4 DEF RidInv, Numbered
  <1> QED
    BY <1>6, <1>7, <1>8, <1>9, <1>10, <1>11

(* What FoundInv depends on. *)
LEMMA FoundSame ==
  ASSUME FoundInv, UNCHANGED <<b, closed, trans, calls, state, pc, n, t, p, tresp, srv>>
  PROVE  FoundInv'
  <1> USE DEF FoundInv, CallsInv, InCall
  <1>1. Pending' = Pending /\ NextOf' = NextOf
    BY DEF Pending, NextOf
  <1>2. ListInv' /\ LifeInv' /\ RidInv'
    BY <1>1 DEF ListInv, LifeInv, RidInv, Numbered
  <1>3. \A c \in Clients : ClientInv(c)'
    BY DEF ClientInv
  <1>4. AskedInv'
    BY DEF AskedInv, Asked
  <1>5. WalkInv'
    BY <1>1 DEF WalkInv, Past
  <1> QED
    BY <1>2, <1>3, <1>4, <1>5

(* Every step, while somebody calls. *)
LEMMA FoundStep ==
  ASSUME TypeInv, PlainInv, FoundInv, Busy, Busy', Next
  PROVE  FoundInv'
  <1>1. /\ ~gone /\ ~gone' /\ pc[mnt] \in Serving /\ closed = {}
        /\ \A c \in Clients : pc[c] \in {"idle"} \cup (Calling \ {"failed", "fail", "dead"})
    BY DEF Busy, FoundInv, CallsInv, LifeInv
  <1>2. ASSUME NEW c \in Clients, Asks(c) PROVE FoundInv'
    <2>1. ~WriteFails(c) /\ ~DataFails(c)
      BY <1>1 DEF WriteFails, DataFails
    <2>2. ~Drop(c)
      <3> SUFFICES ASSUME Drop(c) PROVE FALSE
        OBVIOUS
      <3>1. \A d \in Clients : pc[d] = "idle" /\ calls[d] = MaxCalls
        BY DEF Drop
      <3> QED
        BY <3>1 DEF Busy, AllOver, Calling
    <2>3. ASSUME NEW k \in Kinds, Call(c, k) PROVE FoundInv'
      BY <2>3, CallStep
    <2>4. CASE Number(c)
      BY <2>4, NumberStepFound
    <2>5. CASE LoadWaiting(c)
      BY <2>5, LoadStepFound
    <2>6. CASE Push(c)
      BY <2>6, PushStepFound
    <2>7. CASE Return(c)
      BY <2>7, ReturnStep
    <2>8. CASE TestOut(c) \/ PushFails(c) \/ Lock(c) \/ Write(c) \/ Unlock(c) \/ Check(c) \/ Sleep(c)
      BY <2>8, PlainMoves
    <2> QED
      BY <1>2, <2>1, <2>2, <2>3, <2>4, <2>5, <2>6, <2>7, <2>8 DEF Asks
  <1>3. CASE Server
    <2>1. ~Quit
      BY <1>1 DEF Quit
    <2>2. ASSUME NEW c \in Clients, ReadRequest(c) \/ ReadData(c) PROVE FoundInv'
      BY <2>2, ReadMoves
    <2>3. ASSUME NEW ok \in BOOLEAN, Respond(ok) PROVE FoundInv'
      BY <2>3, RespondStep
    <2>4. CASE RespondData
      BY <2>4, ServeSteps
    <2> QED
      BY <1>3, <2>1, <2>2, <2>3, <2>4 DEF Server
  <1>4. CASE Mounts
    <2>1. ~ReadFails /\ ~DataMissing
      BY <1>1 DEF ReadFails, DataMissing
    <2>2. ~TearDown /\ ~LoadList /\ ~FailWaiter /\ ~WakeWaiter /\ ~MntUnlock
      BY <1>1 DEF TearDown, LoadList, FailWaiter, WakeWaiter, MntUnlock, At, Serving
    <2>3. CASE Loop \/ Read \/ Ready
      BY <2>3, ServeSteps
    <2>4. CASE Find \/ Walk \/ Found \/ RemoveFails
      BY <2>4, WalkSteps
    <2>5. CASE WakesAstray
      <3>1. UNCHANGED <<b, closed, trans, calls, state, pc, n, t, p, tresp, srv>>
        BY <2>5 DEF WakesAstray
      <3> QED
        BY <3>1, FoundSame
    <2> QED
      BY <1>4, <2>1, <2>2, <2>3, <2>4, <2>5, HasWaiter, RemoveStep, CopyStep, ServedStep DEF Mounts
  <1>5. ASSUME NEW q \in Procs, Frees(q) PROVE FALSE
    <2>1. pc[q] \in Serving \cup Calling \cup {"idle"}
      BY <1>1
    <2> QED
      BY <1>5, <2>1 DEF Frees, DecRefs, FreeEnds, TestEnd, CloseEnd, ClearEnd, FreeBinding, At, Serving, Calling
  <1>6. ASSUME NEW q \in Procs, Undefined(q) PROVE FoundInv'
    <2>1. UNCHANGED <<b, closed, trans, calls, state, pc, n, t, p, tresp, srv>>
      BY <1>6 DEF Undefined
    <2> QED
      BY <2>1, FoundSame
  <1> QED
    BY <1>2, <1>3, <1>4, <1>5, <1>6 DEF Next

(* While the server lives, mountproc() finds every request that has no     *)
(* answer on b->waiting, or has just taken it off to answer it: pushes of  *)
(* several clients and removals from the front or the middle lose none.    *)
THEOREM RequestsFound == Spec => []NoneForgotten
  <1>1. Init => BusyInv
    <2> SUFFICES ASSUME Init PROVE FoundInv
      BY DEF BusyInv
    <2> USE DEF Init
    <2>1. /\ pc[mnt] = "loop" /\ \A c \in Clients : pc[c] = "idle" /\ trans[c] = NoTrans
      OBVIOUS
    <2>2. Pending = {}
      BY <2>1 DEF Pending, InCall
    <2>3. ListInv
      BY <2>2 DEF ListInv, ListOf, Leads
    <2>4. LifeInv
      BY <2>1 DEF LifeInv, Serving
    <2>5. \A c \in Clients : ClientInv(c)
      BY <2>1 DEF ClientInv, NoTrans
    <2>6. RidInv
      BY <2>1 DEF RidInv, Numbered
    <2>7. AskedInv /\ WalkInv
      BY <2>1 DEF AskedInv, WalkInv, Idle
    <2> QED
      BY <2>3, <2>4, <2>5, <2>6, <2>7 DEF FoundInv, CallsInv
  <1>2. TypeInv /\ PlainInv /\ BusyInv /\ [Next]_vars => BusyInv'
    <2> SUFFICES ASSUME TypeInv, PlainInv, BusyInv, [Next]_vars, Busy' PROVE FoundInv'
      BY DEF BusyInv
    <2>1. CASE UNCHANGED vars
      <3>1. Busy
        BY <2>1 DEF Busy, AllOver, vars
      <3> QED
        BY <2>1, <3>1, FoundSame DEF BusyInv, vars
    <2>2. CASE Next
      <3>1. Busy
        BY <2>2, BusyBefore
      <3> QED
        BY <2>2, <3>1, FoundStep DEF BusyInv
    <2> QED
      BY <2>1, <2>2
  <1>3. AllTypes => TypeInv /\ PlainInv
    BY DEF AllTypes, IInv
  <1>4. BusyInv => NoneForgotten
    <2> SUFFICES ASSUME BusyInv, ~gone, NEW c \in Clients, InCall(c), trans[c].resp = 0,
                        ~(t = c /\ pc[mnt] = "copy")
                 PROVE  c \in Chain
      BY DEF NoneForgotten
    <2>1. ~AllOver
      BY DEF AllOver, InCall, Calling
    <2>2. ListInv
      BY <2>1 DEF BusyInv, Busy, FoundInv
    <2>3. c \in Pending
      BY DEF Pending
    <2>4. ASSUME NEW X \in SUBSET Clients, Closed(X) PROVE c \in X
      <3>1. Leads(b.waiting, NextOf, X \cap Pending)
        BY <2>2, <2>4 DEF ListInv, ListOf, Leads, Closed, NextOf, Pending
      <3>2. X \cap Pending = Pending
        BY <2>2, <3>1 DEF ListInv, ListOf
      <3> QED
        BY <2>3, <3>2
    <2> QED
      BY <2>4 DEF Chain
  <1> QED
    BY <1>1, <1>2, <1>3, <1>4, InitTypes, TypesKept, PTL DEF Spec
=============================================================================
