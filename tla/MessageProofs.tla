--------------------------- MODULE MessageProofs ---------------------------
(***************************************************************************)
(* message(), recv(), reply() and unserv() of Message for any number of    *)
(* processes, groups and messages.  Two lists run through the same field   *)
(* next of a message, changed by compare and swap while others walk them:  *)
(* recv of messages nobody has received, and reply of those a server has.  *)
(* References keep the address while somebody serves (RefInv); a number is *)
(* given once, and known to one server (MidInv); what a server has in its  *)
(* hands is no other's (HandInv, DoneInv); the queue is one chain of what  *)
(* is still fresh (QueueInv).  With one server the list of replies, too,   *)
(* is a chain apart from the queue (ListInv), so that after the last       *)
(* reference no answered message is reached and failed (EndInv).           *)
(***************************************************************************)
EXTENDS Message, FiniteSetTheorems, TLAPS

(* No process that gives the address up is of the group of a server, or of *)
(* another that gives it up.                                               *)
OwnGroups == \A u \in Removers, q \in Servers \cup Removers : GroupOf[u] = GroupOf[q] => u = q

(* One server, which may reply twice to one message.                       *)
OneServer == \A v, w \in Servers : v = w

(* Where a process can be: freeing the messages left, sending, with a       *)
(* message taken off the queue, in recv() with the lock, in reply() with its *)
(* message found, and elsewhere.                                           *)
FreeLabels == {"fwake", "fnext", "ftwo", "ffree"}
SendLabels == {"idle", "call", "load", "walk", "link", "notify", "sleep", "asleep"}
TakeLabels == {"unlock", "rlink", "rstore", "deliver"}
HoldLabels == {"head", "announce", "rsleep", "rasleep", "rnext", "rpop", "unlock"}
FoundLabels == {"knext", "kpop", "kcopy", "kready"}
ReplyLabels == {"kload", "kwalk"} \cup FoundLabels
ServeLabels == {"idle", "lock", "rlink", "rstore", "deliver", "free", "dead"}
               \cup HoldLabels \cup ReplyLabels \cup FreeLabels
RemoveLabels == {"idle", "free", "clear"} \cup FreeLabels
AllLabels == SendLabels \cup ServeLabels \cup RemoveLabels

USE MessageAssumption DEF Procs, At, Goto, addr, msgs, server, locals, vars

(* The values of each field and local.                                     *)
Types ==
  /\ recv \in Senders \cup {None} /\ reply \in Senders \cup {None}
  /\ waiting \in Servers \cup {None} /\ holder \in Servers \cup {None}
  /\ nextmid \in 1..(MaxMid + 1)
  /\ slot \subseteq Groups
  /\ next \in [Senders -> Senders \cup {None}]
  /\ mid \in [Senders -> 0..MaxMid]
  /\ ret \in [Senders -> {"none", "ok", "err"}]
  /\ knows \in [Servers -> SUBSET (1..MaxMid)]
  /\ done \in [Servers -> SUBSET (1..MaxMid)]
  /\ state \in [Procs -> {"run", "waiting"}]
  /\ pc \in [Procs -> AllLabels]
  /\ m \in [Procs -> Senders \cup {None}]
  /\ p \in [Procs -> Senders \cup {None}]
  /\ n \in [Procs -> Senders \cup {None}]
  /\ want \in [Servers -> 0..MaxMid]

(* Where a process is, and what it has in its hands there.                 *)
Labels ==
  /\ \A s \in Senders : pc[s] \in SendLabels
  /\ \A v \in Servers : pc[v] \in ServeLabels
  /\ \A u \in Removers : pc[u] \in RemoveLabels
  /\ \A v \in Servers : pc[v] \in {"rnext", "rpop"} \cup TakeLabels \cup FoundLabels => m[v] # None
  /\ \A q \in Procs : pc[q] \in {"fwake", "fnext"} => m[q] # None

TypeInv == Types /\ Labels
-----------------------------------------------------------------------------
(* q, or its group, has no use of the address any more; refs counts the    *)
(* groups with a process that has.                                         *)
Gone(q) == IF q \in Removers THEN pc[q] \in {"clear"} \cup FreeLabels \/ GroupOf[q] \notin slot
           ELSE q \in Servers /\ pc[q] \in {"dead"} \cup FreeLabels
Holding == {g \in Groups : /\ \A u \in Removers : GroupOf[u] = g => ~Gone(u)
                           /\ \E q \in Procs : GroupOf[q] = g /\ ~Gone(q)}
HoldInv == refs = Cardinality(Holding)

(* A server drops the reference of its group as the last process of it, a   *)
(* remover as the one that empties the slot; messages are failed after the *)
(* last reference.                                                         *)
PlaceInv ==
  /\ \A v \in Servers : GroupOf[v] \in slot
  /\ \A v \in Servers : pc[v] = "free" => LastOfGroup(v)
  /\ \A u \in Removers : pc[u] \in {"free", "clear"} \cup FreeLabels => GroupOf[u] \in slot
  /\ \A q \in Procs : pc[q] \in FreeLabels => refs = 0

RefInv == HoldInv /\ PlaceInv
-----------------------------------------------------------------------------
(* Messages on a list, in the hands of a server, and not yet received.     *)
Linked(s) == pc[s] \in {"notify", "sleep", "asleep"}
Taken(v) == pc[v] \in TakeLabels
InHand(v) == pc[v] \in FoundLabels
Fresh(s) == InCall(s) /\ ret[s] = "none" /\ ~Received(s)
Queued(s) == Linked(s) /\ Fresh(s)

(* The number of a call is its own and below the next one; one server at   *)
(* most knows it, once the message is on the queue, and it is answered only *)
(* after that.                                                             *)
MidInv ==
  /\ \A s \in Senders : mid[s] < nextmid /\ (InCall(s) <=> mid[s] # 0)
  /\ \A s, t \in Senders : mid[s] = mid[t] /\ InCall(s) => s = t
  /\ \A v \in Servers : \A k \in knows[v] : k < nextmid
  /\ \A v, w \in Servers : v # w => knows[v] \cap knows[w] = {}
  /\ \A v \in Servers : pc[v] \in ReplyLabels => want[v] \in knows[v]
  /\ \A s \in Senders : ~Linked(s) => /\ ret[s] # "ok"
                                      /\ \A v \in Servers : mid[s] \notin knows[v]
  /\ \A s \in Senders : ~InCall(s) => ret[s] = "none" /\ next[s] = None
  /\ \A s \in Senders : pc[s] = "asleep" /\ state[s] = "run" => ret[s] # "none"
  /\ \A s \in Senders : pc[s] # "asleep" => state[s] = "run"

(* What recv() took off the queue is known to nobody and in one pair of    *)
(* hands; what reply() found is the message of the number it looks for, not *)
(* answered before.                                                        *)
HandInv ==
  /\ \A v \in Servers : pc[v] \in HoldLabels => holder = v
  /\ \A v \in Servers : Taken(v) =>
       /\ Linked(m[v]) /\ ret[m[v]] = "none"
       /\ \A w \in Servers : mid[m[v]] \notin knows[w] /\ (Taken(w) /\ m[w] = m[v] => v = w)
  /\ \A v \in Servers : InHand(v) =>
       /\ Linked(m[v]) /\ mid[m[v]] = want[v]
       /\ pc[m[v]] = "asleep" => state[m[v]] = "waiting"
       /\ ret[m[v]] = IF pc[v] = "kready" THEN "ok" ELSE "none"

(* A number is answered by a reply() that was called for it, and no other   *)
(* looks for it afterwards.                                                *)
DoneInv ==
  ~Repeats => \A s \in Senders, v \in Servers :
     /\ done[v] \subseteq knows[v]
     /\ pc[v] \in ReplyLabels => want[v] \in done[v]
     /\ mid[s] \in knows[v] /\ InCall(s) /\ ret[s] = "ok" =>
         /\ mid[s] \in done[v]
         /\ pc[v] \in ReplyLabels \ {"kready"} => want[v] # mid[s]

(* While the address is held, recv leads to fresh messages only, each from  *)
(* one place, and the server that holds the lock has the first of them.    *)
QueueInv ==
  refs > 0 =>
  /\ \A s \in Senders : ret[s] # "err"
  /\ recv # None => Queued(recv)
  /\ \A x \in Senders : Fresh(x) /\ next[x] # None => Queued(next[x]) /\ next[x] # recv
  /\ \A x, y \in Senders : Fresh(x) /\ Fresh(y) /\ next[x] = next[y] /\ next[x] # None => x = y
  /\ \A v \in Servers : pc[v] \in {"rnext", "rpop"} => m[v] = recv
  /\ \A v \in Servers : pc[v] = "rpop" /\ n[v] # None => next[m[v]] = n[v]

(* A message that is not answered, one that is on a list, the one a server *)
(* moves from the queue to the replies, those whose next leads on in a      *)
(* list, and the one stored as the new first reply.                        *)
Open(x) == InCall(x) /\ ret[x] = "none" /\ \A v \in Servers : ~(pc[v] = "kcopy" /\ m[v] = x)
Live(x) == Linked(x) /\ Open(x)
Root(v, x) == pc[v] \in {"unlock", "rlink", "rstore"} /\ m[v] = x
Points(x) == Open(x) /\ \A v \in Servers : ~(pc[v] \in {"unlock", "rlink"} /\ m[v] = x)
Storing(v, x) == pc[v] = "rstore" /\ m[v] = x

(* The two lists meet in no message, and each message has one way to it.   *)
ListWays ==
  /\ recv # None => Live(recv) /\ recv # reply
  /\ reply # None => Live(reply)
  /\ \A x \in Senders : Open(x) /\ next[x] # None => Live(next[x])
  /\ \A x \in Senders : Points(x) /\ next[x] # None =>
       /\ next[x] # recv
       /\ next[x] = reply => \E v \in Servers : Storing(v, x)
       /\ \A v \in Servers : ~Root(v, next[x])
       /\ \A y \in Senders : Points(y) /\ next[y] = next[x] => x = y

(* The server of the lists has its message off both of them, or in reply. *)
ListHands ==
  \A v \in Servers :
    /\ pc[v] \in {"unlock", "rlink", "rstore"} => m[v] # recv /\ m[v] # reply
    /\ pc[v] = "rstore" /\ reply # None => next[m[v]] = reply
    /\ pc[v] \in {"kwalk", "knext", "kpop"} =>
         /\ m[v] # None => Live(m[v])
         /\ p[v] # None => Live(p[v]) /\ mid[p[v]] # want[v]
    /\ pc[v] = "kpop" /\ n[v] # None => next[m[v]] = n[v]
    /\ pc[v] = "kcopy" => m[v] # recv /\ m[v] # reply

ListInv == refs > 0 => ListWays /\ ListHands

(* After the last reference no list leads to a message that was answered.  *)
EndInv ==
  refs = 0 =>
  /\ recv # None => ret[recv] # "ok"
  /\ reply # None => ret[reply] # "ok"
  /\ \A x \in Senders : ret[x] # "ok" /\ next[x] # None => ret[next[x]] # "ok"
  /\ \A q \in Procs : pc[q] \in {"fwake", "fnext"} => ret[m[q]] # "ok"
-----------------------------------------------------------------------------
LEMMA FiniteGroups == IsFiniteSet(Groups)
<1> DEFINE f == [q \in Procs |-> GroupOf[q]]
<1>1. f \in Surjection(Procs, Groups)
  BY DEF Surjection, Groups
<1> QED BY <1>1, FS_Surjection

LEMMA FiniteHolding == IsFiniteSet(Holding)
BY FiniteGroups, FS_Subset DEF Holding

LEMMA SameHolding ==
  ASSUME HoldInv, refs' = refs, \A q \in Procs : Gone(q)' <=> Gone(q)
  PROVE  HoldInv'
<1>1. Holding' = Holding
  BY DEF Holding
<1> QED BY <1>1 DEF HoldInv

(* While a server lives, the reference of its group is held.               *)
LEMMA ServerHolds ==
  ASSUME HoldInv, OwnGroups, NEW v \in Servers, ~Gone(v)
  PROVE  refs \in Nat \ {0} /\ GroupOf[v] \in Holding
<1>1. GroupOf[v] \in Holding
  BY DEF Holding, Groups, OwnGroups
<1> QED BY <1>1, FiniteHolding, FS_CardinalityType, FS_EmptySet DEF HoldInv

LEMMA RemoverHolds ==
  ASSUME HoldInv, OwnGroups, NEW u \in Removers, ~Gone(u)
  PROVE  refs \in Nat \ {0} /\ GroupOf[u] \in Holding
<1>1. GroupOf[u] \in Holding
  BY DEF Holding, Groups, OwnGroups
<1> QED BY <1>1, FiniteHolding, FS_CardinalityType, FS_EmptySet DEF HoldInv

(* The process that drops a reference is the last to hold it.              *)
LEMMA DropHolds ==
  ASSUME TypeInv, RefInv, OwnGroups, NEW u \in Servers \cup Removers, pc[u] = "free"
  PROVE  refs \in Nat \ {0} /\ ~Gone(u) /\ GroupOf[u] \in Holding
<1>1. ~Gone(u)
  BY DEF Gone, FreeLabels, RefInv, PlaceInv
<1> QED BY <1>1, ServerHolds, RemoverHolds DEF RefInv

(* Once no reference is held no server is in recv() or reply().            *)
LEMMA NobodyServes ==
  ASSUME HoldInv, OwnGroups, refs = 0, NEW v \in Servers
  PROVE  ~Taken(v) /\ ~InHand(v) /\ pc[v] \notin HoldLabels \cup ReplyLabels
BY ServerHolds DEF Gone, Taken, InHand, TakeLabels, FoundLabels, HoldLabels,
                   ReplyLabels, FreeLabels

(* A step after which fewer messages lead on keeps the lists.              *)
LEMMA FewerWays ==
  ASSUME Types, ListWays, recv' = recv, reply' = reply,
         \A x \in Senders : Live(x) => Live(x)',
         \A x \in Senders : Open(x)' /\ next'[x] # None => Open(x) /\ next'[x] = next[x],
         \A x \in Senders : Points(x)' /\ next'[x] # None => Points(x),
         \A v \in Servers, x \in Senders : /\ Root(v, x)' => Root(v, x)
                                           /\ Storing(v, x) => Storing(v, x)'
  PROVE  ListWays'
<1>1. (Live(recv)' /\ recv # reply) \/ recv = None
  BY DEF ListWays, Types
<1>2. reply # None => Live(reply)'
  BY DEF ListWays, Types
<1>3. ASSUME NEW x \in Senders, Open(x)', next'[x] # None PROVE Live(next[x])'
  BY <1>3 DEF ListWays, Types
<1>4. ASSUME NEW x \in Senders, Points(x)', next'[x] # None
      PROVE  /\ Points(x) /\ next'[x] = next[x] /\ next[x] \in Senders
  BY <1>4 DEF Points, Types
<1>5. ASSUME NEW x \in Senders, Points(x)', next'[x] # None
      PROVE  /\ next'[x] # recv'
             /\ next'[x] = reply' => \E v \in Servers : Storing(v, x)'
             /\ \A v \in Servers : ~Root(v, next[x])'
             /\ \A y \in Senders : Points(y)' /\ next'[y] = next'[x] => x = y
  BY <1>4, <1>5 DEF ListWays
<1> QED BY <1>1, <1>2, <1>3, <1>5 DEF ListWays

(* The types are kept by every step.                                       *)
LEMMA TypesStep ==
  ASSUME TypeInv, MidInv, HandInv, Next
  PROVE  Types'
<1> USE DEF TypeInv, Types, Labels, AllLabels, SendLabels, ServeLabels, RemoveLabels,
            TakeLabels, HoldLabels, FoundLabels, ReplyLabels, FreeLabels
<1>1. ASSUME NEW s \in Senders, Begin(s) PROVE Types'
  BY <1>1 DEF Begin
<1>2. ASSUME NEW s \in Senders, Number(s) PROVE Types'
  BY <1>2 DEF Number
<1>3. ASSUME NEW s \in Senders, LoadRecv(s) PROVE Types'
  BY <1>3 DEF LoadRecv
<1>4. ASSUME NEW s \in Senders, Walk(s) PROVE Types'
  BY <1>4 DEF Walk
<1>5. ASSUME NEW s \in Senders, WalkEnds(s) PROVE Types'
  BY <1>5 DEF WalkEnds
<1>6. ASSUME NEW s \in Senders, Link(s) PROVE Types'
  BY <1>6 DEF Link
<1>7. ASSUME NEW s \in Senders, LinkFails(s) PROVE Types'
  BY <1>7 DEF LinkFails
<1>8. ASSUME NEW s \in Senders, Notify(s) PROVE Types'
  BY <1>8 DEF Notify
<1>9. ASSUME NEW s \in Senders, Return(s) PROVE Types'
  BY <1>9 DEF Return
<1>10. ASSUME NEW v \in Servers, Recv(v) PROVE Types'
  BY <1>10 DEF Recv
<1>11. ASSUME NEW v \in Servers, Lock(v) PROVE Types'
  BY <1>11 DEF Lock
<1>12. ASSUME NEW v \in Servers, Head(v) PROVE Types'
  BY <1>12 DEF Head
<1>13. ASSUME NEW v \in Servers, Announce(v) PROVE Types'
  BY <1>13 DEF Announce
<1>14. ASSUME NEW v \in Servers, Fault(v) PROVE Types'
  BY <1>14 DEF Fault, LastOfGroup
<1>15. ASSUME NEW v \in Servers, LoadNext(v) PROVE Types'
  BY <1>15 DEF LoadNext
<1>16. ASSUME NEW v \in Servers, Pop(v) PROVE Types'
  BY <1>16 DEF Pop
<1>17. ASSUME NEW v \in Servers, PopFails(v) PROVE Types'
  BY <1>17 DEF PopFails
<1>18. ASSUME NEW v \in Servers, Unlock(v) PROVE Types'
  BY <1>18 DEF Unlock
<1>19. ASSUME NEW v \in Servers, LinkReply(v) PROVE Types'
  BY <1>19 DEF LinkReply
<1>20. ASSUME NEW v \in Servers, StoreReply(v) PROVE Types'
  BY <1>20 DEF StoreReply
<1>21. ASSUME NEW v \in Servers, Deliver(v) PROVE Types'
  <2>1. mid[m[v]] \in 1..MaxMid
    BY <1>21 DEF Deliver, HandInv, MidInv, Linked, Taken, InCall
  <2> QED BY <1>21, <2>1 DEF Deliver
<1>22. ASSUME NEW v \in Servers, LoadReply(v) PROVE Types'
  BY <1>22 DEF LoadReply
<1>23. ASSUME NEW v \in Servers, Other(v) PROVE Types'
  BY <1>23 DEF Other
<1>24. ASSUME NEW v \in Servers, NotFound(v) PROVE Types'
  BY <1>24 DEF NotFound, Done
<1>25. ASSUME NEW v \in Servers, Found(v) PROVE Types'
  BY <1>25 DEF Found
<1>26. ASSUME NEW v \in Servers, LoadAfter(v) PROVE Types'
  BY <1>26 DEF LoadAfter
<1>27. ASSUME NEW v \in Servers, Unlink(v) PROVE Types'
  BY <1>27 DEF Unlink
<1>28. ASSUME NEW v \in Servers, UnlinkFails(v) PROVE Types'
  BY <1>28 DEF UnlinkFails
<1>29. ASSUME NEW v \in Servers, Answer(v) PROVE Types'
  BY <1>29 DEF Answer
<1>30. ASSUME NEW v \in Servers, ReadySender(v) PROVE Types'
  BY <1>30 DEF ReadySender, Done
<1>31. ASSUME NEW v \in Servers, NEW k \in 1..MaxMid, Reply(v, k) PROVE Types'
  BY <1>31 DEF Reply
<1>32. ASSUME NEW q \in Procs, Sleep(q) PROVE Types'
  BY <1>32 DEF Sleep
<1>33. ASSUME NEW u \in Servers \cup Removers, DropRef(u) PROVE Types'
  BY <1>33 DEF DropRef, After
<1>34. ASSUME NEW u \in Servers \cup Removers, FailSender(u) PROVE Types'
  BY <1>34 DEF FailSender
<1>35. ASSUME NEW u \in Servers \cup Removers, FreeNext(u) PROVE Types'
  BY <1>35 DEF FreeNext
<1>36. ASSUME NEW u \in Servers \cup Removers, FreeReplies(u) PROVE Types'
  BY <1>36 DEF FreeReplies
<1>37. ASSUME NEW u \in Servers \cup Removers, Free(u) PROVE Types'
  BY <1>37 DEF Free, After
<1>38. ASSUME NEW u \in Removers, Unserv(u) PROVE Types'
  BY <1>38 DEF Unserv
<1>39. ASSUME NEW u \in Removers, Clear(u) PROVE Types'
  BY <1>39 DEF Clear
<1>40. ASSUME NEW q \in Procs, Undefined(q) PROVE Types'
  BY <1>40 DEF Undefined
<1> QED
  BY <1>1, <1>2, <1>3, <1>4, <1>5, <1>6, <1>7, <1>8, <1>9, <1>10, <1>11,
     <1>12, <1>13, <1>14, <1>15, <1>16, <1>17, <1>18, <1>19, <1>20, <1>21,
     <1>22, <1>23, <1>24, <1>25, <1>26, <1>27, <1>28, <1>29, <1>30, <1>31,
     <1>32, <1>33, <1>34, <1>35, <1>36, <1>37, <1>38, <1>39, <1>40 DEF Next,
     Sends, Receives, Replies, Frees, Serves

(* A process stays in its part of the code, with its message at hand.      *)
LEMMA LabelsStep ==
  ASSUME TypeInv, RefInv, OwnGroups, Next
  PROVE  Labels'
<1> USE DEF TypeInv, Types, Labels, AllLabels, SendLabels, ServeLabels, RemoveLabels,
            TakeLabels, HoldLabels, FoundLabels, ReplyLabels, FreeLabels
<1>1. ASSUME NEW s \in Senders, Begin(s) PROVE Labels'
  BY <1>1 DEF Begin
<1>2. ASSUME NEW s \in Senders, Number(s) PROVE Labels'
  BY <1>2 DEF Number
<1>3. ASSUME NEW s \in Senders, LoadRecv(s) PROVE Labels'
  BY <1>3 DEF LoadRecv
<1>4. ASSUME NEW s \in Senders, Walk(s) PROVE Labels'
  BY <1>4 DEF Walk
<1>5. ASSUME NEW s \in Senders, WalkEnds(s) PROVE Labels'
  BY <1>5 DEF WalkEnds
<1>6. ASSUME NEW s \in Senders, Link(s) PROVE Labels'
  BY <1>6 DEF Link
<1>7. ASSUME NEW s \in Senders, LinkFails(s) PROVE Labels'
  BY <1>7 DEF LinkFails
<1>8. ASSUME NEW s \in Senders, Notify(s) PROVE Labels'
  BY <1>8 DEF Notify
<1>9. ASSUME NEW s \in Senders, Return(s) PROVE Labels'
  BY <1>9 DEF Return
<1>10. ASSUME NEW v \in Servers, Recv(v) PROVE Labels'
  BY <1>10 DEF Recv
<1>11. ASSUME NEW v \in Servers, Lock(v) PROVE Labels'
  BY <1>11 DEF Lock
<1>12. ASSUME NEW v \in Servers, Head(v) PROVE Labels'
  BY <1>12 DEF Head
<1>13. ASSUME NEW v \in Servers, Announce(v) PROVE Labels'
  BY <1>13 DEF Announce
<1>14. ASSUME NEW v \in Servers, Fault(v) PROVE Labels'
  BY <1>14 DEF Fault, LastOfGroup
<1>15. ASSUME NEW v \in Servers, LoadNext(v) PROVE Labels'
  BY <1>15 DEF LoadNext
<1>16. ASSUME NEW v \in Servers, Pop(v) PROVE Labels'
  BY <1>16 DEF Pop
<1>17. ASSUME NEW v \in Servers, PopFails(v) PROVE Labels'
  BY <1>17 DEF PopFails
<1>18. ASSUME NEW v \in Servers, Unlock(v) PROVE Labels'
  BY <1>18 DEF Unlock
<1>19. ASSUME NEW v \in Servers, LinkReply(v) PROVE Labels'
  BY <1>19 DEF LinkReply
<1>20. ASSUME NEW v \in Servers, StoreReply(v) PROVE Labels'
  BY <1>20 DEF StoreReply
<1>21. ASSUME NEW v \in Servers, Deliver(v) PROVE Labels'
  BY <1>21 DEF Deliver
<1>22. ASSUME NEW v \in Servers, LoadReply(v) PROVE Labels'
  BY <1>22 DEF LoadReply
<1>23. ASSUME NEW v \in Servers, Other(v) PROVE Labels'
  BY <1>23 DEF Other
<1>24. ASSUME NEW v \in Servers, NotFound(v) PROVE Labels'
  BY <1>24 DEF NotFound, Done
<1>25. ASSUME NEW v \in Servers, Found(v) PROVE Labels'
  BY <1>25 DEF Found
<1>26. ASSUME NEW v \in Servers, LoadAfter(v) PROVE Labels'
  BY <1>26 DEF LoadAfter
<1>27. ASSUME NEW v \in Servers, Unlink(v) PROVE Labels'
  BY <1>27 DEF Unlink
<1>28. ASSUME NEW v \in Servers, UnlinkFails(v) PROVE Labels'
  BY <1>28 DEF UnlinkFails
<1>29. ASSUME NEW v \in Servers, Answer(v) PROVE Labels'
  BY <1>29 DEF Answer
<1>30. ASSUME NEW v \in Servers, ReadySender(v) PROVE Labels'
  BY <1>30 DEF ReadySender, Done
<1>31. ASSUME NEW v \in Servers, NEW k \in 1..MaxMid, Reply(v, k) PROVE Labels'
  BY <1>31 DEF Reply
<1>32. ASSUME NEW q \in Procs, Sleep(q) PROVE Labels'
  BY <1>32 DEF Sleep
<1>33. ASSUME NEW u \in Servers \cup Removers, DropRef(u) PROVE Labels'
  <2>1. refs \in Nat \ {0}
    BY <1>33, DropHolds DEF DropRef
  <2> QED BY <1>33, <2>1 DEF DropRef, After
<1>34. ASSUME NEW u \in Servers \cup Removers, FailSender(u) PROVE Labels'
  BY <1>34 DEF FailSender
<1>35. ASSUME NEW u \in Servers \cup Removers, FreeNext(u) PROVE Labels'
  BY <1>35 DEF FreeNext
<1>36. ASSUME NEW u \in Servers \cup Removers, FreeReplies(u) PROVE Labels'
  BY <1>36 DEF FreeReplies
<1>37. ASSUME NEW u \in Servers \cup Removers, Free(u) PROVE Labels'
  BY <1>37 DEF Free, After
<1>38. ASSUME NEW u \in Removers, Unserv(u) PROVE Labels'
  BY <1>38 DEF Unserv
<1>39. ASSUME NEW u \in Removers, Clear(u) PROVE Labels'
  BY <1>39 DEF Clear
<1>40. ASSUME NEW q \in Procs, Undefined(q) PROVE Labels'
  BY <1>40 DEF Undefined
<1> QED
  BY <1>1, <1>2, <1>3, <1>4, <1>5, <1>6, <1>7, <1>8, <1>9, <1>10, <1>11,
     <1>12, <1>13, <1>14, <1>15, <1>16, <1>17, <1>18, <1>19, <1>20, <1>21,
     <1>22, <1>23, <1>24, <1>25, <1>26, <1>27, <1>28, <1>29, <1>30, <1>31,
     <1>32, <1>33, <1>34, <1>35, <1>36, <1>37, <1>38, <1>39, <1>40 DEF Next,
     Sends, Receives, Replies, Frees, Serves

(* A reference is dropped exactly when its group has no further use.       *)
LEMMA HoldStep ==
  ASSUME TypeInv, RefInv, OwnGroups, Next
  PROVE  HoldInv'
<1> USE DEF TypeInv, Types, Labels, AllLabels, SendLabels, ServeLabels, RemoveLabels,
            TakeLabels, HoldLabels, FoundLabels, ReplyLabels, FreeLabels, Gone
<1>1. ASSUME NEW s \in Senders, Begin(s) PROVE HoldInv'
  <2>1. refs' = refs /\ \A q \in Procs : Gone(q)' <=> Gone(q)
    BY <1>1 DEF Begin
  <2> QED BY <2>1, SameHolding DEF RefInv
<1>2. ASSUME NEW s \in Senders, Number(s) PROVE HoldInv'
  <2>1. refs' = refs /\ \A q \in Procs : Gone(q)' <=> Gone(q)
    BY <1>2 DEF Number
  <2> QED BY <2>1, SameHolding DEF RefInv
<1>3. ASSUME NEW s \in Senders, LoadRecv(s) PROVE HoldInv'
  <2>1. refs' = refs /\ \A q \in Procs : Gone(q)' <=> Gone(q)
    BY <1>3 DEF LoadRecv
  <2> QED BY <2>1, SameHolding DEF RefInv
<1>4. ASSUME NEW s \in Senders, Walk(s) PROVE HoldInv'
  <2>1. refs' = refs /\ \A q \in Procs : Gone(q)' <=> Gone(q)
    BY <1>4 DEF Walk
  <2> QED BY <2>1, SameHolding DEF RefInv
<1>5. ASSUME NEW s \in Senders, WalkEnds(s) PROVE HoldInv'
  <2>1. refs' = refs /\ \A q \in Procs : Gone(q)' <=> Gone(q)
    BY <1>5 DEF WalkEnds
  <2> QED BY <2>1, SameHolding DEF RefInv
<1>6. ASSUME NEW s \in Senders, Link(s) PROVE HoldInv'
  <2>1. refs' = refs /\ \A q \in Procs : Gone(q)' <=> Gone(q)
    BY <1>6 DEF Link
  <2> QED BY <2>1, SameHolding DEF RefInv
<1>7. ASSUME NEW s \in Senders, LinkFails(s) PROVE HoldInv'
  <2>1. refs' = refs /\ \A q \in Procs : Gone(q)' <=> Gone(q)
    BY <1>7 DEF LinkFails
  <2> QED BY <2>1, SameHolding DEF RefInv
<1>8. ASSUME NEW s \in Senders, Notify(s) PROVE HoldInv'
  <2>1. refs' = refs /\ \A q \in Procs : Gone(q)' <=> Gone(q)
    BY <1>8 DEF Notify
  <2> QED BY <2>1, SameHolding DEF RefInv
<1>9. ASSUME NEW s \in Senders, Return(s) PROVE HoldInv'
  <2>1. refs' = refs /\ \A q \in Procs : Gone(q)' <=> Gone(q)
    BY <1>9 DEF Return
  <2> QED BY <2>1, SameHolding DEF RefInv
<1>10. ASSUME NEW v \in Servers, Recv(v) PROVE HoldInv'
  <2>1. refs' = refs /\ \A q \in Procs : Gone(q)' <=> Gone(q)
    BY <1>10 DEF Recv
  <2> QED BY <2>1, SameHolding DEF RefInv
<1>11. ASSUME NEW v \in Servers, Lock(v) PROVE HoldInv'
  <2>1. refs' = refs /\ \A q \in Procs : Gone(q)' <=> Gone(q)
    BY <1>11 DEF Lock
  <2> QED BY <2>1, SameHolding DEF RefInv
<1>12. ASSUME NEW v \in Servers, Head(v) PROVE HoldInv'
  <2>1. refs' = refs /\ \A q \in Procs : Gone(q)' <=> Gone(q)
    BY <1>12 DEF Head
  <2> QED BY <2>1, SameHolding DEF RefInv
<1>13. ASSUME NEW v \in Servers, Announce(v) PROVE HoldInv'
  <2>1. refs' = refs /\ \A q \in Procs : Gone(q)' <=> Gone(q)
    BY <1>13 DEF Announce
  <2> QED BY <2>1, SameHolding DEF RefInv
<1>14. ASSUME NEW v \in Servers, Fault(v) PROVE HoldInv'
  <2>1. ~Gone(v) /\ GroupOf[v] \in slot /\ pc[v] = "rasleep"
    BY <1>14 DEF Fault, RefInv, PlaceInv
  <2>2. refs # 0
    BY <2>1, ServerHolds DEF RefInv
  <2>3. CASE LastOfGroup(v)
    <3>1. refs' = refs /\ \A q \in Procs : Gone(q)' <=> Gone(q)
      BY <1>14, <2>1, <2>3 DEF Fault
    <3> QED BY <3>1, SameHolding DEF RefInv
  <2>4. CASE ~LastOfGroup(v)
    <3>1. PICK w \in Procs \ {v} : GroupOf[w] = GroupOf[v] /\ pc[w] # "dead"
      BY <2>4 DEF LastOfGroup
    <3>2. ~Gone(w)' /\ w \notin Removers
      <4>1. w \notin Removers
        BY <3>1 DEF OwnGroups
      <4>2. pc[w] \notin FreeLabels /\ pc'[w] = pc[w]
        BY <1>14, <2>2, <3>1 DEF RefInv, PlaceInv, Fault
      <4> QED BY <4>1, <4>2, <3>1
    <3>3. \A q \in Procs \ {v} : Gone(q)' <=> Gone(q)
      BY <1>14 DEF Fault
    <3>4. Holding' = Holding
      <4> HIDE DEF Gone
      <4>1. ~Gone(w)
        BY <3>1, <3>2, <3>3
      <4>2. \A q \in Removers : Gone(q)' <=> Gone(q)
        BY <3>3
      <4>3. ASSUME NEW g \in Groups
            PROVE (\E q \in Procs : GroupOf[q] = g /\ ~Gone(q))
                    <=> (\E q \in Procs : GroupOf[q] = g /\ ~Gone(q)')
        BY <3>1, <3>2, <3>3, <4>1
      <4> QED BY <4>2, <4>3 DEF Holding
    <3>5. refs' = refs
      BY <1>14 DEF Fault
    <3> QED BY <3>4, <3>5 DEF RefInv, HoldInv
  <2> QED BY <2>3, <2>4
<1>15. ASSUME NEW v \in Servers, LoadNext(v) PROVE HoldInv'
  <2>1. refs' = refs /\ \A q \in Procs : Gone(q)' <=> Gone(q)
    BY <1>15 DEF LoadNext
  <2> QED BY <2>1, SameHolding DEF RefInv
<1>16. ASSUME NEW v \in Servers, Pop(v) PROVE HoldInv'
  <2>1. refs' = refs /\ \A q \in Procs : Gone(q)' <=> Gone(q)
    BY <1>16 DEF Pop
  <2> QED BY <2>1, SameHolding DEF RefInv
<1>17. ASSUME NEW v \in Servers, PopFails(v) PROVE HoldInv'
  <2>1. refs' = refs /\ \A q \in Procs : Gone(q)' <=> Gone(q)
    BY <1>17 DEF PopFails
  <2> QED BY <2>1, SameHolding DEF RefInv
<1>18. ASSUME NEW v \in Servers, Unlock(v) PROVE HoldInv'
  <2>1. refs' = refs /\ \A q \in Procs : Gone(q)' <=> Gone(q)
    BY <1>18 DEF Unlock
  <2> QED BY <2>1, SameHolding DEF RefInv
<1>19. ASSUME NEW v \in Servers, LinkReply(v) PROVE HoldInv'
  <2>1. refs' = refs /\ \A q \in Procs : Gone(q)' <=> Gone(q)
    BY <1>19 DEF LinkReply
  <2> QED BY <2>1, SameHolding DEF RefInv
<1>20. ASSUME NEW v \in Servers, StoreReply(v) PROVE HoldInv'
  <2>1. refs' = refs /\ \A q \in Procs : Gone(q)' <=> Gone(q)
    BY <1>20 DEF StoreReply
  <2> QED BY <2>1, SameHolding DEF RefInv
<1>21. ASSUME NEW v \in Servers, Deliver(v) PROVE HoldInv'
  <2>1. refs' = refs /\ \A q \in Procs : Gone(q)' <=> Gone(q)
    BY <1>21 DEF Deliver
  <2> QED BY <2>1, SameHolding DEF RefInv
<1>22. ASSUME NEW v \in Servers, LoadReply(v) PROVE HoldInv'
  <2>1. refs' = refs /\ \A q \in Procs : Gone(q)' <=> Gone(q)
    BY <1>22 DEF LoadReply
  <2> QED BY <2>1, SameHolding DEF RefInv
<1>23. ASSUME NEW v \in Servers, Other(v) PROVE HoldInv'
  <2>1. refs' = refs /\ \A q \in Procs : Gone(q)' <=> Gone(q)
    BY <1>23 DEF Other
  <2> QED BY <2>1, SameHolding DEF RefInv
<1>24. ASSUME NEW v \in Servers, NotFound(v) PROVE HoldInv'
  <2>1. refs' = refs /\ \A q \in Procs : Gone(q)' <=> Gone(q)
    BY <1>24 DEF NotFound, Done
  <2> QED BY <2>1, SameHolding DEF RefInv
<1>25. ASSUME NEW v \in Servers, Found(v) PROVE HoldInv'
  <2>1. refs' = refs /\ \A q \in Procs : Gone(q)' <=> Gone(q)
    BY <1>25 DEF Found
  <2> QED BY <2>1, SameHolding DEF RefInv
<1>26. ASSUME NEW v \in Servers, LoadAfter(v) PROVE HoldInv'
  <2>1. refs' = refs /\ \A q \in Procs : Gone(q)' <=> Gone(q)
    BY <1>26 DEF LoadAfter
  <2> QED BY <2>1, SameHolding DEF RefInv
<1>27. ASSUME NEW v \in Servers, Unlink(v) PROVE HoldInv'
  <2>1. refs' = refs /\ \A q \in Procs : Gone(q)' <=> Gone(q)
    BY <1>27 DEF Unlink
  <2> QED BY <2>1, SameHolding DEF RefInv
<1>28. ASSUME NEW v \in Servers, UnlinkFails(v) PROVE HoldInv'
  <2>1. refs' = refs /\ \A q \in Procs : Gone(q)' <=> Gone(q)
    BY <1>28 DEF UnlinkFails
  <2> QED BY <2>1, SameHolding DEF RefInv
<1>29. ASSUME NEW v \in Servers, Answer(v) PROVE HoldInv'
  <2>1. refs' = refs /\ \A q \in Procs : Gone(q)' <=> Gone(q)
    BY <1>29 DEF Answer
  <2> QED BY <2>1, SameHolding DEF RefInv
<1>30. ASSUME NEW v \in Servers, ReadySender(v) PROVE HoldInv'
  <2>1. refs' = refs /\ \A q \in Procs : Gone(q)' <=> Gone(q)
    BY <1>30 DEF ReadySender, Done
  <2> QED BY <2>1, SameHolding DEF RefInv
<1>31. ASSUME NEW v \in Servers, NEW k \in 1..MaxMid, Reply(v, k) PROVE HoldInv'
  <2>1. refs' = refs /\ \A q \in Procs : Gone(q)' <=> Gone(q)
    BY <1>31 DEF Reply
  <2> QED BY <2>1, SameHolding DEF RefInv
<1>32. ASSUME NEW q \in Procs, Sleep(q) PROVE HoldInv'
  <2>1. refs' = refs /\ \A r \in Procs : Gone(r)' <=> Gone(r)
    BY <1>32 DEF Sleep
  <2> QED BY <2>1, SameHolding DEF RefInv
<1>33. ASSUME NEW u \in Servers \cup Removers, DropRef(u) PROVE HoldInv'
  <2>1. pc[u] = "free" /\ refs' = refs - 1 /\ slot' = slot
    BY <1>33 DEF DropRef
  <2>2. refs \in Nat \ {0} /\ ~Gone(u) /\ GroupOf[u] \in Holding
    BY <2>1, DropHolds
  <2>3. Gone(u)' /\ \A q \in Procs \ {u} : Gone(q)' <=> Gone(q)
    BY <1>33, <2>1, <2>2 DEF DropRef, After
  <2>4. u \in Servers => \A q \in Procs : GroupOf[q] = GroupOf[u] => Gone(q)'
    BY <1>33, <2>1, <2>3 DEF DropRef, RefInv, PlaceInv, LastOfGroup, OwnGroups
  <2>5. Holding' = Holding \ {GroupOf[u]}
    <3> HIDE DEF Gone
    <3>1. GroupOf[u] \notin Holding'
      BY <2>3, <2>4 DEF Holding
    <3>2. ASSUME NEW g \in Groups, g # GroupOf[u] PROVE g \in Holding' <=> g \in Holding
      <4>1. ASSUME NEW q \in Procs, GroupOf[q] = g PROVE Gone(q)' <=> Gone(q)
        BY <2>3, <3>2, <4>1
      <4> QED BY <4>1 DEF Holding
    <3>3. Holding \subseteq Groups /\ Holding' \subseteq Groups
      BY DEF Holding, Groups
    <3> QED BY <3>1, <3>2, <3>3
  <2> QED BY <2>1, <2>2, <2>5, FiniteHolding, FS_RemoveElement DEF RefInv, HoldInv
<1>34. ASSUME NEW u \in Servers \cup Removers, FailSender(u) PROVE HoldInv'
  <2>1. refs' = refs /\ \A q \in Procs : Gone(q)' <=> Gone(q)
    BY <1>34 DEF FailSender
  <2> QED BY <2>1, SameHolding DEF RefInv
<1>35. ASSUME NEW u \in Servers \cup Removers, FreeNext(u) PROVE HoldInv'
  <2>1. refs' = refs /\ \A q \in Procs : Gone(q)' <=> Gone(q)
    BY <1>35 DEF FreeNext
  <2> QED BY <2>1, SameHolding DEF RefInv
<1>36. ASSUME NEW u \in Servers \cup Removers, FreeReplies(u) PROVE HoldInv'
  <2>1. refs' = refs /\ \A q \in Procs : Gone(q)' <=> Gone(q)
    BY <1>36 DEF FreeReplies
  <2> QED BY <2>1, SameHolding DEF RefInv
<1>37. ASSUME NEW u \in Servers \cup Removers, Free(u) PROVE HoldInv'
  <2>1. refs' = refs /\ \A q \in Procs : Gone(q)' <=> Gone(q)
    BY <1>37 DEF Free, After
  <2> QED BY <2>1, SameHolding DEF RefInv
<1>38. ASSUME NEW u \in Removers, Unserv(u) PROVE HoldInv'
  <2>1. refs' = refs /\ \A q \in Procs : Gone(q)' <=> Gone(q)
    BY <1>38 DEF Unserv
  <2> QED BY <2>1, SameHolding DEF RefInv
<1>39. ASSUME NEW u \in Removers, Clear(u) PROVE HoldInv'
  <2>1. refs' = refs /\ \A q \in Procs : Gone(q)' <=> Gone(q)
    BY <1>39 DEF Clear, OwnGroups
  <2> QED BY <2>1, SameHolding DEF RefInv
<1>40. ASSUME NEW q \in Procs, Undefined(q) PROVE HoldInv'
  <2>1. refs' = refs /\ \A r \in Procs : Gone(r)' <=> Gone(r)
    BY <1>40 DEF Undefined
  <2> QED BY <2>1, SameHolding DEF RefInv
<1> QED
  BY <1>1, <1>2, <1>3, <1>4, <1>5, <1>6, <1>7, <1>8, <1>9, <1>10, <1>11,
     <1>12, <1>13, <1>14, <1>15, <1>16, <1>17, <1>18, <1>19, <1>20, <1>21,
     <1>22, <1>23, <1>24, <1>25, <1>26, <1>27, <1>28, <1>29, <1>30, <1>31,
     <1>32, <1>33, <1>34, <1>35, <1>36, <1>37, <1>38, <1>39, <1>40 DEF Next,
     Sends, Receives, Replies, Frees, Serves

(* Only the last process of a group comes to drop its reference.           *)
LEMMA PlaceStep ==
  ASSUME TypeInv, RefInv, OwnGroups, Next
  PROVE  PlaceInv'
<1> USE DEF TypeInv, Types, Labels, AllLabels, SendLabels, ServeLabels, RemoveLabels,
            TakeLabels, HoldLabels, FoundLabels, ReplyLabels, FreeLabels, RefInv,
            PlaceInv, LastOfGroup
<1>1. ASSUME NEW s \in Senders, Begin(s) PROVE PlaceInv'
  BY <1>1 DEF Begin
<1>2. ASSUME NEW s \in Senders, Number(s) PROVE PlaceInv'
  BY <1>2 DEF Number
<1>3. ASSUME NEW s \in Senders, LoadRecv(s) PROVE PlaceInv'
  BY <1>3 DEF LoadRecv
<1>4. ASSUME NEW s \in Senders, Walk(s) PROVE PlaceInv'
  BY <1>4 DEF Walk
<1>5. ASSUME NEW s \in Senders, WalkEnds(s) PROVE PlaceInv'
  BY <1>5 DEF WalkEnds
<1>6. ASSUME NEW s \in Senders, Link(s) PROVE PlaceInv'
  BY <1>6 DEF Link
<1>7. ASSUME NEW s \in Senders, LinkFails(s) PROVE PlaceInv'
  BY <1>7 DEF LinkFails
<1>8. ASSUME NEW s \in Senders, Notify(s) PROVE PlaceInv'
  BY <1>8 DEF Notify
<1>9. ASSUME NEW s \in Senders, Return(s) PROVE PlaceInv'
  BY <1>9 DEF Return
<1>10. ASSUME NEW v \in Servers, Recv(v) PROVE PlaceInv'
  BY <1>10 DEF Recv
<1>11. ASSUME NEW v \in Servers, Lock(v) PROVE PlaceInv'
  BY <1>11 DEF Lock
<1>12. ASSUME NEW v \in Servers, Head(v) PROVE PlaceInv'
  BY <1>12 DEF Head
<1>13. ASSUME NEW v \in Servers, Announce(v) PROVE PlaceInv'
  BY <1>13 DEF Announce
<1>14. ASSUME NEW v \in Servers, Fault(v) PROVE PlaceInv'
  BY <1>14 DEF Fault, LastOfGroup
<1>15. ASSUME NEW v \in Servers, LoadNext(v) PROVE PlaceInv'
  BY <1>15 DEF LoadNext
<1>16. ASSUME NEW v \in Servers, Pop(v) PROVE PlaceInv'
  BY <1>16 DEF Pop
<1>17. ASSUME NEW v \in Servers, PopFails(v) PROVE PlaceInv'
  BY <1>17 DEF PopFails
<1>18. ASSUME NEW v \in Servers, Unlock(v) PROVE PlaceInv'
  BY <1>18 DEF Unlock
<1>19. ASSUME NEW v \in Servers, LinkReply(v) PROVE PlaceInv'
  BY <1>19 DEF LinkReply
<1>20. ASSUME NEW v \in Servers, StoreReply(v) PROVE PlaceInv'
  BY <1>20 DEF StoreReply
<1>21. ASSUME NEW v \in Servers, Deliver(v) PROVE PlaceInv'
  BY <1>21 DEF Deliver
<1>22. ASSUME NEW v \in Servers, LoadReply(v) PROVE PlaceInv'
  BY <1>22 DEF LoadReply
<1>23. ASSUME NEW v \in Servers, Other(v) PROVE PlaceInv'
  BY <1>23 DEF Other
<1>24. ASSUME NEW v \in Servers, NotFound(v) PROVE PlaceInv'
  BY <1>24 DEF NotFound, Done
<1>25. ASSUME NEW v \in Servers, Found(v) PROVE PlaceInv'
  BY <1>25 DEF Found
<1>26. ASSUME NEW v \in Servers, LoadAfter(v) PROVE PlaceInv'
  BY <1>26 DEF LoadAfter
<1>27. ASSUME NEW v \in Servers, Unlink(v) PROVE PlaceInv'
  BY <1>27 DEF Unlink
<1>28. ASSUME NEW v \in Servers, UnlinkFails(v) PROVE PlaceInv'
  BY <1>28 DEF UnlinkFails
<1>29. ASSUME NEW v \in Servers, Answer(v) PROVE PlaceInv'
  BY <1>29 DEF Answer
<1>30. ASSUME NEW v \in Servers, ReadySender(v) PROVE PlaceInv'
  BY <1>30 DEF ReadySender, Done
<1>31. ASSUME NEW v \in Servers, NEW k \in 1..MaxMid, Reply(v, k) PROVE PlaceInv'
  BY <1>31 DEF Reply
<1>32. ASSUME NEW q \in Procs, Sleep(q) PROVE PlaceInv'
  BY <1>32 DEF Sleep
<1>33. ASSUME NEW u \in Servers \cup Removers, DropRef(u) PROVE PlaceInv'
  <2>1. refs \in Nat \ {0}
    BY <1>33, DropHolds DEF DropRef
  <2> QED BY <1>33, <2>1 DEF DropRef, After
<1>34. ASSUME NEW u \in Servers \cup Removers, FailSender(u) PROVE PlaceInv'
  BY <1>34 DEF FailSender
<1>35. ASSUME NEW u \in Servers \cup Removers, FreeNext(u) PROVE PlaceInv'
  BY <1>35 DEF FreeNext
<1>36. ASSUME NEW u \in Servers \cup Removers, FreeReplies(u) PROVE PlaceInv'
  BY <1>36 DEF FreeReplies
<1>37. ASSUME NEW u \in Servers \cup Removers, Free(u) PROVE PlaceInv'
  BY <1>37 DEF Free, After
<1>38. ASSUME NEW u \in Removers, Unserv(u) PROVE PlaceInv'
  BY <1>38 DEF Unserv
<1>39. ASSUME NEW u \in Removers, Clear(u) PROVE PlaceInv'
  BY <1>39 DEF Clear, OwnGroups
<1>40. ASSUME NEW q \in Procs, Undefined(q) PROVE PlaceInv'
  BY <1>40 DEF Undefined
<1> QED
  BY <1>1, <1>2, <1>3, <1>4, <1>5, <1>6, <1>7, <1>8, <1>9, <1>10, <1>11,
     <1>12, <1>13, <1>14, <1>15, <1>16, <1>17, <1>18, <1>19, <1>20, <1>21,
     <1>22, <1>23, <1>24, <1>25, <1>26, <1>27, <1>28, <1>29, <1>30, <1>31,
     <1>32, <1>33, <1>34, <1>35, <1>36, <1>37, <1>38, <1>39, <1>40 DEF Next,
     Sends, Receives, Replies, Frees, Serves

(* Numbers stay apart, and known to one server.                            *)
LEMMA MidStep ==
  ASSUME TypeInv, RefInv, MidInv, HandInv, DoneInv, QueueInv, Next
  PROVE  MidInv'
<1> USE DEF TypeInv, Types, Labels, AllLabels, SendLabels, ServeLabels, RemoveLabels,
            TakeLabels, HoldLabels, FoundLabels, ReplyLabels, FreeLabels, MidInv,
            Linked, InCall, Taken, InHand
<1>1. ASSUME NEW s \in Senders, Begin(s) PROVE MidInv'
  BY <1>1 DEF Begin
<1>2. ASSUME NEW s \in Senders, Number(s) PROVE MidInv'
  BY <1>2 DEF Number
<1>3. ASSUME NEW s \in Senders, LoadRecv(s) PROVE MidInv'
  BY <1>3 DEF LoadRecv
<1>4. ASSUME NEW s \in Senders, Walk(s) PROVE MidInv'
  BY <1>4 DEF Walk
<1>5. ASSUME NEW s \in Senders, WalkEnds(s) PROVE MidInv'
  BY <1>5 DEF WalkEnds
<1>6. ASSUME NEW s \in Senders, Link(s) PROVE MidInv'
  BY <1>6 DEF Link, Ok, Touches, HandInv
<1>7. ASSUME NEW s \in Senders, LinkFails(s) PROVE MidInv'
  BY <1>7 DEF LinkFails
<1>8. ASSUME NEW s \in Senders, Notify(s) PROVE MidInv'
  BY <1>8 DEF Notify
<1>9. ASSUME NEW s \in Senders, Return(s) PROVE MidInv'
  BY <1>9 DEF Return
<1>10. ASSUME NEW v \in Servers, Recv(v) PROVE MidInv'
  BY <1>10 DEF Recv
<1>11. ASSUME NEW v \in Servers, Lock(v) PROVE MidInv'
  BY <1>11 DEF Lock
<1>12. ASSUME NEW v \in Servers, Head(v) PROVE MidInv'
  BY <1>12 DEF Head
<1>13. ASSUME NEW v \in Servers, Announce(v) PROVE MidInv'
  BY <1>13 DEF Announce
<1>14. ASSUME NEW v \in Servers, Fault(v) PROVE MidInv'
  BY <1>14 DEF Fault, LastOfGroup
<1>15. ASSUME NEW v \in Servers, LoadNext(v) PROVE MidInv'
  BY <1>15 DEF LoadNext
<1>16. ASSUME NEW v \in Servers, Pop(v) PROVE MidInv'
  BY <1>16 DEF Pop
<1>17. ASSUME NEW v \in Servers, PopFails(v) PROVE MidInv'
  BY <1>17 DEF PopFails
<1>18. ASSUME NEW v \in Servers, Unlock(v) PROVE MidInv'
  BY <1>18 DEF Unlock
<1>19. ASSUME NEW v \in Servers, LinkReply(v) PROVE MidInv'
  BY <1>19 DEF LinkReply, HandInv
<1>20. ASSUME NEW v \in Servers, StoreReply(v) PROVE MidInv'
  BY <1>20 DEF StoreReply
<1>21. ASSUME NEW v \in Servers, Deliver(v) PROVE MidInv'
  BY <1>21 DEF Deliver, HandInv
<1>22. ASSUME NEW v \in Servers, LoadReply(v) PROVE MidInv'
  BY <1>22 DEF LoadReply
<1>23. ASSUME NEW v \in Servers, Other(v) PROVE MidInv'
  BY <1>23 DEF Other
<1>24. ASSUME NEW v \in Servers, NotFound(v) PROVE MidInv'
  BY <1>24 DEF NotFound, Done
<1>25. ASSUME NEW v \in Servers, Found(v) PROVE MidInv'
  BY <1>25 DEF Found
<1>26. ASSUME NEW v \in Servers, LoadAfter(v) PROVE MidInv'
  BY <1>26 DEF LoadAfter
<1>27. ASSUME NEW v \in Servers, Unlink(v) PROVE MidInv'
  BY <1>27 DEF Unlink, Ok, Touches, HandInv
<1>28. ASSUME NEW v \in Servers, UnlinkFails(v) PROVE MidInv'
  BY <1>28 DEF UnlinkFails
<1>29. ASSUME NEW v \in Servers, Answer(v) PROVE MidInv'
  BY <1>29 DEF Answer, HandInv
<1>30. ASSUME NEW v \in Servers, ReadySender(v) PROVE MidInv'
  BY <1>30 DEF ReadySender, Done, HandInv
<1>31. ASSUME NEW v \in Servers, NEW k \in 1..MaxMid, Reply(v, k) PROVE MidInv'
  BY <1>31 DEF Reply, HandInv
<1>32. ASSUME NEW q \in Procs, Sleep(q) PROVE MidInv'
  BY <1>32 DEF Sleep
<1>33. ASSUME NEW u \in Servers \cup Removers, DropRef(u) PROVE MidInv'
  BY <1>33 DEF DropRef, After
<1>34. ASSUME NEW u \in Servers \cup Removers, FailSender(u) PROVE MidInv'
  BY <1>34 DEF FailSender, Ok, Touches, HandInv
<1>35. ASSUME NEW u \in Servers \cup Removers, FreeNext(u) PROVE MidInv'
  BY <1>35 DEF FreeNext
<1>36. ASSUME NEW u \in Servers \cup Removers, FreeReplies(u) PROVE MidInv'
  BY <1>36 DEF FreeReplies
<1>37. ASSUME NEW u \in Servers \cup Removers, Free(u) PROVE MidInv'
  BY <1>37 DEF Free, After
<1>38. ASSUME NEW u \in Removers, Unserv(u) PROVE MidInv'
  BY <1>38 DEF Unserv
<1>39. ASSUME NEW u \in Removers, Clear(u) PROVE MidInv'
  BY <1>39 DEF Clear
<1>40. ASSUME NEW q \in Procs, Undefined(q) PROVE MidInv'
  BY <1>40 DEF Undefined
<1> QED
  BY <1>1, <1>2, <1>3, <1>4, <1>5, <1>6, <1>7, <1>8, <1>9, <1>10, <1>11,
     <1>12, <1>13, <1>14, <1>15, <1>16, <1>17, <1>18, <1>19, <1>20, <1>21,
     <1>22, <1>23, <1>24, <1>25, <1>26, <1>27, <1>28, <1>29, <1>30, <1>31,
     <1>32, <1>33, <1>34, <1>35, <1>36, <1>37, <1>38, <1>39, <1>40 DEF Next,
     Sends, Receives, Replies, Frees, Serves

(* What is in the hands of a server stays its own.                         *)
LEMMA HandStep ==
  ASSUME TypeInv, RefInv, MidInv, HandInv, DoneInv, QueueInv, OwnGroups,
         ~Repeats \/ OneServer, OneServer => ListInv, Next
  PROVE  HandInv'
<1> USE DEF TypeInv, Types, Labels, AllLabels, SendLabels, ServeLabels, RemoveLabels,
            TakeLabels, HoldLabels, FoundLabels, ReplyLabels, FreeLabels, MidInv,
            HandInv, Linked, InCall, Taken, InHand
<1>1. ASSUME NEW s \in Senders, Begin(s) PROVE HandInv'
  BY <1>1 DEF Begin
<1>2. ASSUME NEW s \in Senders, Number(s) PROVE HandInv'
  BY <1>2 DEF Number
<1>3. ASSUME NEW s \in Senders, LoadRecv(s) PROVE HandInv'
  BY <1>3 DEF LoadRecv
<1>4. ASSUME NEW s \in Senders, Walk(s) PROVE HandInv'
  BY <1>4 DEF Walk
<1>5. ASSUME NEW s \in Senders, WalkEnds(s) PROVE HandInv'
  BY <1>5 DEF WalkEnds
<1>6. ASSUME NEW s \in Senders, Link(s) PROVE HandInv'
  BY <1>6 DEF Link
<1>7. ASSUME NEW s \in Senders, LinkFails(s) PROVE HandInv'
  BY <1>7 DEF LinkFails
<1>8. ASSUME NEW s \in Senders, Notify(s) PROVE HandInv'
  BY <1>8 DEF Notify
<1>9. ASSUME NEW s \in Senders, Return(s) PROVE HandInv'
  BY <1>9 DEF Return
<1>10. ASSUME NEW v \in Servers, Recv(v) PROVE HandInv'
  BY <1>10 DEF Recv
<1>11. ASSUME NEW v \in Servers, Lock(v) PROVE HandInv'
  BY <1>11 DEF Lock
<1>12. ASSUME NEW v \in Servers, Head(v) PROVE HandInv'
  BY <1>12 DEF Head
<1>13. ASSUME NEW v \in Servers, Announce(v) PROVE HandInv'
  BY <1>13 DEF Announce
<1>14. ASSUME NEW v \in Servers, Fault(v) PROVE HandInv'
  BY <1>14 DEF Fault, LastOfGroup
<1>15. ASSUME NEW v \in Servers, LoadNext(v) PROVE HandInv'
  BY <1>15 DEF LoadNext
<1>16. ASSUME NEW v \in Servers, Pop(v) PROVE HandInv'
  <2>1. refs > 0
    BY <1>16, ServerHolds DEF RefInv, Gone, Pop
  <2>2. Queued(m[v])
    BY <1>16, <2>1 DEF Pop, QueueInv
  <2>3. \A w \in Servers : ~(Taken(w) /\ m[w] = m[v]) /\ mid[m[v]] \notin knows[w]
    BY <2>2 DEF Queued, Fresh, Received
  <2> QED BY <1>16, <2>2, <2>3 DEF Pop, Queued, Fresh
<1>17. ASSUME NEW v \in Servers, PopFails(v) PROVE HandInv'
  BY <1>17 DEF PopFails
<1>18. ASSUME NEW v \in Servers, Unlock(v) PROVE HandInv'
  BY <1>18 DEF Unlock
<1>19. ASSUME NEW v \in Servers, LinkReply(v) PROVE HandInv'
  BY <1>19 DEF LinkReply
<1>20. ASSUME NEW v \in Servers, StoreReply(v) PROVE HandInv'
  BY <1>20 DEF StoreReply
<1>21. ASSUME NEW v \in Servers, Deliver(v) PROVE HandInv'
  BY <1>21 DEF Deliver
<1>22. ASSUME NEW v \in Servers, LoadReply(v) PROVE HandInv'
  BY <1>22 DEF LoadReply
<1>23. ASSUME NEW v \in Servers, Other(v) PROVE HandInv'
  BY <1>23 DEF Other
<1>24. ASSUME NEW v \in Servers, NotFound(v) PROVE HandInv'
  BY <1>24 DEF NotFound, Done
<1>25. ASSUME NEW v \in Servers, Found(v) PROVE HandInv'
  <2>1. refs > 0
    BY <1>25, ServerHolds DEF RefInv, Gone, Found
  <2>2. m[v] \in Senders /\ mid[m[v]] = want[v] /\ want[v] \in knows[v] /\ Linked(m[v])
    BY <1>25 DEF Found, MidInv
  <2>3. ret[m[v]] = "none"
    <3>1. CASE ~Repeats
      BY <1>25, <2>1, <2>2, <3>1 DEF Found, DoneInv, QueueInv
    <3>2. CASE OneServer
      BY <1>25, <2>1, <2>2, <3>2 DEF Found, ListInv, ListHands, Live, Open
    <3> QED BY <3>1, <3>2
  <2>4. pc[m[v]] = "asleep" => state[m[v]] = "waiting"
    BY <2>2, <2>3 DEF MidInv
  <2> QED BY <1>25, <2>2, <2>3, <2>4 DEF Found
<1>26. ASSUME NEW v \in Servers, LoadAfter(v) PROVE HandInv'
  BY <1>26 DEF LoadAfter
<1>27. ASSUME NEW v \in Servers, Unlink(v) PROVE HandInv'
  BY <1>27 DEF Unlink
<1>28. ASSUME NEW v \in Servers, UnlinkFails(v) PROVE HandInv'
  BY <1>28 DEF UnlinkFails
<1>29. ASSUME NEW v \in Servers, Answer(v) PROVE HandInv'
  BY <1>29 DEF Answer
<1>30. ASSUME NEW v \in Servers, ReadySender(v) PROVE HandInv'
  BY <1>30 DEF ReadySender, Done
<1>31. ASSUME NEW v \in Servers, NEW k \in 1..MaxMid, Reply(v, k) PROVE HandInv'
  BY <1>31 DEF Reply
<1>32. ASSUME NEW q \in Procs, Sleep(q) PROVE HandInv'
  BY <1>32 DEF Sleep
<1>33. ASSUME NEW u \in Servers \cup Removers, DropRef(u) PROVE HandInv'
  BY <1>33 DEF DropRef, After
<1>34. ASSUME NEW u \in Servers \cup Removers, FailSender(u) PROVE HandInv'
  <2>1. refs = 0
    BY <1>34 DEF FailSender, RefInv, PlaceInv
  <2>2. \A v \in Servers : ~Taken(v) /\ ~InHand(v) /\ pc'[v] \notin {"kready"} \cup HoldLabels
    BY <1>34, <2>1, NobodyServes DEF RefInv, FailSender
  <2>3. \A v \in Servers : ~Taken(v)' /\ ~InHand(v)'
    BY <1>34, <2>2 DEF FailSender
  <2> QED BY <2>2, <2>3
<1>35. ASSUME NEW u \in Servers \cup Removers, FreeNext(u) PROVE HandInv'
  BY <1>35 DEF FreeNext
<1>36. ASSUME NEW u \in Servers \cup Removers, FreeReplies(u) PROVE HandInv'
  BY <1>36 DEF FreeReplies
<1>37. ASSUME NEW u \in Servers \cup Removers, Free(u) PROVE HandInv'
  BY <1>37 DEF Free, After
<1>38. ASSUME NEW u \in Removers, Unserv(u) PROVE HandInv'
  BY <1>38 DEF Unserv
<1>39. ASSUME NEW u \in Removers, Clear(u) PROVE HandInv'
  BY <1>39 DEF Clear
<1>40. ASSUME NEW q \in Procs, Undefined(q) PROVE HandInv'
  BY <1>40 DEF Undefined
<1> QED
  BY <1>1, <1>2, <1>3, <1>4, <1>5, <1>6, <1>7, <1>8, <1>9, <1>10, <1>11,
     <1>12, <1>13, <1>14, <1>15, <1>16, <1>17, <1>18, <1>19, <1>20, <1>21,
     <1>22, <1>23, <1>24, <1>25, <1>26, <1>27, <1>28, <1>29, <1>30, <1>31,
     <1>32, <1>33, <1>34, <1>35, <1>36, <1>37, <1>38, <1>39, <1>40 DEF Next,
     Sends, Receives, Replies, Frees, Serves

(* Without repeated replies an answered number is not looked for again.    *)
LEMMA DoneStep ==
  ASSUME TypeInv, RefInv, MidInv, HandInv, DoneInv, QueueInv, Next
  PROVE  DoneInv'
<1> USE DEF TypeInv, Types, Labels, AllLabels, SendLabels, ServeLabels, RemoveLabels,
            TakeLabels, HoldLabels, FoundLabels, ReplyLabels, FreeLabels, MidInv,
            HandInv, DoneInv, Linked, InCall, Taken, InHand
<1>1. ASSUME NEW s \in Senders, Begin(s) PROVE DoneInv'
  BY <1>1 DEF Begin
<1>2. ASSUME NEW s \in Senders, Number(s) PROVE DoneInv'
  BY <1>2 DEF Number
<1>3. ASSUME NEW s \in Senders, LoadRecv(s) PROVE DoneInv'
  BY <1>3 DEF LoadRecv
<1>4. ASSUME NEW s \in Senders, Walk(s) PROVE DoneInv'
  BY <1>4 DEF Walk
<1>5. ASSUME NEW s \in Senders, WalkEnds(s) PROVE DoneInv'
  BY <1>5 DEF WalkEnds
<1>6. ASSUME NEW s \in Senders, Link(s) PROVE DoneInv'
  BY <1>6 DEF Link
<1>7. ASSUME NEW s \in Senders, LinkFails(s) PROVE DoneInv'
  BY <1>7 DEF LinkFails
<1>8. ASSUME NEW s \in Senders, Notify(s) PROVE DoneInv'
  BY <1>8 DEF Notify
<1>9. ASSUME NEW s \in Senders, Return(s) PROVE DoneInv'
  BY <1>9 DEF Return
<1>10. ASSUME NEW v \in Servers, Recv(v) PROVE DoneInv'
  BY <1>10 DEF Recv
<1>11. ASSUME NEW v \in Servers, Lock(v) PROVE DoneInv'
  BY <1>11 DEF Lock
<1>12. ASSUME NEW v \in Servers, Head(v) PROVE DoneInv'
  BY <1>12 DEF Head
<1>13. ASSUME NEW v \in Servers, Announce(v) PROVE DoneInv'
  BY <1>13 DEF Announce
<1>14. ASSUME NEW v \in Servers, Fault(v) PROVE DoneInv'
  BY <1>14 DEF Fault, LastOfGroup
<1>15. ASSUME NEW v \in Servers, LoadNext(v) PROVE DoneInv'
  BY <1>15 DEF LoadNext
<1>16. ASSUME NEW v \in Servers, Pop(v) PROVE DoneInv'
  BY <1>16 DEF Pop
<1>17. ASSUME NEW v \in Servers, PopFails(v) PROVE DoneInv'
  BY <1>17 DEF PopFails
<1>18. ASSUME NEW v \in Servers, Unlock(v) PROVE DoneInv'
  BY <1>18 DEF Unlock
<1>19. ASSUME NEW v \in Servers, LinkReply(v) PROVE DoneInv'
  BY <1>19 DEF LinkReply
<1>20. ASSUME NEW v \in Servers, StoreReply(v) PROVE DoneInv'
  BY <1>20 DEF StoreReply
<1>21. ASSUME NEW v \in Servers, Deliver(v) PROVE DoneInv'
  BY <1>21 DEF Deliver
<1>22. ASSUME NEW v \in Servers, LoadReply(v) PROVE DoneInv'
  BY <1>22 DEF LoadReply
<1>23. ASSUME NEW v \in Servers, Other(v) PROVE DoneInv'
  BY <1>23 DEF Other
<1>24. ASSUME NEW v \in Servers, NotFound(v) PROVE DoneInv'
  BY <1>24 DEF NotFound, Done
<1>25. ASSUME NEW v \in Servers, Found(v) PROVE DoneInv'
  BY <1>25 DEF Found
<1>26. ASSUME NEW v \in Servers, LoadAfter(v) PROVE DoneInv'
  BY <1>26 DEF LoadAfter
<1>27. ASSUME NEW v \in Servers, Unlink(v) PROVE DoneInv'
  BY <1>27 DEF Unlink
<1>28. ASSUME NEW v \in Servers, UnlinkFails(v) PROVE DoneInv'
  BY <1>28 DEF UnlinkFails
<1>29. ASSUME NEW v \in Servers, Answer(v) PROVE DoneInv'
  BY <1>29 DEF Answer
<1>30. ASSUME NEW v \in Servers, ReadySender(v) PROVE DoneInv'
  BY <1>30 DEF ReadySender, Done
<1>31. ASSUME NEW v \in Servers, NEW k \in 1..MaxMid, Reply(v, k) PROVE DoneInv'
  BY <1>31 DEF Reply
<1>32. ASSUME NEW q \in Procs, Sleep(q) PROVE DoneInv'
  BY <1>32 DEF Sleep
<1>33. ASSUME NEW u \in Servers \cup Removers, DropRef(u) PROVE DoneInv'
  BY <1>33 DEF DropRef, After
<1>34. ASSUME NEW u \in Servers \cup Removers, FailSender(u) PROVE DoneInv'
  BY <1>34 DEF FailSender
<1>35. ASSUME NEW u \in Servers \cup Removers, FreeNext(u) PROVE DoneInv'
  BY <1>35 DEF FreeNext
<1>36. ASSUME NEW u \in Servers \cup Removers, FreeReplies(u) PROVE DoneInv'
  BY <1>36 DEF FreeReplies
<1>37. ASSUME NEW u \in Servers \cup Removers, Free(u) PROVE DoneInv'
  BY <1>37 DEF Free, After
<1>38. ASSUME NEW u \in Removers, Unserv(u) PROVE DoneInv'
  BY <1>38 DEF Unserv
<1>39. ASSUME NEW u \in Removers, Clear(u) PROVE DoneInv'
  BY <1>39 DEF Clear
<1>40. ASSUME NEW q \in Procs, Undefined(q) PROVE DoneInv'
  BY <1>40 DEF Undefined
<1> QED
  BY <1>1, <1>2, <1>3, <1>4, <1>5, <1>6, <1>7, <1>8, <1>9, <1>10, <1>11,
     <1>12, <1>13, <1>14, <1>15, <1>16, <1>17, <1>18, <1>19, <1>20, <1>21,
     <1>22, <1>23, <1>24, <1>25, <1>26, <1>27, <1>28, <1>29, <1>30, <1>31,
     <1>32, <1>33, <1>34, <1>35, <1>36, <1>37, <1>38, <1>39, <1>40 DEF Next,
     Sends, Receives, Replies, Frees, Serves

(* The queue stays one chain, however senders link behind its end.         *)
LEMMA QueueStep ==
  ASSUME TypeInv, RefInv, MidInv, HandInv, DoneInv, QueueInv, OwnGroups, Next
  PROVE  QueueInv'
<1> USE DEF TypeInv, Types, Labels, AllLabels, SendLabels, ServeLabels, RemoveLabels,
            TakeLabels, HoldLabels, FoundLabels, ReplyLabels, FreeLabels, MidInv,
            HandInv, QueueInv, Fresh, Queued, Received, Linked, InCall, Taken, InHand
<1>1. ASSUME NEW s \in Senders, Begin(s) PROVE QueueInv'
  BY <1>1 DEF Begin
<1>2. ASSUME NEW s \in Senders, Number(s) PROVE QueueInv'
  BY <1>2 DEF Number
<1>3. ASSUME NEW s \in Senders, LoadRecv(s) PROVE QueueInv'
  BY <1>3 DEF LoadRecv
<1>4. ASSUME NEW s \in Senders, Walk(s) PROVE QueueInv'
  BY <1>4 DEF Walk
<1>5. ASSUME NEW s \in Senders, WalkEnds(s) PROVE QueueInv'
  BY <1>5 DEF WalkEnds
<1>6. ASSUME NEW s \in Senders, Link(s) PROVE QueueInv'
  BY <1>6 DEF Link, Ok, Touches
<1>7. ASSUME NEW s \in Senders, LinkFails(s) PROVE QueueInv'
  BY <1>7 DEF LinkFails
<1>8. ASSUME NEW s \in Senders, Notify(s) PROVE QueueInv'
  BY <1>8 DEF Notify
<1>9. ASSUME NEW s \in Senders, Return(s) PROVE QueueInv'
  BY <1>9 DEF Return
<1>10. ASSUME NEW v \in Servers, Recv(v) PROVE QueueInv'
  BY <1>10 DEF Recv
<1>11. ASSUME NEW v \in Servers, Lock(v) PROVE QueueInv'
  BY <1>11 DEF Lock
<1>12. ASSUME NEW v \in Servers, Head(v) PROVE QueueInv'
  BY <1>12 DEF Head
<1>13. ASSUME NEW v \in Servers, Announce(v) PROVE QueueInv'
  <2>1. \A s \in Senders : (Fresh(s)' <=> Fresh(s)) /\ (Linked(s)' <=> Linked(s))
    BY <1>13 DEF Announce
  <2>2. refs' = refs /\ recv' = recv /\ ret' = ret /\ next' = next
    BY <1>13 DEF Announce
  <2>3. \A w \in Servers : pc'[w] \in {"rnext", "rpop"} =>
          pc'[w] = pc[w] /\ m'[w] = m[w] /\ n'[w] = n[w]
    BY <1>13 DEF Announce
  <2> HIDE DEF Fresh, Linked
  <2> QED BY <2>1, <2>2, <2>3
<1>14. ASSUME NEW v \in Servers, Fault(v) PROVE QueueInv'
  <2>1. \A s \in Senders : (Fresh(s)' <=> Fresh(s)) /\ (Linked(s)' <=> Linked(s))
    BY <1>14 DEF Fault
  <2>2. refs' = refs /\ recv' = recv /\ ret' = ret /\ next' = next
    BY <1>14 DEF Fault
  <2>3. \A w \in Servers : pc'[w] \in {"rnext", "rpop"} =>
          pc'[w] = pc[w] /\ m'[w] = m[w] /\ n'[w] = n[w]
    BY <1>14 DEF Fault
  <2> HIDE DEF Fresh, Linked
  <2> QED BY <2>1, <2>2, <2>3
<1>15. ASSUME NEW v \in Servers, LoadNext(v) PROVE QueueInv'
  BY <1>15 DEF LoadNext
<1>16. ASSUME NEW v \in Servers, Pop(v) PROVE QueueInv'
  BY <1>16 DEF Pop
<1>17. ASSUME NEW v \in Servers, PopFails(v) PROVE QueueInv'
  BY <1>17 DEF PopFails
<1>18. ASSUME NEW v \in Servers, Unlock(v) PROVE QueueInv'
  BY <1>18 DEF Unlock
<1>19. ASSUME NEW v \in Servers, LinkReply(v) PROVE QueueInv'
  BY <1>19 DEF LinkReply
<1>20. ASSUME NEW v \in Servers, StoreReply(v) PROVE QueueInv'
  BY <1>20 DEF StoreReply
<1>21. ASSUME NEW v \in Servers, Deliver(v) PROVE QueueInv'
  <2>1. \A s \in Senders : (Fresh(s)' <=> Fresh(s)) /\ (Linked(s)' <=> Linked(s))
    BY <1>21 DEF Deliver, MidInv
  <2>2. refs' = refs /\ recv' = recv /\ ret' = ret /\ next' = next
    BY <1>21 DEF Deliver
  <2>3. \A w \in Servers : pc'[w] \in {"rnext", "rpop"} =>
          pc'[w] = pc[w] /\ m'[w] = m[w] /\ n'[w] = n[w]
    BY <1>21 DEF Deliver
  <2> HIDE DEF Fresh, Linked
  <2> QED BY <2>1, <2>2, <2>3
<1>22. ASSUME NEW v \in Servers, LoadReply(v) PROVE QueueInv'
  BY <1>22 DEF LoadReply
<1>23. ASSUME NEW v \in Servers, Other(v) PROVE QueueInv'
  BY <1>23 DEF Other
<1>24. ASSUME NEW v \in Servers, NotFound(v) PROVE QueueInv'
  BY <1>24 DEF NotFound, Done
<1>25. ASSUME NEW v \in Servers, Found(v) PROVE QueueInv'
  BY <1>25 DEF Found
<1>26. ASSUME NEW v \in Servers, LoadAfter(v) PROVE QueueInv'
  BY <1>26 DEF LoadAfter
<1>27. ASSUME NEW v \in Servers, Unlink(v) PROVE QueueInv'
  <2>1. InHand(v) /\ m[v] \in Senders /\ mid[m[v]] \in knows[v] /\ ~Fresh(m[v])
    BY <1>27 DEF Unlink
  <2>2. \A s \in Senders : (Fresh(s)' <=> Fresh(s)) /\ (Linked(s)' <=> Linked(s))
    BY <1>27 DEF Unlink
  <2>3. refs' = refs /\ recv' = recv /\ ret' = ret /\ m' = m
    BY <1>27 DEF Unlink
  <2>4. ASSUME refs > 0, NEW x \in Senders, Fresh(x) PROVE next'[x] = next[x]
    <3> HIDE DEF Fresh
    <3> QED BY <1>27, <2>1, <2>4 DEF Unlink
  <2>5. \A w \in Servers : pc'[w] \in {"rnext", "rpop"} => pc'[w] = pc[w] /\ n'[w] = n[w]
    BY <1>27 DEF Unlink
  <2>6. ASSUME refs > 0, NEW w \in Servers, pc[w] \in {"rnext", "rpop"} PROVE Fresh(m[w])
    BY <2>6
  <2> HIDE DEF Fresh, Linked
  <2> QED BY <2>2, <2>3, <2>4, <2>5, <2>6
<1>28. ASSUME NEW v \in Servers, UnlinkFails(v) PROVE QueueInv'
  BY <1>28 DEF UnlinkFails
<1>29. ASSUME NEW v \in Servers, Answer(v) PROVE QueueInv'
  BY <1>29 DEF Answer
<1>30. ASSUME NEW v \in Servers, ReadySender(v) PROVE QueueInv'
  BY <1>30 DEF ReadySender, Done
<1>31. ASSUME NEW v \in Servers, NEW k \in 1..MaxMid, Reply(v, k) PROVE QueueInv'
  BY <1>31 DEF Reply
<1>32. ASSUME NEW q \in Procs, Sleep(q) PROVE QueueInv'
  BY <1>32 DEF Sleep
<1>33. ASSUME NEW u \in Servers \cup Removers, DropRef(u) PROVE QueueInv'
  <2>1. refs \in Nat \ {0} /\ refs' = refs - 1
    BY <1>33, DropHolds DEF DropRef
  <2> QED BY <1>33, <2>1 DEF DropRef, After
<1>34. ASSUME NEW u \in Servers \cup Removers, FailSender(u) PROVE QueueInv'
  BY <1>34 DEF FailSender, RefInv, PlaceInv
<1>35. ASSUME NEW u \in Servers \cup Removers, FreeNext(u) PROVE QueueInv'
  BY <1>35 DEF FreeNext
<1>36. ASSUME NEW u \in Servers \cup Removers, FreeReplies(u) PROVE QueueInv'
  BY <1>36 DEF FreeReplies
<1>37. ASSUME NEW u \in Servers \cup Removers, Free(u) PROVE QueueInv'
  BY <1>37 DEF Free, After
<1>38. ASSUME NEW u \in Removers, Unserv(u) PROVE QueueInv'
  BY <1>38 DEF Unserv
<1>39. ASSUME NEW u \in Removers, Clear(u) PROVE QueueInv'
  BY <1>39 DEF Clear
<1>40. ASSUME NEW q \in Procs, Undefined(q) PROVE QueueInv'
  BY <1>40 DEF Undefined
<1> QED
  BY <1>1, <1>2, <1>3, <1>4, <1>5, <1>6, <1>7, <1>8, <1>9, <1>10, <1>11,
     <1>12, <1>13, <1>14, <1>15, <1>16, <1>17, <1>18, <1>19, <1>20, <1>21,
     <1>22, <1>23, <1>24, <1>25, <1>26, <1>27, <1>28, <1>29, <1>30, <1>31,
     <1>32, <1>33, <1>34, <1>35, <1>36, <1>37, <1>38, <1>39, <1>40 DEF Next,
     Sends, Receives, Replies, Frees, Serves

(* Moving a message from the queue to the replies, and off them, with one  *)
(* server, keeps the lists apart.                                          *)
LEMMA ListStep ==
  ASSUME TypeInv, RefInv, MidInv, HandInv, DoneInv, QueueInv, OwnGroups, OneServer,
         ListInv, Next
  PROVE  ListInv'
<1> USE DEF TypeInv, Types, Labels, AllLabels, SendLabels, ServeLabels, RemoveLabels,
            TakeLabels, HoldLabels, FoundLabels, ReplyLabels, FreeLabels, OneServer,
            MidInv, HandInv, ListInv, Linked, InCall, Taken, InHand
<1>1. ASSUME NEW s \in Senders, Begin(s) PROVE  ListInv'
  <2> SUFFICES ASSUME refs' > 0 PROVE ListWays' /\ ListHands'
    OBVIOUS
  <2>1. ListWays'
    <3>1. ListWays /\ recv' = recv /\ reply' = reply
      BY <1>1 DEF Begin
    <3>2. \A x \in Senders : /\ Live(x) => Live(x)'
                             /\ Open(x)' /\ next'[x] # None => Open(x) /\ next'[x] = next[x]
      BY <1>1 DEF Begin, Live, Open
    <3>3. \A x \in Senders : Points(x)' /\ next'[x] # None => Points(x)
      BY <1>1, <3>2 DEF Begin, Points
    <3>4. \A w \in Servers, x \in Senders : /\ Root(w, x)' => Root(w, x)
                                            /\ Storing(w, x) => Storing(w, x)'
      BY <1>1 DEF Begin, Root, Storing
    <3> QED BY <3>1, <3>2, <3>3, <3>4, FewerWays
  <2>2. ListHands'
    BY <1>1 DEF Begin, ListHands, ListWays, Live, Open
  <2> QED BY <2>1, <2>2
<1>2. ASSUME NEW s \in Senders, Number(s) PROVE  ListInv'
  <2> SUFFICES ASSUME refs' > 0 PROVE ListWays' /\ ListHands'
    OBVIOUS
  <2>1. ListWays'
    <3>1. ListWays /\ recv' = recv /\ reply' = reply
      BY <1>2 DEF Number
    <3>2. \A x \in Senders : /\ Live(x) => Live(x)'
                             /\ Open(x)' /\ next'[x] # None => Open(x) /\ next'[x] = next[x]
      BY <1>2 DEF Number, Live, Open
    <3>3. \A x \in Senders : Points(x)' /\ next'[x] # None => Points(x)
      BY <1>2, <3>2 DEF Number, Points
    <3>4. \A w \in Servers, x \in Senders : /\ Root(w, x)' => Root(w, x)
                                            /\ Storing(w, x) => Storing(w, x)'
      BY <1>2 DEF Number, Root, Storing
    <3> QED BY <3>1, <3>2, <3>3, <3>4, FewerWays
  <2>2. ListHands'
    BY <1>2 DEF Number, ListHands, ListWays, Live, Open
  <2> QED BY <2>1, <2>2
<1>3. ASSUME NEW s \in Senders, LoadRecv(s) PROVE  ListInv'
  BY <1>3 DEF LoadRecv, ListWays, ListHands, Live, Open, Root, Points, Storing
<1>4. ASSUME NEW s \in Senders, Walk(s) PROVE  ListInv'
  BY <1>4 DEF Walk, ListWays, ListHands, Live, Open, Root, Points, Storing
<1>5. ASSUME NEW s \in Senders, WalkEnds(s) PROVE  ListInv'
  BY <1>5 DEF WalkEnds, ListWays, ListHands, Live, Open, Root, Points, Storing
<1>6. ASSUME NEW s \in Senders, Link(s) PROVE  ListInv'
  <2> SUFFICES ASSUME refs' > 0 PROVE ListWays' /\ ListHands'
    OBVIOUS
  <2>1. ListWays /\ ListHands /\ ~Linked(s) /\ Linked(s)' /\ ret[s] = "none" /\ Open(s)
    BY <1>6 DEF Link, Open, QueueInv
  <2>2. \A x \in Senders : /\ (Open(x)' <=> Open(x)) /\ (Points(x)' <=> Points(x))
                           /\ (Live(x) => Live(x)') /\ ~Live(s)
    BY <1>6 DEF Link, Open, Points, Live
  <2>3. \A w \in Servers, x \in Senders : /\ Root(w, x)' <=> Root(w, x)
                                          /\ Storing(w, x)' <=> Storing(w, x)
    BY <1>6 DEF Link, Root, Storing
  <2>4. Live(s)'
    BY <1>6, <2>1, <2>2 DEF Live
  <2>5. /\ recv # s /\ reply # s
        /\ \A x \in Senders : Open(x) => next[x] # s
        /\ \A w \in Servers : ~Root(w, s)
    BY <2>1, <2>2 DEF ListWays, Root
  <2>6. (\A x \in Senders : Points(x) => Open(x)) /\ reply' = reply
    BY <1>6 DEF Points, Link
  <2>7. CASE p[s] = None
    <3>1. recv = None /\ recv' = s /\ next' = next
      BY <1>6, <2>7 DEF Link
    <3> HIDE DEF Linked
    <3>2. ListWays'
      BY <2>1, <2>2, <2>3, <2>4, <2>5, <2>6, <3>1 DEF ListWays
    <3>3. ListHands'
      BY <1>6, <2>1, <2>2, <2>5, <3>1 DEF ListHands, Link, Root
    <3> QED BY <3>2, <3>3
  <2>8. CASE p[s] # None
    <3>1. recv' = recv /\ next[p[s]] = None /\ next' = [next EXCEPT ![p[s]] = s] /\ p[s] \in Senders
      BY <1>6, <2>8 DEF Link
    <3>2. ListWays'
      <4> HIDE DEF Linked
      <4> QED BY <2>1, <2>2, <2>3, <2>4, <2>5, <2>6, <3>1 DEF ListWays
    <3>3. ListHands'
      BY <1>6, <2>1, <2>2, <3>1 DEF ListHands, ListWays, Link, Live, Open
    <3> QED BY <3>2, <3>3
  <2> QED BY <2>7, <2>8
<1>7. ASSUME NEW s \in Senders, LinkFails(s) PROVE  ListInv'
  BY <1>7 DEF LinkFails, ListWays, ListHands, Live, Open, Root, Points, Storing
<1>8. ASSUME NEW s \in Senders, Notify(s) PROVE  ListInv'
  BY <1>8 DEF Notify, ListWays, ListHands, Live, Open, Root, Points, Storing
<1>9. ASSUME NEW s \in Senders, Return(s) PROVE  ListInv'
  <2> SUFFICES ASSUME refs' > 0 PROVE ListWays' /\ ListHands'
    OBVIOUS
  <2>1. ListWays'
    <3>1. ListWays /\ recv' = recv /\ reply' = reply
      BY <1>9 DEF Return
    <3>2. \A x \in Senders : /\ Live(x) => Live(x)'
                             /\ Open(x)' /\ next'[x] # None => Open(x) /\ next'[x] = next[x]
      BY <1>9 DEF Return, Live, Open
    <3>3. \A x \in Senders : Points(x)' /\ next'[x] # None => Points(x)
      BY <1>9, <3>2 DEF Return, Points
    <3>4. \A w \in Servers, x \in Senders : /\ Root(w, x)' => Root(w, x)
                                            /\ Storing(w, x) => Storing(w, x)'
      BY <1>9 DEF Return, Root, Storing
    <3> QED BY <3>1, <3>2, <3>3, <3>4, FewerWays
  <2>2. ListHands'
    BY <1>9 DEF Return, ListHands, ListWays, Live, Open
  <2> QED BY <2>1, <2>2
<1>10. ASSUME NEW v \in Servers, Recv(v) PROVE  ListInv'
  BY <1>10 DEF Recv, ListWays, ListHands, Live, Open, Root, Points, Storing
<1>11. ASSUME NEW v \in Servers, Lock(v) PROVE  ListInv'
  BY <1>11 DEF Lock, ListWays, ListHands, Live, Open, Root, Points, Storing
<1>12. ASSUME NEW v \in Servers, Head(v) PROVE  ListInv'
  BY <1>12 DEF Head, ListWays, ListHands, Live, Open, Root, Points, Storing
<1>13. ASSUME NEW v \in Servers, Announce(v) PROVE  ListInv'
  BY <1>13 DEF Announce, ListWays, ListHands, Live, Open, Root, Points, Storing
<1>14. ASSUME NEW v \in Servers, Fault(v) PROVE  ListInv'
  BY <1>14 DEF Fault, LastOfGroup, ListWays, ListHands, Live, Open, Root, Points, Storing
<1>15. ASSUME NEW v \in Servers, LoadNext(v) PROVE  ListInv'
  <2> SUFFICES ASSUME refs' > 0 PROVE ListWays' /\ ListHands'
    OBVIOUS
  <2>1. ListWays'
    <3>1. ListWays /\ recv' = recv /\ reply' = reply
      BY <1>15 DEF LoadNext
    <3>2. \A x \in Senders : /\ Live(x) => Live(x)'
                             /\ Open(x)' /\ next'[x] # None => Open(x) /\ next'[x] = next[x]
      BY <1>15 DEF LoadNext, Live, Open
    <3>3. \A x \in Senders : Points(x)' /\ next'[x] # None => Points(x)
      BY <1>15, <3>2 DEF LoadNext, Points
    <3>4. \A w \in Servers, x \in Senders : /\ Root(w, x)' => Root(w, x)
                                            /\ Storing(w, x) => Storing(w, x)'
      BY <1>15 DEF LoadNext, Root, Storing
    <3> QED BY <3>1, <3>2, <3>3, <3>4, FewerWays
  <2>2. ListHands'
    BY <1>15 DEF LoadNext, ListHands, ListWays, Live, Open
  <2> QED BY <2>1, <2>2
<1>16. ASSUME NEW v \in Servers, Pop(v) PROVE  ListInv'
  <2> SUFFICES ASSUME refs' > 0 PROVE ListWays' /\ ListHands'
    OBVIOUS
  <2>1. /\ ListWays /\ ListHands /\ m[v] = recv /\ m[v] \in Senders
        /\ recv' = n[v] /\ reply' = reply /\ next' = next
    BY <1>16 DEF Pop
  <2>2. n[v] # None => n[v] = next[recv]
    BY <1>16, <2>1 DEF Pop, QueueInv
  <2>3. \A x \in Senders : /\ (Open(x)' <=> Open(x)) /\ (Live(x)' <=> Live(x))
                           /\ Points(x)' <=> Points(x) /\ x # m[v]
    BY <1>16 DEF Pop, Open, Live, Points
  <2>4. \A w \in Servers, x \in Senders : /\ Root(w, x)' <=> x = m[v]
                                          /\ ~Storing(w, x) /\ ~Storing(w, x)'
    BY <1>16 DEF Pop, Root, Storing
  <2>5. Points(m[v]) /\ Live(recv) /\ recv # reply
    BY <1>16, <2>1 DEF ListWays, Points, Live, Pop
  <2>6. ListWays'
    <3> HIDE DEF Linked
    <3>1. n[v] # None => Live(n[v]) /\ n[v] # reply
      BY <2>1, <2>2, <2>4, <2>5 DEF ListWays, Live
    <3>2. \A x \in Senders : Points(x)' /\ next[x] # None => next[x] # n[v] /\ next[x] # m[v]
      BY <2>1, <2>2, <2>3, <2>5 DEF ListWays
    <3> QED BY <2>1, <2>3, <2>4, <3>1, <3>2 DEF ListWays
  <2>7. n[v] # m[v]
    BY <2>1, <2>2, <2>5 DEF ListWays
  <2>8. ListHands'
    BY <1>16, <2>1, <2>5, <2>7 DEF ListHands, Pop
  <2> QED BY <2>6, <2>8
<1>17. ASSUME NEW v \in Servers, PopFails(v) PROVE  ListInv'
  <2> SUFFICES ASSUME refs' > 0 PROVE ListWays' /\ ListHands'
    OBVIOUS
  <2>1. ListWays'
    <3>1. ListWays /\ recv' = recv /\ reply' = reply
      BY <1>17 DEF PopFails
    <3>2. \A x \in Senders : /\ Live(x) => Live(x)'
                             /\ Open(x)' /\ next'[x] # None => Open(x) /\ next'[x] = next[x]
      BY <1>17 DEF PopFails, Live, Open
    <3>3. \A x \in Senders : Points(x)' /\ next'[x] # None => Points(x)
      BY <1>17, <3>2 DEF PopFails, Points
    <3>4. \A w \in Servers, x \in Senders : /\ Root(w, x)' => Root(w, x)
                                            /\ Storing(w, x) => Storing(w, x)'
      BY <1>17 DEF PopFails, Root, Storing
    <3> QED BY <3>1, <3>2, <3>3, <3>4, FewerWays
  <2>2. ListHands'
    BY <1>17 DEF PopFails, ListHands, ListWays, Live, Open
  <2> QED BY <2>1, <2>2
<1>18. ASSUME NEW v \in Servers, Unlock(v) PROVE  ListInv'
  <2> SUFFICES ASSUME refs' > 0 PROVE ListWays' /\ ListHands'
    OBVIOUS
  <2>1. ListWays'
    <3>1. ListWays /\ recv' = recv /\ reply' = reply
      BY <1>18 DEF Unlock
    <3>2. \A x \in Senders : /\ Live(x) => Live(x)'
                             /\ Open(x)' /\ next'[x] # None => Open(x) /\ next'[x] = next[x]
      BY <1>18 DEF Unlock, Live, Open
    <3>3. \A x \in Senders : Points(x)' /\ next'[x] # None => Points(x)
      BY <1>18, <3>2 DEF Unlock, Points
    <3>4. \A w \in Servers, x \in Senders : /\ Root(w, x)' => Root(w, x)
                                            /\ Storing(w, x) => Storing(w, x)'
      BY <1>18 DEF Unlock, Root, Storing
    <3> QED BY <3>1, <3>2, <3>3, <3>4, FewerWays
  <2>2. ListHands'
    BY <1>18 DEF Unlock, ListHands, ListWays, Live, Open
  <2> QED BY <2>1, <2>2
<1>19. ASSUME NEW v \in Servers, LinkReply(v) PROVE  ListInv'
  BY <1>19 DEF LinkReply, ListWays, ListHands, Live, Open, Root, Points, Storing
<1>20. ASSUME NEW v \in Servers, StoreReply(v) PROVE  ListInv'
  <2> SUFFICES ASSUME refs' > 0 PROVE ListWays' /\ ListHands'
    OBVIOUS
  <2>1. /\ ListWays /\ ListHands /\ Storing(v, m[v]) /\ m[v] \in Senders
        /\ recv' = recv /\ reply' = m[v] /\ next' = next
    BY <1>20 DEF StoreReply, Storing
  <2>2. \A x \in Senders : /\ (Open(x)' <=> Open(x)) /\ (Live(x)' <=> Live(x))
                           /\ Points(x)' <=> Points(x)
    BY <1>20 DEF StoreReply, Open, Live, Points
  <2>3. \A w \in Servers, x \in Senders : ~Root(w, x)' /\ Root(v, m[v])
    BY <1>20 DEF StoreReply, Root
  <2>4. Live(m[v]) /\ m[v] # recv
    BY <1>20, <2>1 DEF StoreReply, Live, Open, ListHands
  <2>5. ListWays'
    <3> HIDE DEF Linked
    <3> QED BY <2>1, <2>2, <2>3, <2>4 DEF ListWays
  <2>6. ListHands'
    BY <1>20, <2>1 DEF ListHands, StoreReply
  <2> QED BY <2>5, <2>6
<1>21. ASSUME NEW v \in Servers, Deliver(v) PROVE  ListInv'
  <2> SUFFICES ASSUME refs' > 0 PROVE ListWays' /\ ListHands'
    OBVIOUS
  <2>1. ListWays'
    <3>1. ListWays /\ recv' = recv /\ reply' = reply
      BY <1>21 DEF Deliver
    <3>2. \A x \in Senders : /\ Live(x) => Live(x)'
                             /\ Open(x)' /\ next'[x] # None => Open(x) /\ next'[x] = next[x]
      BY <1>21 DEF Deliver, Live, Open
    <3>3. \A x \in Senders : Points(x)' /\ next'[x] # None => Points(x)
      BY <1>21, <3>2 DEF Deliver, Points
    <3>4. \A w \in Servers, x \in Senders : /\ Root(w, x)' => Root(w, x)
                                            /\ Storing(w, x) => Storing(w, x)'
      BY <1>21 DEF Deliver, Root, Storing
    <3> QED BY <3>1, <3>2, <3>3, <3>4, FewerWays
  <2>2. ListHands'
    BY <1>21 DEF Deliver, ListHands, ListWays, Live, Open
  <2> QED BY <2>1, <2>2
<1>22. ASSUME NEW v \in Servers, LoadReply(v) PROVE  ListInv'
  BY <1>22 DEF LoadReply, ListWays, ListHands, Live, Open, Root, Points, Storing
<1>23. ASSUME NEW v \in Servers, Other(v) PROVE  ListInv'
  BY <1>23 DEF Other, ListWays, ListHands, Live, Open, Root, Points, Storing
<1>24. ASSUME NEW v \in Servers, NotFound(v) PROVE  ListInv'
  BY <1>24 DEF NotFound, Done, ListWays, ListHands, Live, Open, Root, Points, Storing
<1>25. ASSUME NEW v \in Servers, Found(v) PROVE  ListInv'
  <2> SUFFICES ASSUME refs' > 0 PROVE ListWays' /\ ListHands'
    OBVIOUS
  <2>1. ListWays'
    <3>1. ListWays /\ recv' = recv /\ reply' = reply
      BY <1>25 DEF Found
    <3>2. \A x \in Senders : /\ Live(x) => Live(x)'
                             /\ Open(x)' /\ next'[x] # None => Open(x) /\ next'[x] = next[x]
      BY <1>25 DEF Found, Live, Open
    <3>3. \A x \in Senders : Points(x)' /\ next'[x] # None => Points(x)
      BY <1>25, <3>2 DEF Found, Points
    <3>4. \A w \in Servers, x \in Senders : /\ Root(w, x)' => Root(w, x)
                                            /\ Storing(w, x) => Storing(w, x)'
      BY <1>25 DEF Found, Root, Storing
    <3> QED BY <3>1, <3>2, <3>3, <3>4, FewerWays
  <2>2. ListHands'
    BY <1>25 DEF Found, ListHands, ListWays, Live, Open
  <2> QED BY <2>1, <2>2
<1>26. ASSUME NEW v \in Servers, LoadAfter(v) PROVE  ListInv'
  <2> SUFFICES ASSUME refs' > 0 PROVE ListWays' /\ ListHands'
    OBVIOUS
  <2>1. ListWays'
    <3>1. ListWays /\ recv' = recv /\ reply' = reply
      BY <1>26 DEF LoadAfter
    <3>2. \A x \in Senders : /\ Live(x) => Live(x)'
                             /\ Open(x)' /\ next'[x] # None => Open(x) /\ next'[x] = next[x]
      BY <1>26 DEF LoadAfter, Live, Open
    <3>3. \A x \in Senders : Points(x)' /\ next'[x] # None => Points(x)
      BY <1>26, <3>2 DEF LoadAfter, Points
    <3>4. \A w \in Servers, x \in Senders : /\ Root(w, x)' => Root(w, x)
                                            /\ Storing(w, x) => Storing(w, x)'
      BY <1>26 DEF LoadAfter, Root, Storing
    <3> QED BY <3>1, <3>2, <3>3, <3>4, FewerWays
  <2>2. ListHands'
    BY <1>26 DEF LoadAfter, ListHands, ListWays, Live, Open
  <2> QED BY <2>1, <2>2
<1>27. ASSUME NEW v \in Servers, Unlink(v) PROVE  ListInv'
  <2> SUFFICES ASSUME refs' > 0 PROVE ListWays' /\ ListHands'
    OBVIOUS
  <2>1. ListWays /\ ListHands /\ m[v] \in Senders /\ mid[m[v]] = want[v] /\ Live(m[v]) /\ recv' = recv
    BY <1>27 DEF Unlink, ListHands
  <2>2. \A x \in Senders : /\ Open(x)' <=> Open(x) /\ x # m[v]
                           /\ Live(x)' <=> Live(x) /\ x # m[v]
                           /\ Points(x)' <=> Points(x) /\ x # m[v]
    BY <1>27 DEF Unlink, Open, Live, Points
  <2>3. \A w \in Servers, x \in Senders :
          ~Root(w, x)' /\ ~Storing(w, x)' /\ ~Storing(w, x) /\ (Points(x) <=> Open(x))
    BY <1>27 DEF Unlink, Root, Storing, Points
  <2>4. n[v] # None => n[v] = next[m[v]] /\ Live(n[v])
    BY <1>27, <2>1 DEF Unlink, ListHands, ListWays, Live
  <2>5. recv # m[v]
    BY <1>27, <2>1 DEF QueueInv, Queued, Fresh, Received, Unlink
  <2>6. CASE p[v] = None
    <3>1. reply = m[v] /\ reply' = n[v] /\ next' = next
      BY <1>27, <2>6 DEF Unlink
    <3>2. (n[v] # m[v] /\ n[v] # recv) \/ n[v] = None
      BY <2>1, <2>3, <2>4, <3>1 DEF ListWays, Live
    <3>3. ListWays'
      <4> HIDE DEF Linked
      <4> QED BY <2>1, <2>2, <2>3, <2>4, <2>5, <3>1, <3>2 DEF ListWays, Live
    <3>4. ListHands'
      BY <1>27, <2>1, <2>5, <3>1, <3>2 DEF ListHands, Unlink
    <3> QED BY <3>3, <3>4
  <2>7. CASE p[v] # None
    <3>1. /\ p[v] \in Senders /\ Live(p[v]) /\ p[v] # m[v] /\ next[p[v]] = m[v]
          /\ reply' = reply /\ next' = [next EXCEPT ![p[v]] = n[v]]
      BY <1>27, <2>1, <2>7 DEF Unlink, ListHands
    <3>2. reply # m[v] /\ n[v] # m[v] /\ \A x \in Senders : Points(x) /\ next[x] = m[v] => x = p[v]
      BY <2>1, <2>3, <2>4, <3>1 DEF ListWays, Live
    <3>3. n[v] # None => n[v] # recv /\ n[v] # reply
      BY <2>1, <2>3, <2>4 DEF ListWays, Live
    <3>4. \A x \in Senders : Points(x)' /\ next'[x] # None =>
              /\ next'[x] \in Senders \ {m[v], recv, reply} /\ Live(next[x])'
              /\ \A y \in Senders : Points(y)' /\ next'[y] = next'[x] => x = y
      <4> HIDE DEF Linked
      <4>1. \A x \in Senders : Points(x)' =>
              Points(x) /\ Open(x) /\ next'[x] = IF x = p[v] THEN n[v] ELSE next[x]
        BY <2>2, <2>3, <3>1
      <4>2. ASSUME NEW x \in Senders, Points(x)', next'[x] # None
            PROVE  next'[x] \in Senders \ {m[v], recv, reply} /\ Live(next'[x]) /\ Live(next[x])'
        BY <2>1, <2>2, <2>3, <2>4, <3>1, <3>2, <3>3, <4>1, <4>2 DEF ListWays
      <4>3. ASSUME NEW x \in Senders, NEW y \in Senders, Points(x)', Points(y)',
                   next'[x] # None, next'[y] = next'[x]
            PROVE  x = y
        BY <2>1, <2>2, <2>3, <2>4, <3>1, <3>2, <4>1, <4>3 DEF ListWays, Live
      <4> QED BY <4>2, <4>3
    <3>5. ListWays'
      <4> HIDE DEF Linked
      <4> QED BY <2>1, <2>2, <2>3, <2>5, <3>1, <3>2, <3>4 DEF ListWays
    <3>6. ListHands'
      BY <1>27, <2>1, <2>5, <3>1, <3>2 DEF ListHands, Unlink
    <3> QED BY <3>5, <3>6
  <2> QED BY <2>6, <2>7
<1>28. ASSUME NEW v \in Servers, UnlinkFails(v) PROVE  ListInv'
  BY <1>28 DEF UnlinkFails, ListWays, ListHands, Live, Open, Root, Points, Storing
<1>29. ASSUME NEW v \in Servers, Answer(v) PROVE  ListInv'
  BY <1>29 DEF Answer, ListWays, ListHands, Live, Open, Root, Points, Storing
<1>30. ASSUME NEW v \in Servers, ReadySender(v) PROVE  ListInv'
  <2> SUFFICES ASSUME refs' > 0 PROVE ListWays' /\ ListHands'
    OBVIOUS
  <2>1. ListWays'
    <3>1. ListWays /\ recv' = recv /\ reply' = reply
      BY <1>30 DEF ReadySender, Done
    <3>2. \A x \in Senders : /\ Live(x) => Live(x)'
                             /\ Open(x)' /\ next'[x] # None => Open(x) /\ next'[x] = next[x]
      BY <1>30 DEF ReadySender, Done, Live, Open
    <3>3. \A x \in Senders : Points(x)' /\ next'[x] # None => Points(x)
      BY <1>30, <3>2 DEF ReadySender, Done, Points
    <3>4. \A w \in Servers, x \in Senders : /\ Root(w, x)' => Root(w, x)
                                            /\ Storing(w, x) => Storing(w, x)'
      BY <1>30 DEF ReadySender, Done, Root, Storing
    <3> QED BY <3>1, <3>2, <3>3, <3>4, FewerWays
  <2>2. ListHands'
    BY <1>30 DEF ReadySender, Done, ListHands, ListWays, Live, Open
  <2> QED BY <2>1, <2>2
<1>31. ASSUME NEW v \in Servers, NEW k \in 1..MaxMid, Reply(v, k) PROVE  ListInv'
  <2> SUFFICES ASSUME refs' > 0 PROVE ListWays' /\ ListHands'
    OBVIOUS
  <2>1. ListWays'
    <3>1. ListWays /\ recv' = recv /\ reply' = reply
      BY <1>31 DEF Reply
    <3>2. \A x \in Senders : /\ Live(x) => Live(x)'
                             /\ Open(x)' /\ next'[x] # None => Open(x) /\ next'[x] = next[x]
      BY <1>31 DEF Reply, Live, Open
    <3>3. \A x \in Senders : Points(x)' /\ next'[x] # None => Points(x)
      BY <1>31, <3>2 DEF Reply, Points
    <3>4. \A w \in Servers, x \in Senders : /\ Root(w, x)' => Root(w, x)
                                            /\ Storing(w, x) => Storing(w, x)'
      BY <1>31 DEF Reply, Root, Storing
    <3> QED BY <3>1, <3>2, <3>3, <3>4, FewerWays
  <2>2. ListHands'
    BY <1>31 DEF Reply, ListHands, ListWays, Live, Open
  <2> QED BY <2>1, <2>2
<1>32. ASSUME NEW q \in Procs, Sleep(q) PROVE  ListInv'
  <2> SUFFICES ASSUME refs' > 0 PROVE ListWays' /\ ListHands'
    OBVIOUS
  <2>1. ListWays'
    <3>1. ListWays /\ recv' = recv /\ reply' = reply
      BY <1>32 DEF Sleep
    <3>2. \A x \in Senders : /\ Live(x) => Live(x)'
                             /\ Open(x)' /\ next'[x] # None => Open(x) /\ next'[x] = next[x]
      BY <1>32 DEF Sleep, Live, Open
    <3>3. \A x \in Senders : Points(x)' /\ next'[x] # None => Points(x)
      BY <1>32, <3>2 DEF Sleep, Points
    <3>4. \A w \in Servers, x \in Senders : /\ Root(w, x)' => Root(w, x)
                                            /\ Storing(w, x) => Storing(w, x)'
      BY <1>32 DEF Sleep, Root, Storing
    <3> QED BY <3>1, <3>2, <3>3, <3>4, FewerWays
  <2>2. ListHands'
    BY <1>32 DEF Sleep, ListHands, ListWays, Live, Open
  <2> QED BY <2>1, <2>2
<1>33. ASSUME NEW u \in Servers \cup Removers, DropRef(u) PROVE  ListInv'
  <2>0. refs \in Nat \ {0} /\ refs' = refs - 1 /\ ListWays /\ ListHands
    BY <1>33, DropHolds DEF DropRef
  <2>1. ListWays'
    <3>1. ListWays /\ recv' = recv /\ reply' = reply
      BY <1>33, <2>0 DEF DropRef, After
    <3>2. \A x \in Senders : /\ Live(x) => Live(x)'
                             /\ Open(x)' /\ next'[x] # None => Open(x) /\ next'[x] = next[x]
      BY <1>33 DEF DropRef, After, Live, Open
    <3>3. \A x \in Senders : Points(x)' /\ next'[x] # None => Points(x)
      BY <1>33, <3>2 DEF DropRef, After, Points
    <3>4. \A w \in Servers, x \in Senders : /\ Root(w, x)' => Root(w, x)
                                            /\ Storing(w, x) => Storing(w, x)'
      BY <1>33 DEF DropRef, After, Root, Storing
    <3> QED BY <3>1, <3>2, <3>3, <3>4, FewerWays
  <2>2. ListHands'
    BY <1>33, <2>0 DEF DropRef, After, ListHands, ListWays, Live, Open
  <2> QED BY <2>1, <2>2
<1>34. ASSUME NEW u \in Servers \cup Removers, FailSender(u) PROVE  ListInv'
  BY <1>34 DEF FailSender, RefInv, PlaceInv
<1>35. ASSUME NEW u \in Servers \cup Removers, FreeNext(u) PROVE  ListInv'
  BY <1>35 DEF FreeNext, ListWays, ListHands, Live, Open, Root, Points, Storing
<1>36. ASSUME NEW u \in Servers \cup Removers, FreeReplies(u) PROVE  ListInv'
  BY <1>36 DEF FreeReplies, ListWays, ListHands, Live, Open, Root, Points, Storing
<1>37. ASSUME NEW u \in Servers \cup Removers, Free(u) PROVE  ListInv'
  BY <1>37 DEF Free, After, ListWays, ListHands, Live, Open, Root, Points, Storing
<1>38. ASSUME NEW u \in Removers, Unserv(u) PROVE  ListInv'
  <2> SUFFICES ASSUME refs' > 0 PROVE ListWays' /\ ListHands'
    OBVIOUS
  <2>1. ListWays'
    <3>1. ListWays /\ recv' = recv /\ reply' = reply
      BY <1>38 DEF Unserv
    <3>2. \A x \in Senders : /\ Live(x) => Live(x)'
                             /\ Open(x)' /\ next'[x] # None => Open(x) /\ next'[x] = next[x]
      BY <1>38 DEF Unserv, Live, Open
    <3>3. \A x \in Senders : Points(x)' /\ next'[x] # None => Points(x)
      BY <1>38, <3>2 DEF Unserv, Points
    <3>4. \A w \in Servers, x \in Senders : /\ Root(w, x)' => Root(w, x)
                                            /\ Storing(w, x) => Storing(w, x)'
      BY <1>38 DEF Unserv, Root, Storing
    <3> QED BY <3>1, <3>2, <3>3, <3>4, FewerWays
  <2>2. ListHands'
    BY <1>38 DEF Unserv, ListHands, ListWays, Live, Open
  <2> QED BY <2>1, <2>2
<1>39. ASSUME NEW u \in Removers, Clear(u) PROVE  ListInv'
  <2> SUFFICES ASSUME refs' > 0 PROVE ListWays' /\ ListHands'
    OBVIOUS
  <2>1. ListWays'
    <3>1. ListWays /\ recv' = recv /\ reply' = reply
      BY <1>39 DEF Clear
    <3>2. \A x \in Senders : /\ Live(x) => Live(x)'
                             /\ Open(x)' /\ next'[x] # None => Open(x) /\ next'[x] = next[x]
      BY <1>39 DEF Clear, Live, Open
    <3>3. \A x \in Senders : Points(x)' /\ next'[x] # None => Points(x)
      BY <1>39, <3>2 DEF Clear, Points
    <3>4. \A w \in Servers, x \in Senders : /\ Root(w, x)' => Root(w, x)
                                            /\ Storing(w, x) => Storing(w, x)'
      BY <1>39 DEF Clear, Root, Storing
    <3> QED BY <3>1, <3>2, <3>3, <3>4, FewerWays
  <2>2. ListHands'
    BY <1>39 DEF Clear, ListHands, ListWays, Live, Open
  <2> QED BY <2>1, <2>2
<1>40. ASSUME NEW q \in Procs, Undefined(q) PROVE  ListInv'
  BY <1>40 DEF Undefined, ListWays, ListHands, Live, Open, Root, Points, Storing
<1> QED
  BY <1>1, <1>2, <1>3, <1>4, <1>5, <1>6, <1>7, <1>8, <1>9, <1>10, <1>11,
     <1>12, <1>13, <1>14, <1>15, <1>16, <1>17, <1>18, <1>19, <1>20, <1>21,
     <1>22, <1>23, <1>24, <1>25, <1>26, <1>27, <1>28, <1>29, <1>30, <1>31,
     <1>32, <1>33, <1>34, <1>35, <1>36, <1>37, <1>38, <1>39, <1>40 DEF Next,
     Sends, Receives, Replies, Frees, Serves

(* Failing what is left meets no answered message.                         *)
LEMMA EndStep ==
  ASSUME TypeInv, RefInv, MidInv, HandInv, DoneInv, QueueInv, OwnGroups, OneServer,
         ListInv, EndInv, Next
  PROVE  EndInv'
<1> USE DEF TypeInv, Types, Labels, AllLabels, SendLabels, ServeLabels, RemoveLabels,
            TakeLabels, HoldLabels, FoundLabels, ReplyLabels, FreeLabels, OneServer,
            MidInv, EndInv, Linked, InCall, Taken, InHand
<1>1. ASSUME NEW s \in Senders, Begin(s) PROVE EndInv'
  BY <1>1 DEF Begin
<1>2. ASSUME NEW s \in Senders, Number(s) PROVE EndInv'
  BY <1>2 DEF Number
<1>3. ASSUME NEW s \in Senders, LoadRecv(s) PROVE EndInv'
  BY <1>3 DEF LoadRecv
<1>4. ASSUME NEW s \in Senders, Walk(s) PROVE EndInv'
  BY <1>4 DEF Walk
<1>5. ASSUME NEW s \in Senders, WalkEnds(s) PROVE EndInv'
  BY <1>5 DEF WalkEnds
<1>6. ASSUME NEW s \in Senders, Link(s) PROVE EndInv'
  BY <1>6 DEF Link
<1>7. ASSUME NEW s \in Senders, LinkFails(s) PROVE EndInv'
  BY <1>7 DEF LinkFails
<1>8. ASSUME NEW s \in Senders, Notify(s) PROVE EndInv'
  BY <1>8 DEF Notify
<1>9. ASSUME NEW s \in Senders, Return(s) PROVE EndInv'
  BY <1>9 DEF Return
<1>10. ASSUME NEW v \in Servers, Recv(v) PROVE EndInv'
  BY <1>10 DEF Recv
<1>11. ASSUME NEW v \in Servers, Lock(v) PROVE EndInv'
  BY <1>11 DEF Lock
<1>12. ASSUME NEW v \in Servers, Head(v) PROVE EndInv'
  BY <1>12 DEF Head
<1>13. ASSUME NEW v \in Servers, Announce(v) PROVE EndInv'
  BY <1>13 DEF Announce
<1>14. ASSUME NEW v \in Servers, Fault(v) PROVE EndInv'
  BY <1>14 DEF Fault, LastOfGroup
<1>15. ASSUME NEW v \in Servers, LoadNext(v) PROVE EndInv'
  BY <1>15 DEF LoadNext
<1>16. ASSUME NEW v \in Servers, Pop(v) PROVE EndInv'
  <2>1. refs > 0 /\ refs' = refs
    BY <1>16, ServerHolds DEF RefInv, Gone, Pop
  <2> QED BY <2>1
<1>17. ASSUME NEW v \in Servers, PopFails(v) PROVE EndInv'
  BY <1>17 DEF PopFails
<1>18. ASSUME NEW v \in Servers, Unlock(v) PROVE EndInv'
  BY <1>18 DEF Unlock
<1>19. ASSUME NEW v \in Servers, LinkReply(v) PROVE EndInv'
  BY <1>19 DEF LinkReply
<1>20. ASSUME NEW v \in Servers, StoreReply(v) PROVE EndInv'
  <2>1. refs > 0 /\ refs' = refs
    BY <1>20, ServerHolds DEF RefInv, Gone, StoreReply
  <2> QED BY <2>1
<1>21. ASSUME NEW v \in Servers, Deliver(v) PROVE EndInv'
  BY <1>21 DEF Deliver
<1>22. ASSUME NEW v \in Servers, LoadReply(v) PROVE EndInv'
  BY <1>22 DEF LoadReply
<1>23. ASSUME NEW v \in Servers, Other(v) PROVE EndInv'
  BY <1>23 DEF Other
<1>24. ASSUME NEW v \in Servers, NotFound(v) PROVE EndInv'
  BY <1>24 DEF NotFound, Done
<1>25. ASSUME NEW v \in Servers, Found(v) PROVE EndInv'
  BY <1>25 DEF Found
<1>26. ASSUME NEW v \in Servers, LoadAfter(v) PROVE EndInv'
  BY <1>26 DEF LoadAfter
<1>27. ASSUME NEW v \in Servers, Unlink(v) PROVE EndInv'
  <2>1. refs > 0 /\ refs' = refs
    BY <1>27, ServerHolds DEF RefInv, Gone, Unlink
  <2> QED BY <2>1
<1>28. ASSUME NEW v \in Servers, UnlinkFails(v) PROVE EndInv'
  BY <1>28 DEF UnlinkFails
<1>29. ASSUME NEW v \in Servers, Answer(v) PROVE EndInv'
  <2>1. refs > 0 /\ refs' = refs
    BY <1>29, ServerHolds DEF RefInv, Gone, Answer
  <2> QED BY <2>1
<1>30. ASSUME NEW v \in Servers, ReadySender(v) PROVE EndInv'
  BY <1>30 DEF ReadySender, Done
<1>31. ASSUME NEW v \in Servers, NEW k \in 1..MaxMid, Reply(v, k) PROVE EndInv'
  BY <1>31 DEF Reply
<1>32. ASSUME NEW q \in Procs, Sleep(q) PROVE EndInv'
  BY <1>32 DEF Sleep
<1>33. ASSUME NEW u \in Servers \cup Removers, DropRef(u) PROVE EndInv'
  <2>1. refs \in Nat \ {0} /\ refs' = refs - 1 /\ ~Gone(u)
    BY <1>33, DropHolds DEF DropRef
  <2> SUFFICES ASSUME refs = 1 PROVE EndInv'
    BY <2>1
  <2>2. ListWays /\ \A s \in Senders : ret[s] # "err"
    BY <2>1 DEF ListInv, QueueInv
  <2>3. ASSUME NEW v \in Servers PROVE pc[v] # "kcopy"
    <3>1. CASE u = v
      BY <1>33, <3>1 DEF DropRef
    <3>2. CASE u # v
      <4>1. GroupOf[u] # GroupOf[v]
        BY <3>2 DEF OwnGroups
      <4>2. GroupOf[u] \in Holding /\ Cardinality(Holding) = 1
        BY <1>33, DropHolds DEF DropRef, RefInv, HoldInv
      <4>3. GroupOf[v] \notin Holding
        BY <4>1, <4>2, FiniteHolding, FS_Singleton
      <4> QED BY <4>3, ServerHolds DEF RefInv, Gone
    <3> QED BY <3>1, <3>2
  <2>4. \A x \in Senders : InCall(x) /\ ret[x] # "ok" => Open(x)
    BY <2>2, <2>3 DEF Open
  <2>5. \A x \in Senders : Live(x) => ret[x] # "ok"
    BY DEF Live, Open
  <2>6. ASSUME NEW x \in Senders, ret[x] # "ok", next[x] # None PROVE ret[next[x]] # "ok"
    BY <2>2, <2>4, <2>5, <2>6 DEF ListWays
  <2>7. (recv # None => ret[recv] # "ok") /\ (reply # None => ret[reply] # "ok")
    BY <2>2, <2>5 DEF ListWays
  <2>8. ASSUME NEW q \in Procs, pc'[q] \in {"fwake", "fnext"} PROVE q = u /\ recv # None /\ m'[q] = recv
    BY <1>33, <2>1, <2>8 DEF DropRef, After, RefInv, PlaceInv
  <2> QED BY <1>33, <2>6, <2>7, <2>8 DEF DropRef
<1>34. ASSUME NEW u \in Servers \cup Removers, FailSender(u) PROVE EndInv'
  BY <1>34 DEF FailSender
<1>35. ASSUME NEW u \in Servers \cup Removers, FreeNext(u) PROVE EndInv'
  BY <1>35 DEF FreeNext
<1>36. ASSUME NEW u \in Servers \cup Removers, FreeReplies(u) PROVE EndInv'
  BY <1>36 DEF FreeReplies
<1>37. ASSUME NEW u \in Servers \cup Removers, Free(u) PROVE EndInv'
  BY <1>37 DEF Free, After
<1>38. ASSUME NEW u \in Removers, Unserv(u) PROVE EndInv'
  BY <1>38 DEF Unserv
<1>39. ASSUME NEW u \in Removers, Clear(u) PROVE EndInv'
  BY <1>39 DEF Clear
<1>40. ASSUME NEW q \in Procs, Undefined(q) PROVE EndInv'
  BY <1>40 DEF Undefined
<1> QED
  BY <1>1, <1>2, <1>3, <1>4, <1>5, <1>6, <1>7, <1>8, <1>9, <1>10, <1>11,
     <1>12, <1>13, <1>14, <1>15, <1>16, <1>17, <1>18, <1>19, <1>20, <1>21,
     <1>22, <1>23, <1>24, <1>25, <1>26, <1>27, <1>28, <1>29, <1>30, <1>31,
     <1>32, <1>33, <1>34, <1>35, <1>36, <1>37, <1>38, <1>39, <1>40 DEF Next,
     Sends, Receives, Replies, Frees, Serves

IInv == TypeInv /\ RefInv /\ MidInv /\ HandInv /\ DoneInv /\ QueueInv
MessageInv == IInv /\ (OneServer => ListInv /\ EndInv)

LEMMA MessageInit == Init => MessageInv
<1> SUFFICES ASSUME Init PROVE MessageInv
  OBVIOUS
<1>1. TypeInv
  BY DEF Init, TypeInv, Types, Labels, AllLabels, SendLabels, ServeLabels, RemoveLabels,
         TakeLabels, HoldLabels, FoundLabels, ReplyLabels, FreeLabels
<1>2. \A q \in Procs : pc[q] = "idle" /\ ~Gone(q) /\ GroupOf[q] \in slot
  BY DEF Init, Gone, FreeLabels, Groups
<1>3. RefInv
  <2>1. Holding = Groups
    BY <1>2 DEF Holding, Groups
  <2>2. refs = Cardinality(Groups)
    BY DEF Init
  <2> QED BY <1>2, <2>1, <2>2 DEF RefInv, HoldInv, PlaceInv, FreeLabels
<1>4. MidInv /\ HandInv /\ DoneInv /\ QueueInv
  BY DEF Init, MidInv, HandInv, DoneInv, QueueInv, Linked, InCall, Taken, InHand, Fresh, TakeLabels,
         HoldLabels, FoundLabels, ReplyLabels
<1>5. ListInv /\ EndInv
  BY DEF Init, ListInv, ListWays, ListHands, EndInv, Root, Storing
<1> QED BY <1>1, <1>3, <1>4, <1>5 DEF MessageInv, IInv

LEMMA MessageSame == ASSUME MessageInv, UNCHANGED vars PROVE MessageInv'
<1>1. TypeInv'
  BY DEF MessageInv, IInv, TypeInv, Types, Labels
<1>2. RefInv'
  <2>1. \A q \in Procs : Gone(q)' <=> Gone(q)
    BY DEF Gone
  <2> QED BY <2>1, SameHolding DEF MessageInv, IInv, RefInv, PlaceInv, LastOfGroup
<1>3. (MidInv /\ HandInv /\ DoneInv)'
  BY DEF MessageInv, IInv, MidInv, HandInv, DoneInv, Linked, InCall, Taken, InHand
<1>4. QueueInv'
  <2>1. \A s \in Senders : (Fresh(s)' <=> Fresh(s)) /\ (Queued(s)' <=> Queued(s))
    BY DEF Fresh, Queued, Received, Linked, InCall
  <2> QED BY <2>1 DEF MessageInv, IInv, QueueInv, TypeInv, Types
<1>5. OneServer => ListInv' /\ EndInv'
  BY DEF MessageInv, ListInv, ListWays, ListHands, EndInv, Live, Open, Points, Root, Storing, Linked, InCall
<1> QED BY <1>1, <1>2, <1>3, <1>4, <1>5 DEF MessageInv, IInv

LEMMA MessageStep ==
  ASSUME OwnGroups, ~Repeats \/ OneServer, MessageInv, [Next]_vars
  PROVE  MessageInv'
<1> USE DEF MessageInv, IInv
<1>1. CASE Next
  <2>1. TypeInv'
    BY <1>1, TypesStep, LabelsStep DEF TypeInv
  <2>2. RefInv'
    BY <1>1, HoldStep, PlaceStep DEF RefInv
  <2>3. MidInv' /\ HandInv' /\ DoneInv' /\ QueueInv'
    BY <1>1, MidStep, HandStep, DoneStep, QueueStep
  <2>4. OneServer => ListInv' /\ EndInv'
    BY <1>1, ListStep, EndStep
  <2> QED BY <2>1, <2>2, <2>3, <2>4
<1>2. CASE UNCHANGED vars
  BY <1>2, MessageSame
<1> QED BY <1>1, <1>2

LEMMA MessageInvHolds ==
  ASSUME OwnGroups, ~Repeats \/ OneServer
  PROVE  Spec => []MessageInv
BY MessageInit, MessageStep, PTL DEF Spec

(* The address, the messages and what the calls keep of them have their    *)
(* types: a walk of a queue meets only messages, and the references never  *)
(* go below none: message.c.                                               *)
THEOREM MessageTyped ==
  ASSUME OwnGroups, ~Repeats \/ OneServer
  PROVE  Spec => []TypeOK
<1>1. MessageInv => TypeOK
  <2> SUFFICES ASSUME MessageInv PROVE TypeOK
    OBVIOUS
  <2>1. refs \in 0..Cardinality(Groups)
    <3>1. Holding \subseteq Groups
      BY DEF Holding
    <3>2. /\ Cardinality(Holding) \in Nat /\ Cardinality(Groups) \in Nat
          /\ Cardinality(Holding) <= Cardinality(Groups)
      BY <3>1, FiniteGroups, FiniteHolding, FS_Subset, FS_CardinalityType
    <3> QED BY <3>2 DEF MessageInv, IInv, RefInv, HoldInv
  <2> QED BY <2>1 DEF MessageInv, IInv, TypeInv, Types, TypeOK
<1> QED BY <1>1, MessageInvHolds, PTL

(* recv() returns a message once, to one server, whatever senders append   *)
(* behind a message that is being taken off: kmessage(), krecv().          *)
THEOREM MessagesReceivedOnce ==
  ASSUME OwnGroups, ~Repeats \/ OneServer
  PROVE  Spec => []ReceivedOnce
<1>1. MessageInv => ReceivedOnce
  BY DEF MessageInv, IInv, MidInv, HandInv, ReceivedOnce, Taken, TakeLabels
<1> QED BY <1>1, MessageInvHolds, PTL

(* Every message answered in this step is one that a server received and   *)
(* replies to.                                                             *)
AnswersOne == \A t \in Senders : ret[t] # "ok" /\ ret'[t] = "ok" =>
                \E w \in Servers : want[w] = mid[t] /\ want[w] \in knows[w]

(* ret becomes OK in reply() only, for the number it was given.            *)
LEMMA AnswerStep ==
  ASSUME TypeInv, RefInv, MidInv, HandInv, DoneInv, QueueInv, Next
  PROVE  AnswersOne
<1> USE DEF AnswersOne, TypeInv, Types, Labels, AllLabels, SendLabels, ServeLabels,
            RemoveLabels, TakeLabels, HoldLabels, FoundLabels, ReplyLabels, FreeLabels
<1>1. ASSUME NEW s \in Senders, Begin(s) PROVE AnswersOne
  BY <1>1 DEF Begin
<1>2. ASSUME NEW s \in Senders, Number(s) PROVE AnswersOne
  BY <1>2 DEF Number
<1>3. ASSUME NEW s \in Senders, LoadRecv(s) PROVE AnswersOne
  BY <1>3 DEF LoadRecv
<1>4. ASSUME NEW s \in Senders, Walk(s) PROVE AnswersOne
  BY <1>4 DEF Walk
<1>5. ASSUME NEW s \in Senders, WalkEnds(s) PROVE AnswersOne
  BY <1>5 DEF WalkEnds
<1>6. ASSUME NEW s \in Senders, Link(s) PROVE AnswersOne
  BY <1>6 DEF Link
<1>7. ASSUME NEW s \in Senders, LinkFails(s) PROVE AnswersOne
  BY <1>7 DEF LinkFails
<1>8. ASSUME NEW s \in Senders, Notify(s) PROVE AnswersOne
  BY <1>8 DEF Notify
<1>9. ASSUME NEW s \in Senders, Return(s) PROVE AnswersOne
  BY <1>9 DEF Return
<1>10. ASSUME NEW v \in Servers, Recv(v) PROVE AnswersOne
  BY <1>10 DEF Recv
<1>11. ASSUME NEW v \in Servers, Lock(v) PROVE AnswersOne
  BY <1>11 DEF Lock
<1>12. ASSUME NEW v \in Servers, Head(v) PROVE AnswersOne
  BY <1>12 DEF Head
<1>13. ASSUME NEW v \in Servers, Announce(v) PROVE AnswersOne
  BY <1>13 DEF Announce
<1>14. ASSUME NEW v \in Servers, Fault(v) PROVE AnswersOne
  BY <1>14 DEF Fault, LastOfGroup
<1>15. ASSUME NEW v \in Servers, LoadNext(v) PROVE AnswersOne
  BY <1>15 DEF LoadNext
<1>16. ASSUME NEW v \in Servers, Pop(v) PROVE AnswersOne
  BY <1>16 DEF Pop
<1>17. ASSUME NEW v \in Servers, PopFails(v) PROVE AnswersOne
  BY <1>17 DEF PopFails
<1>18. ASSUME NEW v \in Servers, Unlock(v) PROVE AnswersOne
  BY <1>18 DEF Unlock
<1>19. ASSUME NEW v \in Servers, LinkReply(v) PROVE AnswersOne
  BY <1>19 DEF LinkReply
<1>20. ASSUME NEW v \in Servers, StoreReply(v) PROVE AnswersOne
  BY <1>20 DEF StoreReply
<1>21. ASSUME NEW v \in Servers, Deliver(v) PROVE AnswersOne
  BY <1>21 DEF Deliver
<1>22. ASSUME NEW v \in Servers, LoadReply(v) PROVE AnswersOne
  BY <1>22 DEF LoadReply
<1>23. ASSUME NEW v \in Servers, Other(v) PROVE AnswersOne
  BY <1>23 DEF Other
<1>24. ASSUME NEW v \in Servers, NotFound(v) PROVE AnswersOne
  BY <1>24 DEF NotFound, Done
<1>25. ASSUME NEW v \in Servers, Found(v) PROVE AnswersOne
  BY <1>25 DEF Found
<1>26. ASSUME NEW v \in Servers, LoadAfter(v) PROVE AnswersOne
  BY <1>26 DEF LoadAfter
<1>27. ASSUME NEW v \in Servers, Unlink(v) PROVE AnswersOne
  BY <1>27 DEF Unlink
<1>28. ASSUME NEW v \in Servers, UnlinkFails(v) PROVE AnswersOne
  BY <1>28 DEF UnlinkFails
<1>29. ASSUME NEW v \in Servers, Answer(v) PROVE AnswersOne
  <2>1. want[v] = mid[m[v]] /\ want[v] \in knows[v]
    BY <1>29 DEF Answer, HandInv, MidInv, InHand
  <2> QED BY <1>29, <2>1 DEF Answer
<1>30. ASSUME NEW v \in Servers, ReadySender(v) PROVE AnswersOne
  BY <1>30 DEF ReadySender, Done
<1>31. ASSUME NEW v \in Servers, NEW k \in 1..MaxMid, Reply(v, k) PROVE AnswersOne
  BY <1>31 DEF Reply
<1>32. ASSUME NEW q \in Procs, Sleep(q) PROVE AnswersOne
  BY <1>32 DEF Sleep
<1>33. ASSUME NEW u \in Servers \cup Removers, DropRef(u) PROVE AnswersOne
  BY <1>33 DEF DropRef, After
<1>34. ASSUME NEW u \in Servers \cup Removers, FailSender(u) PROVE AnswersOne
  BY <1>34 DEF FailSender
<1>35. ASSUME NEW u \in Servers \cup Removers, FreeNext(u) PROVE AnswersOne
  BY <1>35 DEF FreeNext
<1>36. ASSUME NEW u \in Servers \cup Removers, FreeReplies(u) PROVE AnswersOne
  BY <1>36 DEF FreeReplies
<1>37. ASSUME NEW u \in Servers \cup Removers, Free(u) PROVE AnswersOne
  BY <1>37 DEF Free, After
<1>38. ASSUME NEW u \in Removers, Unserv(u) PROVE AnswersOne
  BY <1>38 DEF Unserv
<1>39. ASSUME NEW u \in Removers, Clear(u) PROVE AnswersOne
  BY <1>39 DEF Clear
<1>40. ASSUME NEW q \in Procs, Undefined(q) PROVE AnswersOne
  BY <1>40 DEF Undefined
<1> QED
  BY <1>1, <1>2, <1>3, <1>4, <1>5, <1>6, <1>7, <1>8, <1>9, <1>10, <1>11,
     <1>12, <1>13, <1>14, <1>15, <1>16, <1>17, <1>18, <1>19, <1>20, <1>21,
     <1>22, <1>23, <1>24, <1>25, <1>26, <1>27, <1>28, <1>29, <1>30, <1>31,
     <1>32, <1>33, <1>34, <1>35, <1>36, <1>37, <1>38, <1>39, <1>40 DEF Next,
     Sends, Receives, Replies, Frees, Serves

(* Only the message that reply() was given the mid of is answered, and by  *)
(* a server that received it, as long as no server replies twice to one    *)
(* mid or there is but one server: kreply().                               *)
THEOREM AnswersAreWanted ==
  ASSUME OwnGroups, ~Repeats \/ OneServer
  PROVE  Spec => AnswersWanted
<1> DEFINE A == \A s \in Senders : ret[s] # "ok" /\ ret'[s] = "ok" =>
                  \E v \in Servers : want[v] = mid[s] /\ want[v] \in knows[v]
<1>1. MessageInv /\ [Next]_vars => [A]_vars
  BY AnswerStep DEF MessageInv, IInv, AnswersOne
<1> QED BY <1>1, MessageInvHolds, PTL DEF Spec, AnswersWanted

-----------------------------------------------------------------------------
(* The phases of the senders in Rpc, and which steps change them.          *)
ph == [s \in Senders |-> Phase(s)]

LEMMA RpcInit == Init => R!RInit
<1> SUFFICES ASSUME Init PROVE R!RInit
  OBVIOUS
<1>1. refs > 0
  <2>1. Groups # {}
    BY ProcsAssumption DEF Groups
  <2> QED BY <2>1, FiniteGroups, FS_EmptySet, FS_CardinalityType DEF Init
<1>2. \A s \in Senders : Phase(s) = "idle"
  BY DEF Init, Phase, InCall
<1> QED BY <1>1, <1>2 DEF R!RInit

LEMMA PhaseMoves ==
  ASSUME NEW s \in Senders, NEW to, Phase(s)' = to, \A t \in Senders \ {s} : Phase(t)' = Phase(t)
  PROVE  ph' = [ph EXCEPT ![s] = to]
BY DEF ph

LEMMA PhaseFails ==
  ASSUME NEW s \in Senders, InCall(s), InCall(s)', ret'[s] = "err",
         \A t \in Senders \ {s} : /\ (InCall(t)' <=> InCall(t)) /\ (Received(t)' <=> Received(t))
                                  /\ ret'[t] = ret[t]
  PROVE  Phase(s)' = "error" /\ \A t \in Senders \ {s} : Phase(t)' = Phase(t)
BY DEF Phase

LEMMA SameRpc ==
  ASSUME \A s \in Senders : Phase(s)' = Phase(s), refs' = refs
  PROVE  UNCHANGED R!rvars
BY DEF R!rvars

(* The message a process fails after the last reference was not answered.  *)
FailsUnanswered == \A q \in Procs : pc[q] = "fwake" => ret[m[q]] # "ok"

(* Every step is a step of Rpc or changes nothing Rpc sees.                *)
LEMMA RpcStep ==
  ASSUME TypeInv, RefInv, MidInv, HandInv, DoneInv, QueueInv, OwnGroups, FailsUnanswered, Next
  PROVE  R!RNext \/ UNCHANGED R!rvars
<1> USE DEF TypeInv, Types, Labels, MidInv, HandInv, AllLabels, SendLabels, ServeLabels,
            RemoveLabels, TakeLabels, HoldLabels, FoundLabels, ReplyLabels, FreeLabels,
            Linked, InCall, Taken, InHand
<1>1. ASSUME NEW s \in Senders, Begin(s) PROVE R!RNext \/ UNCHANGED R!rvars
  <2>1. \A t \in Senders : Phase(t)' = Phase(t)
    BY <1>1 DEF Begin, Phase, Received
  <2>2. refs' = refs
    BY <1>1 DEF Begin
  <2> QED BY <2>1, <2>2, SameRpc
<1>2. ASSUME NEW s \in Senders, Number(s) PROVE R!RNext \/ UNCHANGED R!rvars
  <2>1. Phase(s) = "idle" /\ Phase(s)' = "sent"
    BY <1>2 DEF Number, Phase, Received
  <2>2. refs' = refs /\ \A t \in Senders \ {s} : Phase(t)' = Phase(t)
    BY <1>2 DEF Number, Phase, Received
  <2>3. ph' = [ph EXCEPT ![s] = "sent"]
    BY <2>1, <2>2, PhaseMoves
  <2>4. R!Send(s)
    BY <2>1, <2>2, <2>3 DEF ph, R!Send, R!Move
  <2> QED BY <2>4 DEF R!RNext
<1>3. ASSUME NEW s \in Senders, LoadRecv(s) PROVE R!RNext \/ UNCHANGED R!rvars
  <2>1. \A t \in Senders : Phase(t)' = Phase(t)
    BY <1>3 DEF LoadRecv, Phase, Received
  <2>2. refs' = refs
    BY <1>3 DEF LoadRecv
  <2> QED BY <2>1, <2>2, SameRpc
<1>4. ASSUME NEW s \in Senders, Walk(s) PROVE R!RNext \/ UNCHANGED R!rvars
  <2>1. \A t \in Senders : Phase(t)' = Phase(t)
    BY <1>4 DEF Walk, Phase, Received
  <2>2. refs' = refs
    BY <1>4 DEF Walk
  <2> QED BY <2>1, <2>2, SameRpc
<1>5. ASSUME NEW s \in Senders, WalkEnds(s) PROVE R!RNext \/ UNCHANGED R!rvars
  <2>1. \A t \in Senders : Phase(t)' = Phase(t)
    BY <1>5 DEF WalkEnds, Phase, Received
  <2>2. refs' = refs
    BY <1>5 DEF WalkEnds
  <2> QED BY <2>1, <2>2, SameRpc
<1>6. ASSUME NEW s \in Senders, Link(s) PROVE R!RNext \/ UNCHANGED R!rvars
  <2>1. \A t \in Senders : Phase(t)' = Phase(t)
    BY <1>6 DEF Link, Phase, Received
  <2>2. refs' = refs
    BY <1>6 DEF Link
  <2> QED BY <2>1, <2>2, SameRpc
<1>7. ASSUME NEW s \in Senders, LinkFails(s) PROVE R!RNext \/ UNCHANGED R!rvars
  <2>1. \A t \in Senders : Phase(t)' = Phase(t)
    BY <1>7 DEF LinkFails, Phase, Received
  <2>2. refs' = refs
    BY <1>7 DEF LinkFails
  <2> QED BY <2>1, <2>2, SameRpc
<1>8. ASSUME NEW s \in Senders, Notify(s) PROVE R!RNext \/ UNCHANGED R!rvars
  <2>1. \A t \in Senders : Phase(t)' = Phase(t)
    BY <1>8 DEF Notify, Phase, Received
  <2>2. refs' = refs
    BY <1>8 DEF Notify
  <2> QED BY <2>1, <2>2, SameRpc
<1>9. ASSUME NEW s \in Senders, Return(s) PROVE R!RNext \/ UNCHANGED R!rvars
  <2>1. Phase(s) \in {"ok", "error"} /\ Phase(s)' = "idle"
    BY <1>9 DEF Return, Phase
  <2>2. refs' = refs /\ \A t \in Senders \ {s} : Phase(t)' = Phase(t)
    BY <1>9 DEF Return, Phase, Received
  <2>3. ph' = [ph EXCEPT ![s] = "idle"]
    BY <2>1, <2>2, PhaseMoves
  <2>4. R!Return(s)
    BY <2>1, <2>2, <2>3 DEF ph, R!Return, R!Move
  <2> QED BY <2>4 DEF R!RNext
<1>10. ASSUME NEW v \in Servers, Recv(v) PROVE R!RNext \/ UNCHANGED R!rvars
  <2>1. \A t \in Senders : Phase(t)' = Phase(t)
    BY <1>10 DEF Recv, Phase, Received
  <2>2. refs' = refs
    BY <1>10 DEF Recv
  <2> QED BY <2>1, <2>2, SameRpc
<1>11. ASSUME NEW v \in Servers, Lock(v) PROVE R!RNext \/ UNCHANGED R!rvars
  <2>1. \A t \in Senders : Phase(t)' = Phase(t)
    BY <1>11 DEF Lock, Phase, Received
  <2>2. refs' = refs
    BY <1>11 DEF Lock
  <2> QED BY <2>1, <2>2, SameRpc
<1>12. ASSUME NEW v \in Servers, Head(v) PROVE R!RNext \/ UNCHANGED R!rvars
  <2>1. \A t \in Senders : Phase(t)' = Phase(t)
    BY <1>12 DEF Head, Phase, Received
  <2>2. refs' = refs
    BY <1>12 DEF Head
  <2> QED BY <2>1, <2>2, SameRpc
<1>13. ASSUME NEW v \in Servers, Announce(v) PROVE R!RNext \/ UNCHANGED R!rvars
  <2>1. \A t \in Senders : Phase(t)' = Phase(t)
    BY <1>13 DEF Announce, Phase, Received
  <2>2. refs' = refs
    BY <1>13 DEF Announce
  <2> QED BY <2>1, <2>2, SameRpc
<1>14. ASSUME NEW v \in Servers, Fault(v) PROVE R!RNext \/ UNCHANGED R!rvars
  <2>1. \A t \in Senders : Phase(t)' = Phase(t)
    BY <1>14 DEF Fault, LastOfGroup, Phase, Received
  <2>2. refs' = refs
    BY <1>14 DEF Fault, LastOfGroup
  <2> QED BY <2>1, <2>2, SameRpc
<1>15. ASSUME NEW v \in Servers, LoadNext(v) PROVE R!RNext \/ UNCHANGED R!rvars
  <2>1. \A t \in Senders : Phase(t)' = Phase(t)
    BY <1>15 DEF LoadNext, Phase, Received
  <2>2. refs' = refs
    BY <1>15 DEF LoadNext
  <2> QED BY <2>1, <2>2, SameRpc
<1>16. ASSUME NEW v \in Servers, Pop(v) PROVE R!RNext \/ UNCHANGED R!rvars
  <2>0. Queued(m[v])
    BY <1>16, ServerHolds DEF Pop, QueueInv, RefInv, Gone
  <2>. PICK s \in Senders : s = m[v]
    BY <1>16 DEF Pop
  <2>1. Phase(s) = "sent" /\ Phase(s)' = "held"
    BY <1>16, <2>0 DEF Queued, Fresh, Pop, Phase, Received
  <2>2. refs' = refs /\ \A t \in Senders \ {s} : Phase(t)' = Phase(t)
    BY <1>16 DEF Pop, Phase, Received
  <2>3. ph' = [ph EXCEPT ![s] = "held"]
    BY <2>1, <2>2, PhaseMoves
  <2>4. R!Receive(s)
    BY <2>1, <2>2, <2>3 DEF ph, R!Receive, R!Move
  <2> QED BY <2>4 DEF R!RNext
<1>17. ASSUME NEW v \in Servers, PopFails(v) PROVE R!RNext \/ UNCHANGED R!rvars
  <2>1. \A t \in Senders : Phase(t)' = Phase(t)
    BY <1>17 DEF PopFails, Phase, Received
  <2>2. refs' = refs
    BY <1>17 DEF PopFails
  <2> QED BY <2>1, <2>2, SameRpc
<1>18. ASSUME NEW v \in Servers, Unlock(v) PROVE R!RNext \/ UNCHANGED R!rvars
  <2>1. \A t \in Senders : Phase(t)' = Phase(t)
    BY <1>18 DEF Unlock, Phase, Received
  <2>2. refs' = refs
    BY <1>18 DEF Unlock
  <2> QED BY <2>1, <2>2, SameRpc
<1>19. ASSUME NEW v \in Servers, LinkReply(v) PROVE R!RNext \/ UNCHANGED R!rvars
  <2>1. \A t \in Senders : Phase(t)' = Phase(t)
    BY <1>19 DEF LinkReply, Phase, Received
  <2>2. refs' = refs
    BY <1>19 DEF LinkReply
  <2> QED BY <2>1, <2>2, SameRpc
<1>20. ASSUME NEW v \in Servers, StoreReply(v) PROVE R!RNext \/ UNCHANGED R!rvars
  <2>1. \A t \in Senders : Phase(t)' = Phase(t)
    BY <1>20 DEF StoreReply, Phase, Received
  <2>2. refs' = refs
    BY <1>20 DEF StoreReply
  <2> QED BY <2>1, <2>2, SameRpc
<1>21. ASSUME NEW v \in Servers, Deliver(v) PROVE R!RNext \/ UNCHANGED R!rvars
  <2>1. \A t \in Senders : Phase(t)' = Phase(t)
    BY <1>21 DEF Deliver, Phase, Received
  <2>2. refs' = refs
    BY <1>21 DEF Deliver
  <2> QED BY <2>1, <2>2, SameRpc
<1>22. ASSUME NEW v \in Servers, LoadReply(v) PROVE R!RNext \/ UNCHANGED R!rvars
  <2>1. \A t \in Senders : Phase(t)' = Phase(t)
    BY <1>22 DEF LoadReply, Phase, Received
  <2>2. refs' = refs
    BY <1>22 DEF LoadReply
  <2> QED BY <2>1, <2>2, SameRpc
<1>23. ASSUME NEW v \in Servers, Other(v) PROVE R!RNext \/ UNCHANGED R!rvars
  <2>1. \A t \in Senders : Phase(t)' = Phase(t)
    BY <1>23 DEF Other, Phase, Received
  <2>2. refs' = refs
    BY <1>23 DEF Other
  <2> QED BY <2>1, <2>2, SameRpc
<1>24. ASSUME NEW v \in Servers, NotFound(v) PROVE R!RNext \/ UNCHANGED R!rvars
  <2>1. \A t \in Senders : Phase(t)' = Phase(t)
    BY <1>24 DEF NotFound, Done, Phase, Received
  <2>2. refs' = refs
    BY <1>24 DEF NotFound, Done
  <2> QED BY <2>1, <2>2, SameRpc
<1>25. ASSUME NEW v \in Servers, Found(v) PROVE R!RNext \/ UNCHANGED R!rvars
  <2>1. \A t \in Senders : Phase(t)' = Phase(t)
    BY <1>25 DEF Found, Phase, Received
  <2>2. refs' = refs
    BY <1>25 DEF Found
  <2> QED BY <2>1, <2>2, SameRpc
<1>26. ASSUME NEW v \in Servers, LoadAfter(v) PROVE R!RNext \/ UNCHANGED R!rvars
  <2>1. \A t \in Senders : Phase(t)' = Phase(t)
    BY <1>26 DEF LoadAfter, Phase, Received
  <2>2. refs' = refs
    BY <1>26 DEF LoadAfter
  <2> QED BY <2>1, <2>2, SameRpc
<1>27. ASSUME NEW v \in Servers, Unlink(v) PROVE R!RNext \/ UNCHANGED R!rvars
  <2>1. \A t \in Senders : Phase(t)' = Phase(t)
    BY <1>27 DEF Unlink, Phase, Received
  <2>2. refs' = refs
    BY <1>27 DEF Unlink
  <2> QED BY <2>1, <2>2, SameRpc
<1>28. ASSUME NEW v \in Servers, UnlinkFails(v) PROVE R!RNext \/ UNCHANGED R!rvars
  <2>1. \A t \in Senders : Phase(t)' = Phase(t)
    BY <1>28 DEF UnlinkFails, Phase, Received
  <2>2. refs' = refs
    BY <1>28 DEF UnlinkFails
  <2> QED BY <2>1, <2>2, SameRpc
<1>29. ASSUME NEW v \in Servers, Answer(v) PROVE R!RNext \/ UNCHANGED R!rvars
  <2>. PICK s \in Senders : s = m[v]
    BY <1>29 DEF Answer
  <2>1. Phase(s) = "held" /\ Phase(s)' = "ok"
    BY <1>29 DEF Answer, Phase, Received
  <2>2. refs' = refs /\ \A t \in Senders \ {s} : Phase(t)' = Phase(t)
    BY <1>29 DEF Answer, Phase, Received
  <2>3. ph' = [ph EXCEPT ![s] = "ok"]
    BY <2>1, <2>2, PhaseMoves
  <2>4. R!Answer(s)
    BY <2>1, <2>2, <2>3 DEF ph, R!Answer, R!Move
  <2> QED BY <2>4 DEF R!RNext
<1>30. ASSUME NEW v \in Servers, ReadySender(v) PROVE R!RNext \/ UNCHANGED R!rvars
  <2>1. \A t \in Senders : Phase(t)' = Phase(t)
    BY <1>30 DEF ReadySender, Done, Phase, Received
  <2>2. refs' = refs
    BY <1>30 DEF ReadySender, Done
  <2> QED BY <2>1, <2>2, SameRpc
<1>31. ASSUME NEW v \in Servers, NEW k \in 1..MaxMid, Reply(v, k) PROVE R!RNext \/ UNCHANGED R!rvars
  <2>1. \A t \in Senders : Phase(t)' = Phase(t)
    BY <1>31 DEF Reply, Phase, Received
  <2>2. refs' = refs
    BY <1>31 DEF Reply
  <2> QED BY <2>1, <2>2, SameRpc
<1>32. ASSUME NEW q \in Procs, Sleep(q) PROVE R!RNext \/ UNCHANGED R!rvars
  <2>1. \A t \in Senders : Phase(t)' = Phase(t)
    BY <1>32 DEF Sleep, Phase, Received
  <2>2. refs' = refs
    BY <1>32 DEF Sleep
  <2> QED BY <2>1, <2>2, SameRpc
<1>33. ASSUME NEW u \in Servers \cup Removers, DropRef(u) PROVE R!RNext \/ UNCHANGED R!rvars
  <2>1. refs \in Nat \ {0} /\ refs' = refs - 1
    BY <1>33, DropHolds DEF DropRef
  <2>2. \A s \in Senders : Phase(s)' = Phase(s)
    BY <1>33 DEF DropRef, After, Phase, Received
  <2>3. ph' = ph
    BY <2>2 DEF ph
  <2>4. CASE refs = 1
    BY <2>1, <2>3, <2>4 DEF ph, R!RNext, R!GiveUp
  <2>5. CASE refs # 1
    BY <2>1, <2>3, <2>5 DEF ph, R!rvars
  <2> QED BY <2>4, <2>5
<1>34. ASSUME NEW u \in Servers \cup Removers, FailSender(u) PROVE R!RNext \/ UNCHANGED R!rvars
  <2> PICK s \in Senders : s = m[u]
    BY <1>34 DEF FailSender
  <2>1. refs = 0 /\ refs' = refs /\ InCall(s) /\ InCall(s)' /\ ret[s] # "ok" /\ ret'[s] = "err"
    BY <1>34 DEF FailSender, FailsUnanswered, RefInv, PlaceInv, Ok, Touches
  <2>2. ASSUME NEW t \in Senders \ {s}
        PROVE (InCall(t)' <=> InCall(t)) /\ (Received(t)' <=> Received(t)) /\ ret'[t] = ret[t]
    BY <1>34 DEF FailSender, Received
  <2>3. Phase(s)' = "error" /\ \A t \in Senders \ {s} : Phase(t)' = Phase(t)
    BY <2>1, <2>2, PhaseFails
  <2>4. CASE ret[s] = "err"
    <3>1. Phase(s) = "error"
      BY <2>1, <2>4 DEF Phase
    <3>2. ASSUME NEW t \in Senders PROVE Phase(t)' = Phase(t)
      BY <2>3, <3>1
    <3> QED BY <2>1, <3>2, SameRpc
  <2>5. CASE ret[s] = "none"
    <3>1. Phase(s) \in {"sent", "held"}
      BY <2>1, <2>5 DEF Phase
    <3>2. ph' = [ph EXCEPT ![s] = "error"]
      BY <2>3, PhaseMoves
    <3>3. R!Fail(s)
      BY <2>1, <3>1, <3>2 DEF ph, R!Fail, R!Move
    <3> QED BY <3>3 DEF R!RNext
  <2> QED BY <2>1, <2>4, <2>5
<1>35. ASSUME NEW u \in Servers \cup Removers, FreeNext(u) PROVE R!RNext \/ UNCHANGED R!rvars
  <2>1. \A t \in Senders : Phase(t)' = Phase(t)
    BY <1>35 DEF FreeNext, Phase, Received
  <2>2. refs' = refs
    BY <1>35 DEF FreeNext
  <2> QED BY <2>1, <2>2, SameRpc
<1>36. ASSUME NEW u \in Servers \cup Removers, FreeReplies(u) PROVE R!RNext \/ UNCHANGED R!rvars
  <2>1. \A t \in Senders : Phase(t)' = Phase(t)
    BY <1>36 DEF FreeReplies, Phase, Received
  <2>2. refs' = refs
    BY <1>36 DEF FreeReplies
  <2> QED BY <2>1, <2>2, SameRpc
<1>37. ASSUME NEW u \in Servers \cup Removers, Free(u) PROVE R!RNext \/ UNCHANGED R!rvars
  <2>1. \A t \in Senders : Phase(t)' = Phase(t)
    BY <1>37 DEF Free, After, Phase, Received
  <2>2. refs' = refs
    BY <1>37 DEF Free, After
  <2> QED BY <2>1, <2>2, SameRpc
<1>38. ASSUME NEW u \in Removers, Unserv(u) PROVE R!RNext \/ UNCHANGED R!rvars
  <2>1. \A t \in Senders : Phase(t)' = Phase(t)
    BY <1>38 DEF Unserv, Phase, Received
  <2>2. refs' = refs
    BY <1>38 DEF Unserv
  <2> QED BY <2>1, <2>2, SameRpc
<1>39. ASSUME NEW u \in Removers, Clear(u) PROVE R!RNext \/ UNCHANGED R!rvars
  <2>1. \A t \in Senders : Phase(t)' = Phase(t)
    BY <1>39 DEF Clear, Phase, Received
  <2>2. refs' = refs
    BY <1>39 DEF Clear
  <2> QED BY <2>1, <2>2, SameRpc
<1>40. ASSUME NEW q \in Procs, Undefined(q) PROVE R!RNext \/ UNCHANGED R!rvars
  <2>1. \A t \in Senders : Phase(t)' = Phase(t)
    BY <1>40 DEF Undefined, Phase, Received
  <2>2. refs' = refs
    BY <1>40 DEF Undefined
  <2> QED BY <2>1, <2>2, SameRpc
<1> QED
  BY <1>1, <1>2, <1>3, <1>4, <1>5, <1>6, <1>7, <1>8, <1>9, <1>10, <1>11,
     <1>12, <1>13, <1>14, <1>15, <1>16, <1>17, <1>18, <1>19, <1>20, <1>21,
     <1>22, <1>23, <1>24, <1>25, <1>26, <1>27, <1>28, <1>29, <1>30, <1>31,
     <1>32, <1>33, <1>34, <1>35, <1>36, <1>37, <1>38, <1>39, <1>40 DEF Next,
     Sends, Receives, Replies, Frees, Serves

LEMMA RpcSame == ASSUME UNCHANGED vars PROVE UNCHANGED R!rvars
<1>1. \A s \in Senders : Phase(s)' = Phase(s)
  BY DEF Phase, Received, InCall
<1> QED BY <1>1, SameRpc

(* The lists of message.c, with the races of their users, give message(),   *)
(* recv() and reply() of one server the meaning of Rpc: a call returns OK   *)
(* only when its own message was received and answered, and an error only   *)
(* when the address was given up.                                           *)
THEOREM RpcImplemented ==
  ASSUME OwnGroups, OneServer
  PROVE  Spec => ImplementsRpc
<1>1. MessageInv => FailsUnanswered
  BY DEF MessageInv, IInv, RefInv, PlaceInv, EndInv, FailsUnanswered, FreeLabels
<1>2. MessageInv /\ [Next]_vars => [R!RNext]_(R!rvars)
  BY <1>1, RpcStep, RpcSame DEF MessageInv, IInv
<1> QED BY <1>2, RpcInit, MessageInvHolds, PTL DEF Spec, ImplementsRpc, R!RSpec

(* So do they for any number of servers, none of which replies twice to one *)
(* mid, while nobody gives the address up.                                  *)
THEOREM RpcImplementedByMany ==
  ASSUME Removers = {}, ~Repeats
  PROVE  Spec => ImplementsRpc
<1>1. OwnGroups
  BY DEF OwnGroups
<1>2. MessageInv => FailsUnanswered
  <2> SUFFICES ASSUME MessageInv, NEW q \in Procs, pc[q] = "fwake", ret[m[q]] = "ok" PROVE FALSE
    BY DEF FailsUnanswered
  <2>1. refs = 0 /\ m[q] \in Senders
    BY DEF MessageInv, IInv, RefInv, PlaceInv, FreeLabels, TypeInv, Types, Labels
  <2>2. GroupOf[m[q]] \in Holding
    BY <2>1 DEF Holding, Groups, Gone
  <2> QED BY <2>1, <2>2, FiniteHolding, FS_EmptySet DEF MessageInv, IInv, RefInv, HoldInv
<1>3. MessageInv /\ [Next]_vars => [R!RNext]_(R!rvars)
  BY <1>1, <1>2, RpcStep, RpcSame DEF MessageInv, IInv
<1> QED BY <1>1, <1>3, RpcInit, MessageInvHolds, PTL DEF Spec, ImplementsRpc, R!RSpec
=============================================================================
