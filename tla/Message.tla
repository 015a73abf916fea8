------------------------------ MODULE Message ------------------------------
(***************************************************************************)
(* kern/message.c and kern/sysmessage.c: one address, the senders that     *)
(* message() it, the servers that recv() and reply(), and the processes    *)
(* that unserv() it; one action per access to the address or to a message. *)
(* A message is on the kernel stack of its sender and is named by it.      *)
(* Processes are preempted between any two actions (see Lock), a cas may   *)
(* fail without cause, and the lock of the address is taken as Mutex       *)
(* promises.  An access to the message of a call that is over, or to the   *)
(* address once it is freed, and procready() of a dead process have no     *)
(* defined outcome: they set ub and the system stops there.                *)
(***************************************************************************)
EXTENDS Naturals, FiniteSets

CONSTANTS Senders, Servers, Removers, \* who calls message(); recv() and reply(); unserv()
          GroupOf,   \* GroupOf[p]: the agroup of p, in which a is in one slot
          Repeats,   \* whether a server may reply() twice to one mid
          MaxMid,    \* messages sent, at most (a bound)
          None

Procs == Senders \cup Servers \cup Removers
Groups == {GroupOf[p] : p \in Procs}

ASSUME MessageAssumption == /\ None \notin Procs /\ IsFiniteSet(Procs)
                            /\ MaxMid \in Nat /\ Repeats \in BOOLEAN
                            /\ Senders \cap Servers = {}
                            /\ Removers \cap (Senders \cup Servers) = {}
ASSUME ProcsAssumption == Procs # {}

VARIABLES recv, reply, waiting, nextmid, refs, \* the fields of a
          holder,    \* a->lock
          freed,     \* free(a) has been called
          slot,      \* the groups in which a has not been removed
          next, mid, ret, \* the fields of the message of each sender
          knows,     \* knows[v]: the mids recv() has returned to v
          done,      \* done[v]: those v has called reply() for
          state,     \* "run" or "waiting"
          pc,        \* where a process is
          m, p, n,   \* the locals m and p, and the value m->next loaded for a cas
          want,      \* want[v]: the argument mid of kreply()
          ub

addr == <<recv, reply, waiting, nextmid, refs, holder, freed, slot>>
msgs == <<next, mid, ret>>
locals == <<m, p, n, want>>
server == <<knows, done>>
vars == <<addr, msgs, server, state, pc, locals, ub>>

Init == /\ recv = None /\ reply = None /\ waiting = None /\ nextmid = 1
        /\ refs = Cardinality(Groups) /\ holder = None /\ freed = FALSE /\ slot = Groups
        /\ next = [s \in Senders |-> None]
        /\ mid = [s \in Senders |-> 0]
        /\ ret = [s \in Senders |-> "none"]
        /\ knows = [v \in Servers |-> {}] /\ done = knows
        /\ state = [q \in Procs |-> "run"]
        /\ pc = [q \in Procs |-> "idle"]
        /\ m = [q \in Procs |-> None] /\ p = m /\ n = m
        /\ want = [v \in Servers |-> 0]
        /\ ub = FALSE

At(q, label) == pc[q] = label /\ state[q] = "run" /\ ~ub
Goto(q, label) == pc' = [pc EXCEPT ![q] = label]

InCall(s) == pc[s] \in {"load", "walk", "link", "notify", "sleep", "asleep"}

(* The message a process is about to touch, and whether it touches a. *)
Touches(q) == IF pc[q] \in {"walk", "link"} \/ (pc[q] = "kpop" /\ p[q] # None) THEN p[q]
              ELSE IF pc[q] \in {"rnext", "rlink", "deliver", "kwalk", "knext", "kpop",
                                 "kcopy", "kready", "fwake", "fnext"} THEN m[q]
              ELSE None
TouchesAddr(q) == \/ pc[q] \in {"call", "load", "notify", "lock", "head", "announce", "rpop", "unlock", "rstore",
                               "kload", "free", "ftwo"}
                  \/ pc[q] \in {"link", "kpop"} /\ p[q] = None

Undefined(q) ==
  /\ state[q] = "run" /\ ~ub
  /\ \/ Touches(q) # None /\ ~InCall(Touches(q))
     \/ TouchesAddr(q) /\ freed
     \/ pc[q] = "notify" /\ waiting # None /\ pc[waiting] = "dead"
  /\ ub' = TRUE
  /\ UNCHANGED <<addr, msgs, server, state, pc, locals>>

Ok(q) == Touches(q) # None => InCall(Touches(q))
OkAddr(q) == ~freed
-----------------------------------------------------------------------------
(* sysmessage() and kmessage() *)

Begin(s) == /\ At(s, "idle")
            /\ GroupOf[s] \in slot
            /\ Goto(s, "call")
            /\ UNCHANGED <<addr, msgs, server, state, locals, ub>>

(* m->mid = atomicinc(&a->nextmid), and the other fields. *)
Number(s) == /\ At(s, "call") /\ OkAddr(s)
             /\ nextmid <= MaxMid
             /\ nextmid' = nextmid + 1
             /\ mid' = [mid EXCEPT ![s] = nextmid]
             /\ Goto(s, "load")
             /\ UNCHANGED <<recv, reply, waiting, refs, holder, freed, slot, next, ret, server, state, locals, ub>>

LoadRecv(s) == /\ At(s, "load") /\ OkAddr(s)
               /\ p' = [p EXCEPT ![s] = recv]
               /\ Goto(s, "walk")
               /\ UNCHANGED <<addr, msgs, server, state, m, n, want, ub>>

Walk(s) == /\ At(s, "walk")
           /\ p[s] # None /\ Ok(s)
           /\ next[p[s]] # None
           /\ p' = [p EXCEPT ![s] = next[p[s]]]
           /\ UNCHANGED <<addr, msgs, server, state, pc, m, n, want, ub>>

WalkEnds(s) == /\ At(s, "walk")
               /\ p[s] # None => Ok(s) /\ next[p[s]] = None
               /\ Goto(s, "link")
               /\ UNCHANGED <<addr, msgs, server, state, locals, ub>>

Link(s) == /\ At(s, "link")
           /\ \/ p[s] = None /\ OkAddr(s) /\ recv = None /\ recv' = s /\ UNCHANGED next
              \/ p[s] # None /\ Ok(s) /\ next[p[s]] = None
                 /\ next' = [next EXCEPT ![p[s]] = s] /\ UNCHANGED recv
           /\ p' = [p EXCEPT ![s] = None]
           /\ Goto(s, "notify")
           /\ UNCHANGED <<reply, waiting, nextmid, refs, holder, freed, slot, mid, ret, server, state, m, n, want, ub>>

LinkFails(s) == /\ At(s, "link")
                /\ p' = [p EXCEPT ![s] = None]
                /\ Goto(s, "load")
                /\ UNCHANGED <<addr, msgs, server, state, m, n, want, ub>>

(* procready(a->waiting), which is never set back to nil. *)
Notify(s) == /\ At(s, "notify") /\ OkAddr(s)
             /\ waiting # None => pc[waiting] # "dead"
             /\ state' = [q \in Procs |-> IF q = waiting THEN "run" ELSE state[q]]
             /\ Goto(s, "sleep")
             /\ UNCHANGED <<addr, msgs, server, locals, ub>>

(* procwait(), of a sender or of a server. *)
Sleep(q) == /\ At(q, "sleep") \/ At(q, "rsleep")
            /\ state' = [state EXCEPT ![q] = "waiting"]
            /\ Goto(q, IF pc[q] = "sleep" THEN "asleep" ELSE "rasleep")
            /\ UNCHANGED <<addr, msgs, server, locals, ub>>

(* return m->ret; the message is gone with the stack frame. *)
Return(s) == /\ At(s, "asleep")
             /\ next' = [next EXCEPT ![s] = None]
             /\ mid' = [mid EXCEPT ![s] = 0]
             /\ ret' = [ret EXCEPT ![s] = "none"]
             /\ Goto(s, "idle")
             /\ UNCHANGED <<addr, server, state, locals, ub>>
-----------------------------------------------------------------------------
(* sysrecv() and krecv() *)

Recv(v) == /\ At(v, "idle")
           /\ GroupOf[v] \in slot
           /\ Goto(v, "lock")
           /\ UNCHANGED <<addr, msgs, server, state, locals, ub>>

Lock(v) == /\ At(v, "lock") /\ OkAddr(v)
           /\ holder = None
           /\ holder' = v
           /\ Goto(v, "head")
           /\ UNCHANGED <<recv, reply, waiting, nextmid, refs, freed, slot, msgs, server, state, locals, ub>>

(* Mutant: when the queue is empty the server itself is taken for a message. *)
HeadWaits(v) == /\ At(v, "head") /\ OkAddr(v)
                /\ m' = [m EXCEPT ![v] = IF recv = None THEN v ELSE recv]
                /\ Goto(v, IF recv = None THEN "announce" ELSE "rnext")
                /\ UNCHANGED <<addr, msgs, server, state, p, n, want, ub>>

Head(v) == /\ At(v, "head") /\ OkAddr(v)
           /\ m' = [m EXCEPT ![v] = recv]
           /\ Goto(v, IF recv = None THEN "announce" ELSE "rnext")
           /\ UNCHANGED <<addr, msgs, server, state, p, n, want, ub>>

(* a->waiting = up, then procwait(). *)
Announce(v) == /\ At(v, "announce") /\ OkAddr(v)
               /\ waiting' = v
               /\ Goto(v, "rsleep")
               /\ UNCHANGED <<recv, reply, nextmid, refs, holder, freed, slot, msgs, server, state, locals, ub>>

LastOfGroup(v) == \A q \in Procs \ {v} : GroupOf[q] = GroupOf[v] => pc[q] = "dead"

(* continue goes to the condition, which reads m->next with m = nil: the   *)
(* process is killed by trap(), with the lock held.                        *)
Fault(v) == /\ At(v, "rasleep")
            /\ Goto(v, IF GroupOf[v] \in slot /\ LastOfGroup(v) THEN "free" ELSE "dead")
            /\ UNCHANGED <<addr, msgs, server, state, locals, ub>>

LoadNext(v) == /\ At(v, "rnext") /\ Ok(v)
               /\ n' = [n EXCEPT ![v] = next[m[v]]]
               /\ Goto(v, "rpop")
               /\ UNCHANGED <<addr, msgs, server, state, m, p, want, ub>>

(* Mutant: the message received stays on the queue. *)
PopKeeps(v) == /\ At(v, "rpop") /\ OkAddr(v)
               /\ recv = m[v]
               /\ n' = [n EXCEPT ![v] = None]
               /\ Goto(v, "unlock")
               /\ UNCHANGED <<addr, msgs, server, state, m, p, want, ub>>

Pop(v) == /\ At(v, "rpop") /\ OkAddr(v)
          /\ recv = m[v]
          /\ recv' = n[v]
          /\ n' = [n EXCEPT ![v] = None]
          /\ Goto(v, "unlock")
          /\ UNCHANGED <<reply, waiting, nextmid, refs, holder, freed, slot, msgs, server, state, m, p, want, ub>>

PopFails(v) == /\ At(v, "rpop")
               /\ n' = [n EXCEPT ![v] = None]
               /\ Goto(v, "head")
               /\ UNCHANGED <<addr, msgs, server, state, m, p, want, ub>>

Unlock(v) == /\ At(v, "unlock") /\ OkAddr(v)
             /\ holder' = None
             /\ Goto(v, "rlink")
             /\ UNCHANGED <<recv, reply, waiting, nextmid, refs, freed, slot, msgs, server, state, locals, ub>>

(* m->next = a->reply *)
LinkReply(v) == /\ At(v, "rlink") /\ Ok(v) /\ OkAddr(v)
                /\ next' = [next EXCEPT ![m[v]] = reply]
                /\ Goto(v, "rstore")
                /\ UNCHANGED <<addr, mid, ret, server, state, locals, ub>>

(* a->reply = m *)
StoreReply(v) == /\ At(v, "rstore") /\ OkAddr(v)
                 /\ reply' = m[v]
                 /\ Goto(v, "deliver")
                 /\ UNCHANGED <<recv, waiting, nextmid, refs, holder, freed, slot, msgs, server, state, locals, ub>>

(* *mid = m->mid, and the copy of the message. *)
Deliver(v) == /\ At(v, "deliver") /\ Ok(v)
              /\ knows' = [knows EXCEPT ![v] = @ \cup {mid[m[v]]}]
              /\ m' = [m EXCEPT ![v] = None]
              /\ Goto(v, "idle")
              /\ UNCHANGED <<addr, msgs, done, state, p, n, want, ub>>
-----------------------------------------------------------------------------
(* sysreply() and kreply(), for a mid recv() has returned. *)

Reply(v, k) == /\ At(v, "idle")
               /\ GroupOf[v] \in slot
               /\ k \in knows[v] /\ (k \in done[v] => Repeats)
               /\ want' = [want EXCEPT ![v] = k]
               /\ done' = [done EXCEPT ![v] = @ \cup {k}]
               /\ Goto(v, "kload")
               /\ UNCHANGED <<addr, msgs, knows, state, m, p, n, ub>>

LoadReply(v) == /\ At(v, "kload") /\ OkAddr(v)
                /\ m' = [m EXCEPT ![v] = reply]
                /\ p' = [p EXCEPT ![v] = None]
                /\ Goto(v, "kwalk")
                /\ UNCHANGED <<addr, msgs, server, state, n, want, ub>>

Other(v) == /\ At(v, "kwalk")
            /\ m[v] # None /\ Ok(v)
            /\ mid[m[v]] # want[v]
            /\ p' = [p EXCEPT ![v] = m[v]]
            /\ m' = [m EXCEPT ![v] = next[m[v]]]
            /\ UNCHANGED <<addr, msgs, server, state, pc, n, want, ub>>

Done(v) == /\ m' = [m EXCEPT ![v] = None]
           /\ p' = [p EXCEPT ![v] = None]
           /\ want' = [want EXCEPT ![v] = 0]
           /\ Goto(v, "idle")

NotFound(v) == /\ At(v, "kwalk")
               /\ m[v] = None
               /\ Done(v)
               /\ UNCHANGED <<addr, msgs, server, state, n, ub>>

(* Mutant: the mids are not compared. *)
FoundAny(v) == /\ At(v, "kwalk")
               /\ m[v] # None /\ Ok(v)
               /\ Goto(v, "knext")
               /\ UNCHANGED <<addr, msgs, server, state, locals, ub>>

Found(v) == /\ At(v, "kwalk")
            /\ m[v] # None /\ Ok(v)
            /\ mid[m[v]] = want[v]
            /\ Goto(v, "knext")
            /\ UNCHANGED <<addr, msgs, server, state, locals, ub>>

LoadAfter(v) == /\ At(v, "knext") /\ Ok(v)
                /\ n' = [n EXCEPT ![v] = next[m[v]]]
                /\ Goto(v, "kpop")
                /\ UNCHANGED <<addr, msgs, server, state, m, p, want, ub>>

Unlink(v) == /\ At(v, "kpop")
             /\ \/ p[v] = None /\ OkAddr(v) /\ reply = m[v] /\ reply' = n[v] /\ UNCHANGED next
                \/ p[v] # None /\ Ok(v) /\ next[p[v]] = m[v]
                   /\ next' = [next EXCEPT ![p[v]] = n[v]] /\ UNCHANGED reply
             /\ n' = [n EXCEPT ![v] = None]
             /\ p' = [p EXCEPT ![v] = None]
             /\ Goto(v, "kcopy")
             /\ UNCHANGED <<recv, waiting, nextmid, refs, holder, freed, slot, mid, ret, server, state, m, want, ub>>

UnlinkFails(v) == /\ At(v, "kpop")
                  /\ n' = [n EXCEPT ![v] = None]
                  /\ Goto(v, "kload")
                  /\ UNCHANGED <<addr, msgs, server, state, m, p, want, ub>>

(* The copy of the reply, and m->ret = OK. *)
Answer(v) == /\ At(v, "kcopy") /\ Ok(v)
             /\ ret' = [ret EXCEPT ![m[v]] = "ok"]
             /\ Goto(v, "kready")
             /\ UNCHANGED <<addr, next, mid, server, state, locals, ub>>

(* procready(m->sender) *)
ReadySender(v) == /\ At(v, "kready") /\ Ok(v)
                  /\ state' = [state EXCEPT ![m[v]] = "run"]
                  /\ Done(v)
                  /\ UNCHANGED <<addr, msgs, server, n, ub>>
-----------------------------------------------------------------------------
(* sysunserv() and addrfree() *)

Unserv(u) == /\ At(u, "idle") /\ GroupOf[u] \in slot
             /\ Goto(u, "free")
             /\ UNCHANGED <<addr, msgs, server, state, locals, ub>>

(* Removing the slot is left to a process that lives. *)
After(u) == IF u \in Removers THEN "clear" ELSE "dead"

(* Mutant: the address is torn down whoever else refers to it. *)
DropLast(u) == /\ At(u, "free") /\ OkAddr(u) /\ refs > 0
               /\ refs' = refs - 1
               /\ m' = [m EXCEPT ![u] = recv]
               /\ Goto(u, IF recv = None THEN "ftwo" ELSE "fwake")
               /\ UNCHANGED <<recv, reply, waiting, nextmid, holder, freed, slot, msgs, server, state, p, n, want, ub>>

DropRef(u) == /\ At(u, "free") /\ OkAddr(u)
              /\ refs' = refs - 1
              /\ m' = [m EXCEPT ![u] = IF refs = 1 THEN recv ELSE None]
              /\ Goto(u, IF refs > 1 THEN After(u) ELSE IF recv = None THEN "ftwo" ELSE "fwake")
              /\ UNCHANGED <<recv, reply, waiting, nextmid, holder, freed, slot, msgs, server, state, p, n, want, ub>>

(* m->ret = ERR, procready(m->sender); p tells the second list from the first. *)
FailSender(u) == /\ At(u, "fwake") /\ Ok(u)
                 /\ ret' = [ret EXCEPT ![m[u]] = "err"]
                 /\ state' = [state EXCEPT ![m[u]] = "run"]
                 /\ Goto(u, "fnext")
                 /\ UNCHANGED <<addr, next, mid, server, locals, ub>>

FreeNext(u) == /\ At(u, "fnext") /\ Ok(u)
               /\ m' = [m EXCEPT ![u] = next[m[u]]]
               /\ Goto(u, IF next[m[u]] # None THEN "fwake" ELSE IF p[u] = None THEN "ftwo" ELSE "ffree")
               /\ UNCHANGED <<addr, msgs, server, state, p, n, want, ub>>

FreeReplies(u) == /\ At(u, "ftwo") /\ OkAddr(u)
                  /\ m' = [m EXCEPT ![u] = reply]
                  /\ p' = [p EXCEPT ![u] = reply]
                  /\ Goto(u, IF reply = None THEN "ffree" ELSE "fwake")
                  /\ UNCHANGED <<addr, msgs, server, state, n, want, ub>>

Free(u) == /\ At(u, "ffree")
           /\ freed' = TRUE
           /\ p' = [p EXCEPT ![u] = None]
           /\ Goto(u, After(u))
           /\ UNCHANGED <<recv, reply, waiting, nextmid, refs, holder, slot, msgs, server, state, m, n, want, ub>>

(* cas(&up->agroup->addrs[addr], a, nil), until it succeeds. *)
Clear(u) == /\ At(u, "clear")
            /\ GroupOf[u] \in slot
            /\ slot' = slot \ {GroupOf[u]}
            /\ Goto(u, "idle")
            /\ UNCHANGED <<recv, reply, waiting, nextmid, refs, holder, freed, msgs, server, state, locals, ub>>
-----------------------------------------------------------------------------
Sends(s) == \/ Number(s) \/ LoadRecv(s) \/ Walk(s) \/ WalkEnds(s) \/ Link(s) \/ LinkFails(s)
            \/ Notify(s) \/ Sleep(s) \/ Return(s)

Receives(v) == \/ Lock(v) \/ Head(v) \/ Announce(v) \/ Sleep(v) \/ Fault(v)
               \/ LoadNext(v) \/ Pop(v) \/ PopFails(v) \/ Unlock(v)
               \/ LinkReply(v) \/ StoreReply(v) \/ Deliver(v)

Replies(v) == \/ LoadReply(v) \/ Other(v) \/ NotFound(v) \/ Found(v)
              \/ LoadAfter(v) \/ Unlink(v) \/ UnlinkFails(v) \/ Answer(v) \/ ReadySender(v)

Frees(u) == DropRef(u) \/ FailSender(u) \/ FreeNext(u) \/ FreeReplies(u) \/ Free(u)

Serves(v) == Receives(v) \/ Replies(v) \/ Frees(v)

Next == \/ \E s \in Senders : Begin(s) \/ Sends(s)
        \/ \E v \in Servers : Recv(v) \/ (\E k \in 1..MaxMid : Reply(v, k)) \/ Serves(v)
        \/ \E u \in Removers : Unserv(u) \/ Frees(u) \/ Clear(u)
        \/ \E q \in Procs : Undefined(q)

Spec == Init /\ [][Next]_vars
-----------------------------------------------------------------------------
(* Type invariant of the address, the messages and the locals. *)
TypeOK == /\ {recv, reply} \subseteq Senders \cup {None}
          /\ waiting \in Servers \cup {None} /\ holder \in Servers \cup {None}
          /\ nextmid \in 1..(MaxMid + 1) /\ refs \in 0..Cardinality(Groups)
          /\ slot \subseteq Groups
          /\ next \in [Senders -> Senders \cup {None}]
          /\ mid \in [Senders -> 0..MaxMid]
          /\ ret \in [Senders -> {"none", "ok", "err"}]
          /\ {knows, done} \subseteq [Servers -> SUBSET (1..MaxMid)]
          /\ state \in [Procs -> {"run", "waiting"}]
          /\ \A q \in Procs : {m[q], p[q], n[q]} \subseteq Senders \cup {None}

(* Some recv() has taken the message of s off the queue. *)
Received(s) ==
  \E v \in Servers : \/ mid[s] \in knows[v]
                     \/ m[v] = s /\ pc[v] \in {"unlock", "rlink", "rstore", "deliver"}

Phase(s) == IF ~InCall(s) THEN "idle"
            ELSE IF ret[s] = "ok" THEN "ok"
            ELSE IF ret[s] = "err" THEN "error"
            ELSE IF Received(s) THEN "held" ELSE "sent"

R == INSTANCE Rpc WITH phase <- [s \in Senders |-> Phase(s)], open <- refs > 0

(* The lists, with the races of their users, implement Rpc. *)
ImplementsRpc == R!RSpec

(* No message is returned by recv() to two servers, or twice to one. *)
ReceivedOnce ==
  /\ \A v, w \in Servers : v # w => knows[v] \cap knows[w] = {}
  /\ \A v, w \in Servers, s \in Senders :
       m[v] = s /\ pc[v] \in {"unlock", "rlink", "rstore", "deliver"} /\ InCall(s) =>
         /\ mid[s] \notin knows[w]
         /\ m[w] = s /\ pc[w] \in {"unlock", "rlink", "rstore", "deliver"} => v = w

(* A reply is handed to the very message it was sent for, which some       *)
(* recv() had returned to the server that replies.                         *)
AnswersWanted ==
  [][\A s \in Senders : ret[s] # "ok" /\ ret'[s] = "ok" =>
       \E v \in Servers : want[v] = mid[s] /\ want[v] \in knows[v]]_vars

(* recv() returns: it is not the end of the process. *)
RecvReturns == \A v \in Servers : pc[v] # "dead"
=============================================================================
