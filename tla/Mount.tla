------------------------------- MODULE Mount -------------------------------
(***************************************************************************)
(* kern/file.c: makereq() and filewrite(), which put a transaction on the  *)
(* binding's list, write a request and wait; mountproc(), the kernel       *)
(* process that reads responses and hands them to the transactions; and    *)
(* bindingfree() of kern/ngroup.c.  One action per access to the binding   *)
(* or to a transaction; processes are preempted between any two of them    *)
(* (see Lock).  The lock of the binding is taken as Mutex promises, and    *)
(* the two pipes move a request or a response at once, as Stream promises. *)
(* A transaction is on the kernel stack of its client and is named by it.  *)
(* The model ends (ub) with an access to one whose call is over, or to the *)
(* binding or a channel once freed, and where procready() wakes a client   *)
(* that sleeps for something else.                                         *)
(***************************************************************************)
EXTENDS Naturals, FiniteSets

CONSTANTS Clients,   \* processes that use files of the mount
          mnt,       \* the process that runs mountproc()
          Kinds,     \* kinds of request: "read", "write", or "other"
          MaxCalls,  \* calls a client makes, at most (a bound)
          Stale,     \* response numbers that mountproc()'s stack may hold
          None

Procs == Clients \cup {mnt}
MaxRid == MaxCalls * Cardinality(Clients)
ELINK == MaxRid + 1

ASSUME MountAssumption == /\ mnt \notin Clients /\ None \notin Procs
                          /\ IsFiniteSet(Clients) /\ MaxCalls \in Nat
                          /\ Kinds \subseteq {"read", "write", "other"}

ASSUME StaleAssumption == Stale \subseteq 0..MaxRid

VARIABLES b,       \* the binding: waiting, nreqid, refs, and the set ends of {"in", "out"} not nil
          closed,  \* the ends whose channel has been freed
          freed,   \* free(b) has been called
          holder,  \* b->lock
          trans,   \* trans[c]: kind, rid, next, served and resp (the rid of the response, or ELINK)
          calls,   \* calls[c]: calls c has made
          state,   \* "run" or "waiting"
          pc,      \* where a process is
          n,       \* n[q]: the value loaded for a cas
          t, p,    \* the locals t and p of mountproc()
          tresp,   \* the local tresp: rid, ok, and whether the server wrote it
          srv,     \* the server: at, and the rid and kind of the request it serves
          gone,    \* the server has closed its ends
          ub       \* what the code does from here on is not modelled

vars == <<b, closed, freed, holder, trans, calls, state, pc, n, t, p, tresp, srv, gone, ub>>

NoTrans == [kind |-> "other", rid |-> 0, next |-> None, served |-> FALSE, resp |-> 0]

Idle == [at |-> "idle", rid |-> 0, kind |-> "other"]

(* mountproc() has started.  Nothing has been stored in tresp: it is what    *)
(* the stack page held, perhaps a response of an earlier mount.            *)
Init == /\ b = [waiting |-> None, nreqid |-> 0, refs |-> 2, ends |-> {"in", "out"}]
        /\ closed = {} /\ freed = FALSE /\ holder = None
        /\ trans = [c \in Clients |-> NoTrans]
        /\ calls = [c \in Clients |-> 0]
        /\ state = [q \in Procs |-> "run"]
        /\ pc = [q \in Procs |-> IF q = mnt THEN "loop" ELSE "idle"]
        /\ n = [q \in Procs |-> None]
        /\ t = None /\ p = None
        /\ tresp \in [rid : Stale, ok : BOOLEAN, wrote : {FALSE}]
        /\ srv = Idle
        /\ gone = FALSE /\ ub = FALSE

At(q, label) == pc[q] = label /\ state[q] = "run" /\ ~ub
Goto(q, label) == pc' = [pc EXCEPT ![q] = label]

(* The transaction of c exists from its push to the return of the call. *)
InCall(c) == pc[c] \in {"lock", "write", "head", "data", "unlock", "failed", "check", "sleep", "asleep"}

(* What most steps leave alone. *)
Rest == <<closed, freed, srv, gone, t, p, tresp, ub>>

(* The accesses that must not happen: to a transaction of a call that is    *)
(* over, to the freed binding, to a channel freed by another.              *)
Undefined(q) ==
  /\ state[q] = "run" /\ ~ub
  /\ \/ q = mnt /\ t # None /\ ~InCall(t)
     \/ q = mnt /\ pc[q] = "remove" /\ p # None /\ ~InCall(p)
     \/ freed /\ pc[q] \in {"in?", "nil in", "out?", "nil out", "last"}
     \/ pc[q] = "close in" /\ "in" \in closed
     \/ pc[q] = "close out" /\ "out" \in closed
  /\ ub' = TRUE
  /\ UNCHANGED <<b, closed, freed, holder, trans, calls, state, pc, n, t, p, tresp, srv, gone>>
-----------------------------------------------------------------------------
(* makereq() and filewrite() *)

Call(c, k) == /\ At(c, "idle") /\ calls[c] < MaxCalls
              /\ calls' = [calls EXCEPT ![c] = @ + 1]
              /\ trans' = [trans EXCEPT ![c] = [NoTrans EXCEPT !.kind = k]]
              /\ Goto(c, "test")
              /\ UNCHANGED <<b, state, n, holder, Rest>>

(* b->out is nil: return without a request. *)
TestOut(c) == /\ At(c, "test")
              /\ Goto(c, IF "out" \in b.ends THEN "number" ELSE "fail")
              /\ UNCHANGED <<b, trans, calls, state, n, holder, Rest>>

Number(c) == /\ At(c, "number")
             /\ b' = [b EXCEPT !.nreqid = @ + 1]
             /\ trans' = [trans EXCEPT ![c].rid = b.nreqid + 1]
             /\ Goto(c, "load")
             /\ UNCHANGED <<calls, state, n, holder, Rest>>

LoadWaiting(c) == /\ At(c, "load")
                  /\ n' = [n EXCEPT ![c] = b.waiting]
                  /\ trans' = [trans EXCEPT ![c].next = b.waiting]
                  /\ Goto(c, "push")
                  /\ UNCHANGED <<b, calls, state, holder, Rest>>

(* Mutant: the push is a plain store. *)
PushBlind(c) == /\ At(c, "push")
                /\ b' = [b EXCEPT !.waiting = c]
                /\ n' = [n EXCEPT ![c] = None]
                /\ Goto(c, "lock")
                /\ UNCHANGED <<trans, calls, state, holder, Rest>>

Push(c) == /\ At(c, "push")
           /\ b.waiting = n[c]
           /\ b' = [b EXCEPT !.waiting = c]
           /\ n' = [n EXCEPT ![c] = None]
           /\ Goto(c, "lock")
           /\ UNCHANGED <<trans, calls, state, holder, Rest>>

(* Mutant: a push that failed is tried again under a new number. *)
PushRenumbers(c) == /\ At(c, "push")
                    /\ n' = [n EXCEPT ![c] = None]
                    /\ Goto(c, "number")
                    /\ UNCHANGED <<b, trans, calls, state, holder, Rest>>

(* The cas fails when the list has changed, or after a preemption. *)
PushFails(c) == /\ At(c, "push")
                /\ n' = [n EXCEPT ![c] = None]
                /\ Goto(c, "load")
                /\ UNCHANGED <<b, trans, calls, state, holder, Rest>>

(* Mutant: the request is written without the lock. *)
LockOpen(c) == /\ At(c, "lock")
               /\ Goto(c, "write")
               /\ UNCHANGED <<b, holder, trans, calls, state, n, Rest>>

Lock(c) == /\ At(c, "lock") /\ holder = None
           /\ holder' = c
           /\ Goto(c, "write")
           /\ UNCHANGED <<b, trans, calls, state, n, Rest>>

(* pipewrite(b->out, ...): with b->out = nil it takes a data abort, and     *)
(* trap() ends the process, which keeps the lock.                          *)
Write(c) == /\ At(c, "write")
            /\ Goto(c, IF "out" \in b.ends THEN "head" ELSE "dead")
            /\ UNCHANGED <<b, trans, calls, state, n, holder, Rest>>

(* The server has closed its end: the write returns EOF, which is 0.  The   *)
(* transaction stays on the list.                                          *)
WriteFails(c) == /\ At(c, "head") /\ gone
                 /\ Goto(c, "failed")
                 /\ UNCHANGED <<b, trans, calls, state, n, holder, Rest>>

(* The test of the second write is < 0, and EOF passes it. *)
DataFails(c) == /\ At(c, "data") /\ gone
                /\ Goto(c, "unlock")
                /\ UNCHANGED <<b, trans, calls, state, n, holder, Rest>>

Unlock(c) == /\ At(c, "unlock") \/ At(c, "failed")
             /\ holder' = IF holder = c THEN None ELSE holder
             /\ Goto(c, IF pc[c] = "unlock" THEN "check" ELSE "fail")
             /\ UNCHANGED <<b, trans, calls, state, n, Rest>>

(* getresponse() *)
Check(c) == /\ At(c, "check")
            /\ Goto(c, IF trans[c].served THEN "asleep" ELSE "sleep")
            /\ UNCHANGED <<b, trans, calls, state, n, holder, Rest>>

(* procwait() *)
Sleep(c) == /\ At(c, "sleep")
            /\ state' = [state EXCEPT ![c] = "waiting"]
            /\ Goto(c, "asleep")
            /\ UNCHANGED <<b, trans, calls, n, holder, Rest>>

(* The call returns, with whatever the response holds. *)
Return(c) == /\ At(c, "asleep") \/ At(c, "fail")
             /\ trans' = [trans EXCEPT ![c] = NoTrans]
             /\ Goto(c, "idle")
             /\ UNCHANGED <<b, calls, state, n, holder, Rest>>
-----------------------------------------------------------------------------
(* The server: fsmountloop() of lib/libfssrv, which handles one request     *)
(* after the other, and may end at any time.                               *)

(* The server's read of a request meets the write of one. *)
ReadRequest(c) ==
  /\ At(c, "head") /\ srv.at = "idle" /\ ~gone
  /\ LET more == trans[c].kind = "write" IN
     /\ srv' = [at |-> IF more THEN "more" ELSE "work", rid |-> trans[c].rid, kind |-> trans[c].kind]
     /\ Goto(c, IF more THEN "data" ELSE "unlock")
  /\ UNCHANGED <<b, closed, freed, holder, trans, calls, state, n, t, p, tresp, gone, ub>>

(* The data of a write request is read from whoever writes next. *)
ReadData(c) ==
  /\ At(c, "data") \/ At(c, "head")
  /\ srv.at = "more" /\ ~gone
  /\ srv' = [srv EXCEPT !.at = "work"]
  /\ Goto(c, IF pc[c] = "head" /\ trans[c].kind = "write" THEN "data" ELSE "unlock")
  /\ UNCHANGED <<b, closed, freed, holder, trans, calls, state, n, t, p, tresp, gone, ub>>

(* mountproc() and the server meet at the other pipe. *)
Respond(ok) ==
  /\ At(mnt, "reading") /\ srv.at = "work" /\ ~gone
  /\ tresp' = [rid |-> srv.rid, ok |-> ok, wrote |-> TRUE]
  /\ srv' = IF ok /\ srv.kind = "read" THEN [srv EXCEPT !.at = "data"] ELSE Idle
  /\ Goto(mnt, "find")
  /\ UNCHANGED <<b, closed, freed, holder, trans, calls, state, n, t, p, gone, ub>>

RespondData == /\ At(mnt, "data") /\ srv.at = "data" /\ ~gone
               /\ srv' = Idle
               /\ Goto(mnt, "serve")
               /\ UNCHANGED <<b, closed, freed, holder, trans, calls, state, n, t, p, tresp, gone, ub>>

Quit == /\ ~gone /\ ~ub
        /\ gone' = TRUE
        /\ srv' = Idle
        /\ UNCHANGED <<b, closed, freed, holder, trans, calls, state, pc, n, t, p, tresp, ub>>
-----------------------------------------------------------------------------
(* mountproc() *)

MntUnchanged == <<closed, freed, holder, calls, srv, gone, ub>>

Loop == /\ At(mnt, "loop")
        /\ Goto(mnt, IF b.refs > 1 THEN "read" ELSE "tear")
        /\ UNCHANGED <<b, trans, state, n, t, p, tresp, MntUnchanged>>

(* piperead(b->in, ...); the load through a nil channel ends the process. *)
Read == /\ At(mnt, "read")
        /\ Goto(mnt, IF "in" \in b.ends THEN "reading" ELSE "dead")
        /\ UNCHANGED <<b, trans, state, n, t, p, tresp, MntUnchanged>>

(* The read ends because an end was closed.  EOF is 0, which passes the     *)
(* test < 0, and what tresp held before is searched for.                   *)
ReadFails == /\ At(mnt, "reading") /\ (gone \/ "in" \in closed)
             /\ Goto(mnt, "find")
             /\ UNCHANGED <<b, trans, state, n, t, p, tresp, MntUnchanged>>

Find == /\ At(mnt, "find")
        /\ t' = b.waiting /\ p' = None
        /\ Goto(mnt, "walk")
        /\ UNCHANGED <<b, trans, state, n, tresp, MntUnchanged>>

Walk == /\ At(mnt, "walk")
        /\ t # None /\ InCall(t)
        /\ trans[t].rid # tresp.rid
        /\ p' = t /\ t' = trans[t].next
        /\ UNCHANGED <<b, trans, state, pc, n, tresp, MntUnchanged>>

(* "response %i has no waiter": leave the loop. *)
NoWaiter == /\ At(mnt, "walk") /\ t = None
            /\ p' = None
            /\ Goto(mnt, "tear")
            /\ UNCHANGED <<b, trans, state, n, t, tresp, MntUnchanged>>

(* Mutant: the first transaction is taken, whatever its number. *)
FoundAny == /\ At(mnt, "walk")
            /\ t # None /\ InCall(t)
            /\ n' = [n EXCEPT ![mnt] = trans[t].next]
            /\ Goto(mnt, "remove")
            /\ UNCHANGED <<b, trans, state, t, p, tresp, MntUnchanged>>

(* The argument t->next of the cas. *)
Found == /\ At(mnt, "walk")
         /\ t # None /\ InCall(t)
         /\ trans[t].rid = tresp.rid
         /\ n' = [n EXCEPT ![mnt] = trans[t].next]
         /\ Goto(mnt, "remove")
         /\ UNCHANGED <<b, trans, state, t, p, tresp, MntUnchanged>>

Remove == /\ At(mnt, "remove") /\ InCall(t)
          /\ \/ p = None /\ b.waiting = t
                /\ b' = [b EXCEPT !.waiting = n[mnt]] /\ UNCHANGED trans
             \/ p # None /\ InCall(p) /\ trans[p].next = t
                /\ trans' = [trans EXCEPT ![p].next = n[mnt]] /\ UNCHANGED b
          /\ n' = [n EXCEPT ![mnt] = None]
          /\ p' = None
          /\ Goto(mnt, "copy")
          /\ UNCHANGED <<state, t, tresp, MntUnchanged>>

RemoveFails == /\ At(mnt, "remove")
               /\ n' = [n EXCEPT ![mnt] = None]
               /\ t' = None /\ p' = None
               /\ Goto(mnt, "find")
               /\ UNCHANGED <<b, trans, state, tresp, MntUnchanged>>

(* memmove(t->resp, &tresp, t->len) *)
Copy == /\ At(mnt, "copy") /\ InCall(t)
        /\ trans' = [trans EXCEPT ![t].resp = tresp.rid]
        /\ Goto(mnt, IF trans[t].kind = "read" /\ tresp.ok THEN "data" ELSE "serve")
        /\ UNCHANGED <<b, state, n, t, p, tresp, MntUnchanged>>

(* The length is unsigned, so a failed read of the data counts as data. *)
DataMissing == /\ At(mnt, "data") /\ (gone \/ "in" \in closed)
               /\ Goto(mnt, "serve")
               /\ UNCHANGED <<b, trans, state, n, t, p, tresp, MntUnchanged>>

Served == /\ At(mnt, "serve") /\ InCall(t)
          /\ trans' = [trans EXCEPT ![t].served = TRUE]
          /\ Goto(mnt, "ready")
          /\ UNCHANGED <<b, state, n, t, p, tresp, MntUnchanged>>

(* c is asleep for another reason than the response that mountproc() has:  *)
(* in lock(&b->lock), in a write to the pipe, which both return without a  *)
(* test, or in getresponse() of a later call.                              *)
Elsewhere(c) == \/ pc[c] \in {"lock", "head", "data"}
                \/ state[c] = "waiting" /\ trans[c].resp = 0

(* The store to t->served lets the client return before the procready(),   *)
(* which reaches it in its next call; and file.c:128 wakes every client    *)
(* on the list, those that wait for the lock, which mountproc() has, too.  *)
WakesAstray == /\ At(mnt, "ready") \/ (At(mnt, "wake") /\ InCall(t))
               /\ Elsewhere(t)
               /\ ub' = TRUE
               /\ UNCHANGED <<b, closed, freed, holder, trans, calls, state, pc, n, t, p, tresp, srv, gone>>

(* procready(t->proc), which does nothing to a client that is awake.       *)
Ready == /\ At(mnt, "ready")
         /\ state[t] = "run" \/ ~Elsewhere(t)
         /\ state' = [state EXCEPT ![t] = "run"]
         /\ t' = None
         /\ Goto(mnt, "loop")
         /\ UNCHANGED <<b, trans, n, p, tresp, MntUnchanged>>
-----------------------------------------------------------------------------
(* The end of mountproc(), and bindingfree(). *)

(* lock(&b->lock) *)
TearDown == /\ At(mnt, "tear") /\ holder = None
            /\ holder' = mnt
            /\ Goto(mnt, "in?")
            /\ UNCHANGED <<b, closed, freed, calls, srv, gone, trans, state, n, t, p, tresp, ub>>

(* The fid of the root is the last to go, when no file of the mount is in   *)
(* use: bindingfidfree() calls bindingfree() after the clunk.              *)
Drop(c) == /\ At(c, "idle")
           /\ \A d \in Clients : pc[d] = "idle" /\ calls[d] = MaxCalls
           /\ Goto(c, "dec")
           /\ UNCHANGED <<b, trans, calls, state, n, holder, Rest>>

(* bindingfree() returns when another reference is left. *)
DecRefs(q) == /\ At(q, "dec")
              /\ b' = [b EXCEPT !.refs = @ - 1]
              /\ Goto(q, IF b.refs > 2 THEN "end" ELSE "in?")
              /\ UNCHANGED <<trans, calls, state, n, holder, Rest>>

(* After the two ends: the waiting list for mountproc(), which does this    *)
(* once with the lock and once in bindingfree(), where refs decides.       *)
AfterEnds(q) == IF holder = q THEN "list" ELSE "last"

(* if (b->in != nil) *)
TestEnd(q, e, test, close, skip) ==
  /\ At(q, test) /\ ~freed
  /\ Goto(q, IF e \in b.ends THEN close ELSE skip)
  /\ UNCHANGED <<b, trans, calls, state, n, holder, Rest>>

(* chanfree(): the other side of the pipe sees the end closed. *)
CloseEnd(q, e, close, clear) ==
  /\ At(q, close) /\ e \notin closed
  /\ closed' = closed \cup {e}
  /\ Goto(q, clear)
  /\ UNCHANGED <<b, trans, calls, state, n, holder, freed, srv, gone, t, p, tresp, ub>>

(* b->in = nil *)
ClearEnd(q, e, clear, then) ==
  /\ At(q, clear) /\ ~freed
  /\ b' = [b EXCEPT !.ends = @ \ {e}]
  /\ Goto(q, then)
  /\ UNCHANGED <<trans, calls, state, n, holder, Rest>>

FreeEnds(q) == \/ TestEnd(q, "in", "in?", "close in", "out?")
               \/ CloseEnd(q, "in", "close in", "nil in")
               \/ ClearEnd(q, "in", "nil in", "out?")
               \/ TestEnd(q, "out", "out?", "close out", AfterEnds(q))
               \/ CloseEnd(q, "out", "close out", "nil out")
               \/ ClearEnd(q, "out", "nil out", AfterEnds(q))

(* if (b->refs == 0) free(b) *)
FreeBinding(q) == /\ At(q, "last") /\ ~freed
                  /\ freed' = (b.refs = 0)
                  /\ Goto(q, "end")
                  /\ UNCHANGED <<b, closed, trans, calls, state, n, holder, srv, gone, t, p, tresp, ub>>

LoadList == /\ At(mnt, "list")
            /\ t' = b.waiting
            /\ Goto(mnt, IF b.waiting = None THEN "unlock" ELSE "fail")
            /\ UNCHANGED <<b, trans, state, n, p, tresp, MntUnchanged>>

(* p = t->next; t->resp->head.ret = ELINK *)
FailWaiter == /\ At(mnt, "fail") /\ InCall(t)
              /\ p' = trans[t].next
              /\ trans' = [trans EXCEPT ![t].resp = ELINK]
              /\ Goto(mnt, "wake")
              /\ UNCHANGED <<b, state, n, t, tresp, MntUnchanged>>

(* procready(t->proc), and on to the next. *)
WakeWaiter == /\ At(mnt, "wake") /\ InCall(t)
              /\ state[t] = "run" \/ ~Elsewhere(t)
              /\ state' = [state EXCEPT ![t] = "run"]
              /\ t' = p /\ p' = None
              /\ Goto(mnt, IF p = None THEN "unlock" ELSE "fail")
              /\ UNCHANGED <<b, trans, n, tresp, MntUnchanged>>

MntUnlock == /\ At(mnt, "unlock")
             /\ holder' = None
             /\ Goto(mnt, "dec")
             /\ UNCHANGED <<b, closed, freed, calls, srv, gone, trans, state, n, t, p, tresp, ub>>
-----------------------------------------------------------------------------
Asks(c) == \/ \E k \in Kinds : Call(c, k)
           \/ TestOut(c) \/ Number(c) \/ LoadWaiting(c) \/ Push(c) \/ PushFails(c)
           \/ Lock(c) \/ Write(c) \/ WriteFails(c) \/ DataFails(c) \/ Unlock(c)
           \/ Check(c) \/ Sleep(c) \/ Return(c) \/ Drop(c)

Server == \/ \E c \in Clients : ReadRequest(c) \/ ReadData(c)
          \/ \E ok \in BOOLEAN : Respond(ok)
          \/ RespondData \/ Quit

Mounts == \/ Loop \/ Read \/ ReadFails \/ Find \/ Walk \/ NoWaiter \/ Found \/ Remove \/ RemoveFails
          \/ Copy \/ DataMissing \/ Served \/ Ready \/ WakesAstray
          \/ TearDown \/ LoadList \/ FailWaiter \/ WakeWaiter \/ MntUnlock

Frees(q) == DecRefs(q) \/ FreeEnds(q) \/ FreeBinding(q)

Next == \/ \E c \in Clients : Asks(c)
        \/ Server \/ Mounts
        \/ \E q \in Procs : Frees(q) \/ Undefined(q)

Spec == Init /\ [][Next]_vars
-----------------------------------------------------------------------------
(* Type invariant of the binding, the transactions and the locals. *)
TypeOK == /\ b \in [waiting : Clients \cup {None}, nreqid : 0..MaxRid, refs : 0..2,
                    ends : SUBSET {"in", "out"}]
          /\ closed \subseteq {"in", "out"}
          /\ holder \in Procs \cup {None}
          /\ trans \in [Clients -> [kind : {"read", "write", "other"}, rid : 0..MaxRid,
                                    next : Clients \cup {None}, served : BOOLEAN, resp : 0..ELINK]]
          /\ state \in [Procs -> {"run", "waiting"}]
          /\ {t, p} \cup {n[q] : q \in Procs} \subseteq Clients \cup {None}
          /\ tresp.rid \in 0..MaxRid /\ srv.rid \in 0..MaxRid

(* The transactions b->waiting leads to: those of every set that has the    *)
(* first and, with each, the next.                                         *)
Closed(X) == /\ b.waiting \in X \cup {None}
             /\ \A c \in X : trans[c].next \in X \cup {None}
Chain == {c \in Clients : \A X \in SUBSET Clients : Closed(X) => c \in X}

(* While the server lives, every request that has not been answered is      *)
(* found by mountproc(): it is on the list, or has just been taken off it   *)
(* to be answered.  This and the next hold until the model ends (ub).      *)
NoneForgotten ==
  ~gone => \A c \in Clients : InCall(c) /\ trans[c].resp = 0 =>
    c \in Chain \/ (t = c /\ pc[mnt] = "copy")

(* The data of a write request reaches the server behind its own head.     *)
DataFollowsHead ==
  srv.at = "more" => \A c \in Clients : pc[c] \in {"head", "data"} => trans[c].rid = srv.rid

Phase(c) == IF pc[c] \in {"idle", "dec", "in?", "close in", "nil in", "out?", "close out", "nil out",
                          "last", "end"} THEN "idle"
            ELSE IF pc[c] \in {"failed", "fail"} \/ trans[c].resp = ELINK THEN "failed"
            ELSE IF trans[c].resp # 0 /\ tresp.wrote THEN "answered"
            ELSE IF pc[c] \in {"data", "unlock", "check", "sleep", "asleep"} THEN "taken" ELSE "asked"

E == INSTANCE Exchange WITH phase <- [c \in Clients |-> Phase(c)],
                            heard <- tresp.wrote, open <- ~gone

(* makereq(), mountproc() and a server loop implement Exchange, until a     *)
(* client is woken astray or an access is undefined.                       *)
ImplementsExchange == E!ESpec
=============================================================================
