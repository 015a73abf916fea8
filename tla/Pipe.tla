-------------------------------- MODULE Pipe --------------------------------
(***************************************************************************)
(* kern/pipe.c, one action per access to the pipe or to another process's  *)
(* transaction.  A transaction lives on the kernel stack of the process    *)
(* that waits in pipedocopy(), so it is named by that process.  Processes  *)
(* are preempted between any two actions (see Lock); the cas of pipe.c may *)
(* fail without cause.  An access to a transaction whose owner has left    *)
(* pipedocopy(), or to a pipe that has been freed, has no defined outcome: *)
(* it sets ub and the system stops there.                                  *)
(***************************************************************************)
EXTENDS Naturals, Sequences, FiniteSets, FiniteSetsExt

CONSTANTS Readers, Writers,  \* processes that read c0, processes that write c1
          Loads,             \* the loads: who uses the pipe, and how much
          MaxLen,            \* lengths asked for are 1..MaxLen at most
          MayClose,          \* the processes that close the end they use
          None

Procs == Readers \cup Writers

ASSUME PipeAssumption == /\ None \notin Procs
                         /\ Readers \cap Writers = {}
                         /\ MaxLen \in Nat
                         /\ MayClose \subseteq Procs

(* A load: the processes that use the pipe, the greatest length they ask   *)
(* for and the bytes each moves at most (a bound).                         *)
ASSUME LoadsAssumption ==
  Loads \subseteq [procs : SUBSET Procs, len : 0..MaxLen, bytes : Nat]

VARIABLES load,    \* one of Loads, for the whole life of the pipe
          trans,   \* p->trans: the newest transaction, or None
          ends,    \* the ends that are not nil: a subset of {"c0", "c1"}
          freed,   \* free(p) has been called
          next,    \* next[q]: the field next of q's transaction
          len,     \* len[q]: the field n of q's transaction
          buf,     \* buf[q]: what has been copied to or from q's buffer
          state,   \* state[q]: "run" or "waiting"
          pc,      \* where q is in pipedocopy() or pipeclose()
          n,       \* n[q]: the argument n
          head, t, tp, \* the locals h, t and tp
          r,       \* the local r
          got,     \* got[q]: all that reads of q have returned
          pos,     \* pos[q]: how much writes of q have returned
          ub       \* an undefined access has been made

pipe == <<trans, ends, freed>>
nodes == <<next, len, buf>>
locals == <<n, head, t, tp, r>>
result == <<got, pos>>
vars == <<load, pipe, nodes, state, pc, locals, result, ub>>

End(q) == IF q \in Readers THEN "c0" ELSE "c1"
SameDirection(q, m) == (q \in Writers) = (m \in Writers)
Live(q) == pc[q] \in {"sleep", "wake"}

Init == /\ load \in Loads
        /\ trans = None /\ ends = {"c0", "c1"} /\ freed = FALSE
        /\ next = [q \in Procs |-> None]
        /\ len = [q \in Procs |-> 0]
        /\ buf = [q \in Procs |-> <<>>]
        /\ state = [q \in Procs |-> "run"]
        /\ pc = [q \in Procs |-> "idle"]
        /\ n = [q \in Procs |-> 0]
        /\ head = [q \in Procs |-> None]
        /\ t = head /\ tp = head
        /\ r = n
        /\ got = [q \in Readers |-> <<>>]
        /\ pos = [q \in Writers |-> 0]
        /\ ub = FALSE

At(q, label) == pc[q] = label /\ state[q] = "run" /\ ~ub
Goto(q, label) == pc' = [pc EXCEPT ![q] = label]

(* An access of q that the program may not make any more. *)
Undefined(q) ==
  /\ state[q] = "run" /\ ~ub
  /\ \/ freed /\ pc[q] \in {"head", "check", "push", "take", "cnil", "cload", "cclear", "cfree"}
     \/ t[q] # None /\ ~Live(t[q]) /\ pc[q] \in {"walk", "check", "copy", "answer", "ready",
                                                   "ceof", "cready", "cnext"}
     \/ tp[q] # None /\ ~Live(tp[q]) /\ pc[q] = "take"
  /\ ub' = TRUE
  /\ UNCHANGED <<pipe, nodes, state, pc, locals, result>>

-----------------------------------------------------------------------------
(* pipedocopy() *)

(* piperead() or pipewrite(); a writer sends its stream from where its     *)
(* earlier calls left off.                                                 *)
Done(q) == IF q \in Writers THEN pos[q] ELSE Len(got[q])

Begin(q, k) == /\ At(q, "idle")
               /\ Done(q) + k <= load.bytes
               /\ n' = [n EXCEPT ![q] = k]
               /\ Goto(q, "head")
               /\ UNCHANGED <<pipe, nodes, state, head, t, tp, r, result, ub>>

LoadHead(q) == /\ At(q, "head") /\ ~freed
               /\ head' = [head EXCEPT ![q] = trans]
               /\ t' = [t EXCEPT ![q] = trans]
               /\ tp' = [tp EXCEPT ![q] = None]
               /\ Goto(q, "walk")
               /\ UNCHANGED <<pipe, nodes, state, n, r, result, ub>>

Walk(q) == /\ At(q, "walk")
           /\ t[q] # None /\ Live(t[q])
           /\ next[t[q]] # None
           /\ tp' = [tp EXCEPT ![q] = t[q]]
           /\ t' = [t EXCEPT ![q] = next[t[q]]]
           /\ UNCHANGED <<pipe, nodes, state, pc, n, head, r, result, ub>>

WalkEnds(q) == /\ At(q, "walk")
               /\ t[q] # None => Live(t[q]) /\ next[t[q]] = None
               /\ Goto(q, "check")
               /\ UNCHANGED <<pipe, nodes, state, locals, result, ub>>

(* The locals are dead when a call is over. *)
Forget(q) == /\ n' = [n EXCEPT ![q] = 0]
             /\ head' = [head EXCEPT ![q] = None]
             /\ t' = [t EXCEPT ![q] = None]
             /\ tp' = [tp EXCEPT ![q] = None]
             /\ r' = [r EXCEPT ![q] = 0]

ReturnEOF(q) == /\ At(q, "check") /\ ~freed
                /\ ends # {"c0", "c1"}
                /\ Goto(q, "idle")
                /\ Forget(q)
                /\ UNCHANGED <<pipe, nodes, state, result, ub>>

Check(q) == /\ At(q, "check") /\ ~freed
            /\ ends = {"c0", "c1"}
            /\ t[q] # None => Live(t[q])
            /\ Goto(q, IF t[q] # None /\ ~SameDirection(q, t[q]) THEN "take" ELSE "push")
            /\ UNCHANGED <<pipe, nodes, state, locals, result, ub>>

(* Mutant: the new transaction is linked behind the oldest one as well. *)
PushBehind(q) == /\ At(q, "push") /\ ~freed
                 /\ trans = head[q]
                 /\ trans' = q
                 /\ next' = [m \in Procs |-> IF m = q THEN head[q]
                                             ELSE IF m = t[q] THEN q ELSE next[m]]
                 /\ len' = [len EXCEPT ![q] = n[q]]
                 /\ buf' = [buf EXCEPT ![q] = <<>>]
                 /\ Goto(q, "sleep")
                 /\ UNCHANGED <<ends, freed, state, locals, result, ub>>

(* Fill in nt, cas(&p->trans, h, &nt). *)
Push(q) == /\ At(q, "push") /\ ~freed
           /\ trans = head[q]
           /\ trans' = q
           /\ next' = [next EXCEPT ![q] = head[q]]
           /\ len' = [len EXCEPT ![q] = n[q]]
           /\ buf' = [buf EXCEPT ![q] = <<>>]
           /\ Goto(q, "sleep")
           /\ UNCHANGED <<ends, freed, state, locals, result, ub>>

PushFails(q) == /\ At(q, "push") /\ ~freed
                /\ Goto(q, "head")
                /\ UNCHANGED <<pipe, nodes, state, locals, result, ub>>

(* procwait() *)
Sleep(q) == /\ At(q, "sleep")
            /\ state' = [state EXCEPT ![q] = "waiting"]
            /\ Goto(q, "wake")
            /\ UNCHANGED <<pipe, nodes, locals, result, ub>>

(* The call of q returns k, with the bytes b in the buffer of a reader;    *)
(* what was in the buffer behind them is returned too when k is larger.    *)
Filled(b, k) == [i \in 1..k |-> IF i <= Len(b) THEN b[i] ELSE <<None, 0>>]

Return(q, k, b) ==
  /\ Goto(q, "idle")
  /\ Forget(q)
  /\ \/ q \in Readers /\ got' = [got EXCEPT ![q] = @ \o Filled(b, k)] /\ UNCHANGED pos
     \/ q \in Writers /\ pos' = [pos EXCEPT ![q] = @ + k] /\ UNCHANGED got

(* procwait() returns; return nt.n. *)
Wake(q) == /\ At(q, "wake")
           /\ Return(q, len[q], buf[q])
           /\ next' = [next EXCEPT ![q] = None]
           /\ len' = [len EXCEPT ![q] = 0]
           /\ buf' = [buf EXCEPT ![q] = <<>>]
           /\ UNCHANGED <<pipe, state, ub>>

(* Take the oldest transaction off the list: p->trans = nil or tp->next =  *)
(* nil, without looking again.                                             *)
Take(q) == /\ At(q, "take") /\ ~freed
           /\ \/ tp[q] = None /\ trans' = None /\ UNCHANGED next
              \/ tp[q] # None /\ Live(tp[q]) /\ next' = [next EXCEPT ![tp[q]] = None] /\ UNCHANGED trans
           /\ Goto(q, "copy")
           /\ UNCHANGED <<ends, freed, len, buf, state, locals, result, ub>>

(* Mutant: the length the other side asked for is not looked at. *)
CopyAll(q) == /\ At(q, "copy") /\ Live(t[q])
              /\ r' = [r EXCEPT ![q] = n[q]]
              /\ Goto(q, "answer")
              /\ UNCHANGED <<pipe, nodes, state, n, head, t, tp, result, ub>>

(* r = n > t->n ? t->n : n *)
Copy(q) == /\ At(q, "copy") /\ Live(t[q])
           /\ r' = [r EXCEPT ![q] = Min({n[q], len[t[q]]})]
           /\ Goto(q, "answer")
           /\ UNCHANGED <<pipe, nodes, state, n, head, t, tp, result, ub>>

Bytes(w, k) == [i \in 1..k |-> <<w, pos[w] + i>>]

(* Mutant: t->n = r is missing. *)
AnswerKeepsLen(q) == /\ At(q, "answer") /\ Live(t[q])
                     /\ LET w == IF q \in Writers THEN q ELSE t[q]
                        IN  buf' = [buf EXCEPT ![t[q]] = Bytes(w, r[q])]
                     /\ Goto(q, "ready")
                     /\ UNCHANGED <<pipe, next, len, state, locals, result, ub>>

(* memmove() one way or the other, and t->n = r. *)
Answer(q) == /\ At(q, "answer") /\ Live(t[q])
             /\ LET w == IF q \in Writers THEN q ELSE t[q]
                IN  buf' = [buf EXCEPT ![t[q]] = Bytes(w, r[q])]
             /\ len' = [len EXCEPT ![t[q]] = r[q]]
             /\ Goto(q, "ready")
             /\ UNCHANGED <<pipe, next, state, locals, result, ub>>

(* procready(t->proc); return r. *)
Ready(q) == /\ At(q, "ready") /\ Live(t[q])
            /\ state' = [state EXCEPT ![t[q]] = "run"]
            /\ Return(q, r[q], IF q \in Readers THEN buf[t[q]] ELSE <<>>)
            /\ UNCHANGED <<pipe, nodes, ub>>

-----------------------------------------------------------------------------
(* pipeclose(), called when the last reference to an end is dropped. *)

Close(q) == /\ At(q, "idle")
            /\ q \in MayClose
            /\ End(q) \in ends
            /\ Goto(q, "cnil")
            /\ UNCHANGED <<pipe, nodes, state, locals, result, ub>>

(* p->c0 = nil or p->c1 = nil *)
NilEnd(q) == /\ At(q, "cnil") /\ ~freed
             /\ ends' = ends \ {End(q)}
             /\ Goto(q, "cload")
             /\ UNCHANGED <<trans, freed, nodes, state, locals, result, ub>>

(* tp = p->trans *)
LoadAll(q) == /\ At(q, "cload") /\ ~freed
              /\ t' = [t EXCEPT ![q] = trans]
              /\ Goto(q, "cclear")
              /\ UNCHANGED <<pipe, nodes, state, n, head, tp, r, result, ub>>

(* p->trans = nil *)
ClearAll(q) == /\ At(q, "cclear") /\ ~freed
               /\ trans' = None
               /\ Goto(q, IF t[q] = None THEN "cfree" ELSE "ceof")
               /\ UNCHANGED <<ends, freed, nodes, state, locals, result, ub>>

(* Mutant: the end of file is reported as -1. *)
SetEOFNegative(q) == /\ At(q, "ceof") /\ Live(t[q])
                     /\ len' = [len EXCEPT ![t[q]] = 0 - 1]
                     /\ Goto(q, "cready")
                     /\ UNCHANGED <<pipe, next, buf, state, locals, result, ub>>

(* t->n = EOF *)
SetEOF(q) == /\ At(q, "ceof") /\ Live(t[q])
             /\ len' = [len EXCEPT ![t[q]] = 0]
             /\ Goto(q, "cready")
             /\ UNCHANGED <<pipe, next, buf, state, locals, result, ub>>

(* procready(t->proc) *)
WakeClosed(q) == /\ At(q, "cready") /\ Live(t[q])
                 /\ state' = [state EXCEPT ![t[q]] = "run"]
                 /\ Goto(q, "cnext")
                 /\ UNCHANGED <<pipe, nodes, locals, result, ub>>

(* t = t->next: the process just woken may have left already. *)
NextClosed(q) == /\ At(q, "cnext") /\ Live(t[q])
                 /\ t' = [t EXCEPT ![q] = next[t[q]]]
                 /\ Goto(q, IF next[t[q]] = None THEN "cfree" ELSE "ceof")
                 /\ UNCHANGED <<pipe, nodes, state, n, head, tp, r, result, ub>>

(* free(p) when both ends are nil. *)
FreePipe(q) == /\ At(q, "cfree") /\ ~freed
               /\ freed' = (ends = {})
               /\ Goto(q, "closed")
               /\ Forget(q)
               /\ UNCHANGED <<trans, ends, nodes, state, result, ub>>
-----------------------------------------------------------------------------
Copies(q) == \/ LoadHead(q) \/ Walk(q) \/ WalkEnds(q) \/ ReturnEOF(q) \/ Check(q)
             \/ Push(q) \/ PushFails(q) \/ Sleep(q) \/ Wake(q)
             \/ Take(q) \/ Copy(q) \/ Answer(q) \/ Ready(q)

Closes(q) == \/ NilEnd(q) \/ LoadAll(q) \/ ClearAll(q) \/ SetEOF(q)
             \/ WakeClosed(q) \/ NextClosed(q) \/ FreePipe(q)

Call(q) == (\E k \in 1..load.len : Begin(q, k)) \/ Close(q)

Next == /\ \E q \in load.procs : Call(q) \/ Copies(q) \/ Closes(q) \/ Undefined(q)
        /\ UNCHANGED load

Spec == Init /\ [][Next]_vars
-----------------------------------------------------------------------------
Copying == {"head", "walk", "check", "push", "sleep", "wake",
            "take", "copy", "answer", "ready"}
Closing == {"cnil", "cload", "cclear", "ceof", "cready", "cnext", "cfree", "closed"}

Links == [Procs -> Procs \cup {None}]
Data == Seq((Procs \cup {None}) \X Nat)

(* Type invariant of the pipe, the transactions and the locals. *)
TypeOK == /\ load \in Loads
          /\ trans \in Procs \cup {None} /\ ends \subseteq {"c0", "c1"}
          /\ freed \in BOOLEAN /\ ub \in BOOLEAN
          /\ {next, head, t, tp} \subseteq Links
          /\ {len, n, r} \subseteq [Procs -> 0..MaxLen]
          /\ buf \in [Procs -> Data]
          /\ state \in [Procs -> {"run", "waiting"}]
          /\ pc \in [Procs -> {"idle"} \cup Copying \cup Closing]
          /\ got \in [Readers -> Data] /\ pos \in [Writers -> Nat]

(* What a call of q has moved before it returns: nothing, or the bytes in  *)
(* the transaction of the one of the two that waits.                       *)
Moved(q) == IF pc[q] = "ready" THEN buf[t[q]]
            ELSE IF Live(q) THEN buf[q] ELSE <<>>

(* Every byte that a write has returned as written has been returned by a  *)
(* read, or sits in the buffer of a read that is about to return: data is  *)
(* neither dropped nor overwritten on the way through pipedocopy().        *)
NothingLost ==
  \A w \in Writers : \A i \in 1..pos[w] :
    \E q \in Readers : \E j \in DOMAIN (got[q] \o Moved(q)) :
      (got[q] \o Moved(q))[j] = <<w, i>>

(* Whatever the list of the pipe leads to is a call that still waits in    *)
(* pipedocopy(), unanswered, and goes the same way as the one before it: a *)
(* call never finds a transaction that was answered, closed or returned.   *)
ListIsCurrent ==
  /\ trans # None => Live(trans) /\ buf[trans] = <<>>
  /\ \A q \in Procs : next[q] # None =>
       Live(next[q]) /\ buf[next[q]] = <<>> /\ SameDirection(q, next[q])

(* The links never form a cycle, so every walk to the end of the list is   *)
(* over, however many processes share an end: stale transactions that a    *)
(* race leaves linked are never linked a second time.                      *)
WalkIsFinite == \A X \in (SUBSET Procs) \ {{}} : \E q \in X : next[q] \notin X

(* No two processes share an end of the pipe.                              *)
OneEach == \A q, m \in load.procs : SameDirection(q, m) => q = m

(* With at most one process on each side every byte a write returned as    *)
(* written is returned by a read, across calls of other lengths and        *)
(* closes, and the list of the pipe leads only to calls that still wait.   *)
NoByteLost == OneEach => NothingLost /\ ListIsCurrent

(* The state of Stream that a state of the pipe stands for. *)
Phase(q) == IF Moved(q) # <<>> THEN "done"
            ELSE IF pc[q] \in Copying THEN "pending" ELSE "idle"

S == INSTANCE Stream WITH phase <- [q \in Procs |-> Phase(q)],
                          want <- n,
                          moved <- [q \in Procs |-> Moved(q)],
                          closed <- {"c0", "c1"} \ ends

(* With at most one process on each side pipe.c implements Stream, closes  *)
(* and lost wake-ups included.                                             *)
StreamKept == /\ OneEach => S!SInit
              /\ [][OneEach => [S!SNext]_(S!svars)]_vars
=============================================================================
