------------------------------- MODULE Console -------------------------------
(***************************************************************************)
(* The serial console, am335x/com/com.c: one thread reads the requests of  *)
(* the kernel (comfsmountloop()), answers them and queues the reads; the   *)
(* other (readloop()) takes a read off the queue, waits for its characters *)
(* and answers it, head and data in two writes.  A spin lock guards queue  *)
(* and pipe; the heap of the library has none.  A closed pipe reads and    *)
(* writes as EOF, which is 0 and no error to either thread: the last       *)
(* request is then carried out again.                                      *)
(***************************************************************************)
EXTENDS Naturals, Sequences, SequencesExt

CONSTANTS MaxRequests, MaxLen, MaxTyped, MaxQueue
    \* bounds: requests of the kernel, their length (at most BUFMAX),
    \* characters that arrive, and reads that wait
ConsoleAssumption == {MaxRequests, MaxLen, MaxTyped, MaxQueue} \subseteq Nat

VARIABLES readrequests, lock, \* the queue, and who holds the lock
          pc,      \* where each thread is
          req,     \* the request that "main" carries out: [rid, type, len]
          taken,   \* the read that "reader" is at: [rid, len]
          data,    \* the characters it has, each known by its place in the input
          typed,   \* characters read from the uart
          asked,   \* the requests of the kernel
          unheard, \* reads dropped for want of memory
          out,     \* what the kernel has read: heads and data
          link     \* the pipes are open
vars == <<readrequests, lock, pc, req, taken, data, typed, asked, unheard, out, link>>
queue == <<readrequests, lock>>
input == <<taken, data, typed>>

Threads == {"main", "reader"}
Garbage(type) == [rid |-> 0, type |-> type, len |-> 0]
Types == {"read", "other"}

(* req is allocated and not cleared. *)
Init == /\ readrequests = <<>> /\ lock = "free" /\ pc = [main |-> "request", reader |-> "idle"]
        /\ \E type \in Types : req = Garbage(type)
        /\ taken = [rid |-> 0, len |-> 0] /\ data = <<>> /\ typed = 0
        /\ asked = <<>> /\ unheard = {} /\ out = <<>> /\ link = TRUE

At(t, label) == pc[t] = label
Goto(t, label) == pc' = [pc EXCEPT ![t] = label]

(* getlock(): one cas of its loop that succeeds; freelock() *)
Lock(t, from, to) == /\ At(t, from) /\ lock = "free"
                     /\ lock' = t /\ Goto(t, to)
                     /\ UNCHANGED <<readrequests, req, input, asked, unheard, out, link>>
Unlock(t, from, to) == /\ At(t, from)
                       /\ lock' = "free" /\ Goto(t, to)
                       /\ UNCHANGED <<readrequests, req, input, asked, unheard, out, link>>

-----------------------------------------------------------------------------
(* The dispatch of comfsmountloop(); a write is followed by its data and   *)
(* printed, and is answered like a stat, an open and a close.              *)
Dispatch(type) == Goto("main", IF type = "read" THEN "add" ELSE "respond")
Request(type, len) ==
    /\ At("main", "request") /\ link /\ Len(asked) < MaxRequests
    /\ req' = [rid |-> Len(asked) + 1, type |-> type, len |-> len]
    /\ asked' = Append(asked, req') /\ Dispatch(type)
    /\ UNCHANGED <<queue, input, unheard, out, link>>
RequestEOF == /\ At("main", "request") /\ ~link
              /\ Dispatch(req.type)
              /\ UNCHANGED <<queue, req, input, asked, unheard, out, link>>

(* addreadreq(): malloc() from its first access to the heap to its last,   *)
(* and the request is appended.                                            *)
Inner(t, from, to) == /\ At(t, from) /\ Goto(t, to)
                      /\ UNCHANGED <<queue, req, input, asked, unheard, out, link>>
Malloc == Inner("main", "add", "malloc")
Malloced == Inner("main", "malloc", "made")
NoMemory == /\ At("main", "malloc")
            /\ unheard' = unheard \cup {req.rid} /\ Goto("main", "request")
            /\ UNCHANGED <<queue, req, input, asked, out, link>>
AddLock == Lock("main", "made", "append")
Add == /\ At("main", "append") /\ Len(readrequests) < MaxQueue
       /\ readrequests' = Append(readrequests, [rid |-> req.rid, len |-> req.len])
       /\ Goto("main", "added")
       /\ UNCHANGED <<lock, req, input, asked, unheard, out, link>>
AddUnlock == Unlock("main", "added", "request")

(* A write to the pipe, which returns when the kernel has read it. *)
Put(t, from, to, what) == /\ At(t, from)
                          /\ out' = IF link THEN Append(out, what) ELSE out
                          /\ Goto(t, to)
                          /\ UNCHANGED <<queue, req, input, asked, unheard, link>>
Head1(rid) == [part |-> "head", rid |-> rid, data |-> <<>>]
Body(rid, chars) == [part |-> "data", rid |-> rid, data |-> chars]

RespondLock == Lock("main", "respond", "write")
Respond == Put("main", "write", "written", Head1(req.rid))
RespondUnlock == Unlock("main", "written", "request")

-----------------------------------------------------------------------------
(* readloop(): the head of the queue is loaded before the lock is taken. *)
Take == /\ At("reader", "idle") /\ readrequests # <<>>
        /\ taken' = Head(readrequests) /\ data' = <<>> /\ Goto("reader", "take")
        /\ UNCHANGED <<queue, req, typed, asked, unheard, out, link>>
PopLock == Lock("reader", "take", "pop")
Pop == /\ At("reader", "pop")
       /\ readrequests' = Tail(readrequests) /\ Goto("reader", "popped")
       /\ UNCHANGED <<lock, req, input, asked, unheard, out, link>>
PopUnlock == Unlock("reader", "popped", "chars")

Char == /\ At("reader", "chars") /\ Len(data) < taken.len /\ typed < MaxTyped
        /\ typed' = typed + 1 /\ data' = Append(data, typed')
        /\ UNCHANGED <<queue, pc, req, taken, asked, unheard, out, link>>

(* free(req), from its first access to the heap to its last *)
Free == Len(data) = taken.len /\ Inner("reader", "chars", "free")
Freed == Inner("reader", "free", "freed")

(* Mutant: the answer is written without the lock. *)
AnswerOpen == Inner("reader", "freed", "head")
AnswerLock == Lock("reader", "freed", "head")
AnswerHead == Put("reader", "head", "data", Head1(taken.rid))
AnswerData == Put("reader", "data", "answered", Body(taken.rid, data))
AnswerUnlock == Unlock("reader", "answered", "idle")

(* The kernel ends the mount. *)
Break == /\ link /\ link' = FALSE
         /\ UNCHANGED <<queue, pc, req, input, asked, unheard, out>>

Main == \/ \E type \in Types, len \in 0..MaxLen : Request(type, len)
        \/ RequestEOF \/ Malloc \/ Malloced \/ NoMemory \/ AddLock \/ Add \/ AddUnlock
        \/ RespondLock \/ Respond \/ RespondUnlock
Reader == \/ Take \/ PopLock \/ Pop \/ PopUnlock \/ Char \/ Free \/ Freed
          \/ AnswerLock \/ AnswerHead \/ AnswerData \/ AnswerUnlock

(* Both threads are in the heap.  free() links the old head behind the     *)
(* block it gives back and makes that the head; a block that malloc() takes*)
(* in between is free again, and the next malloc() gives it out under the  *)
(* request that waits in it.  The model ends here.                         *)
Raced == At("main", "malloc") /\ At("reader", "free")
Next == ~Raced /\ (Main \/ Reader \/ Break)

Spec == Init /\ [][Next]_vars
-----------------------------------------------------------------------------
TypeOK == /\ lock \in Threads \cup {"free"} /\ Len(readrequests) <= MaxQueue /\ typed <= MaxTyped
          /\ req.type \in Types /\ taken.rid \in 0..MaxRequests /\ link \in BOOLEAN

Reads == {i \in DOMAIN asked : asked[i].type = "read"}
Bodies == {i \in DOMAIN out : out[i].part = "data"}

(* mountproc() reads the data of a read right after its head: nothing the  *)
(* other thread writes comes between, and no data come without a head.     *)
Pairs == \A i \in DOMAIN out :
           /\ out[i].part = "data" => i > 1 /\ out[i - 1] = Head1(out[i].rid)
           /\ out[i].part = "head" /\ out[i].rid \in Reads /\ i < Len(out) =>
                out[i + 1].part = "data"

(* Reads get the characters they ask for, in the order the reads were      *)
(* made, and each once; none is lost while the link is up.                 *)
InOrder == /\ \E n \in 0..typed : UNION {ToSet(out[i].data) : i \in Bodies} = 1..n
           /\ \A i, j \in Bodies : \A k \in DOMAIN out[i].data, l \in DOMAIN out[j].data :
                i < j \/ (i = j /\ k < l) => out[i].data[k] < out[j].data[l]
           /\ \A i \in Bodies : Len(out[i].data) = asked[out[i].rid].len
           /\ \A i, j \in Bodies : i < j => out[i].rid < out[j].rid
Pending(rid) == \/ rid \in {readrequests[i].rid : i \in DOMAIN readrequests}
                \/ taken.rid = rid /\ ~At("reader", "idle")
                \/ req.rid = rid /\ pc["main"] \in {"add", "malloc", "made", "append"}
NoneLost == link => \A rid \in Reads \ unheard :
              Pending(rid) \/ \E i \in Bodies : out[i].rid = rid

(* As long as malloc() and free() do not meet, the two threads answer every*)
(* read as if there were one.                                              *)
ConsoleSound == Pairs /\ InOrder /\ NoneLost
=============================================================================
