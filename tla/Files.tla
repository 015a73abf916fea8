-------------------------------- MODULE Files --------------------------------
(***************************************************************************)
(* Open files: fileopen() with filecreate(), fileread(), filewrite(),      *)
(* fileseek(), fileflush(), fileclose(), filestat() and fileremove() of    *)
(* kern/file.c, as calls of processes that share channels, and the file    *)
(* server at the other end of the mount, which may refuse any request.     *)
(* A request and its response are two steps; a call that uses the offset   *)
(* has the lock of the channel in between.  How names are looked up is in  *)
(* Fid, how requests and responses travel in Mount.                        *)
(***************************************************************************)
EXTENDS Integers, FiniteSets, SequencesExt

CONSTANTS Procs, Fids, Chans, None,
          MaxLen, MaxOffset, MaxLog, MaxLost \* bounds: of a transfer, an offset, log and lost
FilesAssumption == /\ None \notin Procs \cup Fids \cup Chans
                   /\ MaxLen \in Nat \ {0} /\ MaxOffset \in Nat /\ MaxLog \in Nat /\ MaxLost \in Nat
                   /\ IsFiniteSet(Procs) /\ IsFiniteSet(Chans)

VARIABLES call,    \* what a process is doing: [op, fid, chan, from, len], len -1: no answer yet
          fid, offset, lock, \* of a channel; fid None: closed
          log,     \* the transfers [from, len] on a channel since it was opened or moved
          exists, opens, \* the server: its files, and how often each is open
          refs,    \* refs of a fid in the kernel
          lost     \* references that a refused fileremove() never gives up
vars == <<call, fid, offset, lock, log, exists, opens, refs, lost>>
chan == <<fid, offset, lock, log>>
server == <<exists, opens>>

User == [op |-> "user", fid |-> None, chan |-> None, from |-> 0, len |-> -1]

Init == /\ call = [q \in Procs |-> User]
        /\ fid = [c \in Chans |-> None] /\ offset = [c \in Chans |-> 0]
        /\ lock = [c \in Chans |-> None] /\ log = [c \in Chans |-> <<>>]
        /\ exists = {} /\ opens = [f \in Fids |-> 0]
        /\ refs = [f \in Fids |-> 0] /\ lost = [f \in Fids |-> 0]

Doing(q, what) == call[q].op = what
Do(q, c) == call' = [call EXCEPT ![q] = c]
Return(q) == Do(q, User)
Next1(q, what) == Do(q, [call[q] EXCEPT !.op = what])
Count(f, n) == refs' = [refs EXCEPT ![f] = @ + n]

(* findfile() for open, stat or remove: a fid in use is found in the kernel*)
Find(q, f, what) == /\ Doing(q, "user") /\ (f \in exists \/ refs[f] > 0)
                    /\ Do(q, [User EXCEPT !.op = what, !.fid = f]) /\ Count(f, 1)
                    /\ UNCHANGED <<chan, server, lost>>

(* filecreate(): a file that is not there is created at the server first.  *)
Create(q, f) == /\ Doing(q, "user") /\ f \notin exists /\ refs[f] = 0
                /\ exists' = exists \cup {f}
                /\ Do(q, [User EXCEPT !.op = "open", !.fid = f]) /\ Count(f, 1)
                /\ UNCHANGED <<chan, opens, lost>>

(* The mode does not fit the attributes, or the server refuses; stat ends  *)
(* the same way.                                                           *)
GiveUp(q) == /\ call[q].op \in {"open", "stat"}
             /\ Count(call[q].fid, -1) /\ Return(q)
             /\ UNCHANGED <<chan, server, lost>>

(* The server opens the file; then the channel is made. *)
OpenServed(q) == /\ Doing(q, "open") /\ call[q].fid \in exists
                 /\ opens' = [opens EXCEPT ![call[q].fid] = @ + 1]
                 /\ Next1(q, "opened")
                 /\ UNCHANGED <<chan, exists, refs, lost>>
OpenDone(q, c) == /\ Doing(q, "opened") /\ fid[c] = None /\ \A r \in Procs : call[r].chan # c
                  /\ fid' = [fid EXCEPT ![c] = call[q].fid] /\ Return(q)
                  /\ UNCHANGED <<offset, lock, log, server, refs, lost>>

Take(q, c) == lock[c] = None /\ lock' = [lock EXCEPT ![c] = q]
Start(q, c, what) == /\ Doing(q, "user") /\ fid[c] # None
                     /\ Do(q, [op |-> what, fid |-> fid[c], chan |-> c, from |-> offset[c], len |-> -1])
                     /\ UNCHANGED <<fid, offset, log, server, refs, lost>>

(* Mutant: two transfers on a channel at once. *)
TransferUnlocked(q, c) == Start(q, c, "transfer") /\ UNCHANGED lock

(* fileread() and filewrite(): the request has the offset of the channel.  *)
Transfer(q, c) == Start(q, c, "transfer") /\ Take(q, c)
Flush(q, c) == Start(q, c, "flush") /\ Take(q, c)

(* The server transfers no more than it was asked to. *)
Served(q, n) == /\ Doing(q, "transfer") /\ call[q].len = -1
                /\ n \in 0..MaxLen /\ call[q].from + n <= MaxOffset
                /\ Do(q, [call[q] EXCEPT !.len = n])
                /\ UNCHANGED <<chan, server, refs, lost>>

(* The offset moves by what was transferred. *)
TransferDone(q) == LET c == call[q].chan
                   IN  /\ Doing(q, "transfer") /\ call[q].len # -1 /\ Len(log[c]) < MaxLog
                       /\ offset' = [offset EXCEPT ![c] = @ + call[q].len]
                       /\ log' = [log EXCEPT ![c] = Append(@, [from |-> call[q].from, len |-> call[q].len])]
                       /\ lock' = [lock EXCEPT ![c] = None] /\ Return(q)
                       /\ UNCHANGED <<fid, server, refs, lost>>
(* The request is refused, or the server is gone; a flush always ends so.  *)
Fails(q) == /\ Doing(q, "flush") \/ (Doing(q, "transfer") /\ call[q].len = -1)
            /\ lock' = [lock EXCEPT ![call[q].chan] = None] /\ Return(q)
            /\ UNCHANGED <<fid, offset, log, server, refs, lost>>

(* fileseek(), SEEK_SET and SEEK_CUR *)
Seek(q, c, to) == /\ Doing(q, "user") /\ fid[c] # None /\ lock[c] = None
                  /\ to \in 0..MaxOffset
                  /\ offset' = [offset EXCEPT ![c] = to] /\ log' = [log EXCEPT ![c] = <<>>]
                  /\ UNCHANGED <<call, fid, lock, server, refs, lost>>

(* fileclose(), for the last reference to the channel: the server closes   *)
(* the file, then the fid is given up and the channel freed.               *)
Close(q, c) == /\ Doing(q, "user") /\ fid[c] # None /\ Take(q, c)
               /\ \A r \in Procs : call[r].chan # c
               /\ opens' = [opens EXCEPT ![fid[c]] = @ - 1]
               /\ Do(q, [User EXCEPT !.op = "closed", !.fid = fid[c], !.chan = c])
               /\ UNCHANGED <<fid, offset, log, exists, refs, lost>>
CloseDone(q) == LET c == call[q].chan
                IN  /\ Doing(q, "closed")
                    /\ fid' = [fid EXCEPT ![c] = None] /\ lock' = [lock EXCEPT ![c] = None]
                    /\ offset' = [offset EXCEPT ![c] = 0] /\ log' = [log EXCEPT ![c] = <<>>]
                    /\ Count(call[q].fid, -1) /\ Return(q)
                    /\ UNCHANGED <<server, lost>>

(* fileremove(): refused at once, and the reference lost, when the fid is  *)
(* used elsewhere; the server refuses what is open.                        *)
RemoveRefused(q) == LET f == call[q].fid
                    IN  /\ Doing(q, "remove") /\ refs[f] # 1 /\ lost[f] < MaxLost
                        /\ lost' = [lost EXCEPT ![f] = @ + 1] /\ Return(q)
                        /\ UNCHANGED <<chan, server, refs>>
RemoveAsk(q) == /\ Doing(q, "remove") /\ refs[call[q].fid] = 1
                /\ Next1(q, "removing")
                /\ UNCHANGED <<chan, server, refs, lost>>
RemoveDone(q) == LET f == call[q].fid
                 IN  /\ Doing(q, "removing")
                     /\ exists' \in {exists} \cup IF opens[f] = 0 THEN {exists \ {f}} ELSE {}
                     /\ Count(f, -1) /\ Return(q)
                     /\ UNCHANGED <<chan, opens, lost>>

Next == \E q \in Procs :
          \/ \E f \in Fids : \/ \E what \in {"open", "stat", "remove"} : Find(q, f, what)
                             \/ Create(q, f)
          \/ GiveUp(q) \/ OpenServed(q) \/ TransferDone(q) \/ Fails(q) \/ CloseDone(q)
          \/ RemoveRefused(q) \/ RemoveAsk(q) \/ RemoveDone(q)
          \/ \E c \in Chans : \/ OpenDone(q, c) \/ Transfer(q, c) \/ Flush(q, c) \/ Close(q, c)
                              \/ \E to \in 0..MaxOffset : Seek(q, c, to)
          \/ \E n \in 0..MaxLen : Served(q, n)

Spec == Init /\ [][Next]_vars
-----------------------------------------------------------------------------
TypeOK == /\ fid \in [Chans -> Fids \cup {None}] /\ offset \in [Chans -> Nat]
          /\ lock \in [Chans -> Procs \cup {None}] /\ exists \subseteq Fids
          /\ opens \in [Fids -> Nat] /\ refs \in [Fids -> Nat]

(* Whoever shares a channel, its transfers follow each other: each begins  *)
(* where the one before ended, so nothing is read or written twice, and    *)
(* nothing is passed over.                                                 *)
Consecutive == \A c \in Chans : \A i \in 1..Len(log[c]) - 1 :
                 log[c][i + 1].from = log[c][i].from + log[c][i].len

(* The server has a file open once for each channel on it and each open    *)
(* that is not finished, and the kernel has that many references and those *)
(* of the calls under way: a file in use is not removed.                   *)
InCall(f, ops) == Cardinality({q \in Procs : call[q].fid = f /\ call[q].op \in ops})
On(f) == Cardinality({c \in Chans : fid[c] = f})
OpensCounted ==
    \A f \in Fids :
        /\ opens[f] = On(f) + InCall(f, {"opened"}) - InCall(f, {"closed"})
        /\ refs[f] = On(f) + InCall(f, {"open", "stat", "remove", "removing", "opened"}) + lost[f]
        /\ opens[f] > 0 => f \in exists

(* The two together: what is transferred follows on, and the file is there *)
(* for as long as it is transferred.                                       *)
TransfersSound == Consecutive /\ OpensCounted
=============================================================================
