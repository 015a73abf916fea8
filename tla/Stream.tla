------------------------------- MODULE Stream -------------------------------
(***************************************************************************)
(* What a pipe promises (kern/pipe.c; include/libc.h: "Writes to fds[1]    *)
(* can be read from fds[0]"): a read and a write that are both outstanding *)
(* move the same bytes at once, in order, as many as the smaller of the    *)
(* two asks for; a call returns EOF only when an end has been closed.      *)
(***************************************************************************)
EXTENDS Naturals, Sequences, FiniteSetsExt

CONSTANTS Readers, Writers, MaxLen

Procs == Readers \cup Writers

VARIABLES phase,   \* phase[p]: "idle", "pending", or "done" before returning
          want,    \* want[p]: the length p asked for
          moved,   \* moved[p]: the bytes the call of p has moved
          got,     \* got[r]: all that reads of r have returned
          pos,     \* pos[w]: how much writes of w have returned
          closed   \* the ends that have been closed

svars == <<phase, want, moved, got, pos, closed>>

SInit == /\ phase = [p \in Procs |-> "idle"]
         /\ want = [p \in Procs |-> 0]
         /\ moved = [p \in Procs |-> <<>>]
         /\ got = [r \in Readers |-> <<>>]
         /\ pos = [w \in Writers |-> 0]
         /\ closed = {}

(* The k bytes of w's stream after the ones its writes have returned. *)
Bytes(w, from, k) == [i \in 1..k |-> <<w, from + i>>]

Begin(p, n) == /\ phase[p] = "idle"
               /\ phase' = [phase EXCEPT ![p] = "pending"]
               /\ want' = [want EXCEPT ![p] = n]
               /\ UNCHANGED <<moved, got, pos, closed>>

Transfer(r, w) ==
  /\ phase[r] = "pending" /\ phase[w] = "pending"
  /\ LET b == Bytes(w, pos[w], Min({want[r], want[w]}))
     IN  moved' = [moved EXCEPT ![r] = b, ![w] = b]
  /\ phase' = [phase EXCEPT ![r] = "done", ![w] = "done"]
  /\ UNCHANGED <<want, got, pos, closed>>

Back(p) == /\ phase' = [phase EXCEPT ![p] = "idle"]
           /\ want' = [want EXCEPT ![p] = 0]
           /\ UNCHANGED closed

Return(p) ==
  /\ phase[p] = "done"
  /\ Back(p)
  /\ moved' = [moved EXCEPT ![p] = <<>>]
  /\ \/ p \in Readers /\ got' = [got EXCEPT ![p] = @ \o moved[p]] /\ UNCHANGED pos
     \/ p \in Writers /\ pos' = [pos EXCEPT ![p] = @ + Len(moved[p])] /\ UNCHANGED got

ReturnEOF(p) == /\ phase[p] = "pending"
                /\ closed # {}
                /\ Back(p)
                /\ UNCHANGED <<moved, got, pos>>

CloseEnd(e) == closed' = closed \cup {e} /\ UNCHANGED <<phase, want, moved, got, pos>>

SNext == \/ \E p \in Procs : (\E n \in 1..MaxLen : Begin(p, n)) \/ Return(p) \/ ReturnEOF(p)
         \/ \E r \in Readers, w \in Writers : Transfer(r, w)
         \/ \E e \in {"c0", "c1"} : CloseEnd(e)

SSpec == SInit /\ [][SNext]_svars
=============================================================================
