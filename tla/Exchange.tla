------------------------------ MODULE Exchange ------------------------------
(***************************************************************************)
(* What a mounted server and the kernel process that reads its responses   *)
(* (kern/file.c) promise the processes that use files of the server: a     *)
(* request the server has read is answered by the server, and an error     *)
(* comes only when the link to the server is broken.                       *)
(***************************************************************************)
CONSTANT Clients

VARIABLES phase,  \* phase[c]: how far the call of c is
          heard,  \* the server has answered some request
          open    \* the server has not closed its ends

evars == <<phase, heard, open>>

EInit == /\ phase = [c \in Clients |-> "idle"]
         /\ heard = FALSE
         /\ open = TRUE

Move(c, from, to) == phase[c] \in from /\ phase' = [phase EXCEPT ![c] = to]

Ask(c) == Move(c, {"idle"}, "asked") /\ UNCHANGED <<heard, open>>

(* The server reads the request. *)
Take(c) == Move(c, {"asked"}, "taken") /\ open /\ UNCHANGED <<heard, open>>

(* mountproc() has read a response header. *)
Hear == heard' = TRUE /\ UNCHANGED <<phase, open>>

Answer(c) == Move(c, {"taken"}, "answered") /\ heard /\ UNCHANGED <<heard, open>>

(* A server that goes away before its first response leaves mountproc()    *)
(* with a response nobody wrote, and one call returns with it.             *)
MakeUp(c) == Move(c, {"asked", "taken"}, "idle") /\ ~open /\ ~heard /\ UNCHANGED <<heard, open>>

Fail(c) == Move(c, {"asked", "taken"}, "failed") /\ ~open /\ UNCHANGED <<heard, open>>

Return(c) == Move(c, {"answered", "failed"}, "idle") /\ UNCHANGED <<heard, open>>

Break == open' = FALSE /\ UNCHANGED <<phase, heard>>

ENext == \/ \E c \in Clients : \/ Ask(c) \/ Take(c) \/ Answer(c) \/ MakeUp(c) \/ Fail(c) \/ Return(c)
         \/ Hear \/ Break

ESpec == EInit /\ [][ENext]_evars
=============================================================================
