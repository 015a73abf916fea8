-------------------------------- MODULE Rpc --------------------------------
(***************************************************************************)
(* What message(), recv() and reply() promise (include/libc.h): a message  *)
(* is received at most once, message() returns OK only after the message   *)
(* was received and a reply was sent for it, and returns an error only     *)
(* when the address has been given up.                                     *)
(***************************************************************************)
CONSTANT Senders

VARIABLES phase,   \* phase[s]: where the call of message() by s stands
          open     \* some process still holds the address

rvars == <<phase, open>>

RInit == phase = [s \in Senders |-> "idle"] /\ open = TRUE

Move(s, from, to) == /\ phase[s] = from
                     /\ phase' = [phase EXCEPT ![s] = to]

Send(s) == Move(s, "idle", "sent") /\ UNCHANGED open

Receive(s) == Move(s, "sent", "held") /\ UNCHANGED open

Answer(s) == Move(s, "held", "ok") /\ UNCHANGED open

Fail(s) == /\ ~open
           /\ Move(s, "sent", "error") \/ Move(s, "held", "error")
           /\ UNCHANGED open

Return(s) == /\ Move(s, "ok", "idle") \/ Move(s, "error", "idle")
             /\ UNCHANGED open

GiveUp == open' = FALSE /\ UNCHANGED phase

RNext == \/ \E s \in Senders : Send(s) \/ Receive(s) \/ Answer(s) \/ Fail(s) \/ Return(s)
         \/ GiveUp

RSpec == RInit /\ [][RNext]_rvars
=============================================================================
