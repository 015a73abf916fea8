------------------------------- MODULE Fgroup -------------------------------
(***************************************************************************)
(* File descriptors: kern/fgroup.c, kern/chan.c and the descriptor calls   *)
(* of kern/sysfile.c.  A channel counts the slots that hold it; the calls  *)
(* change slots and counts in separate steps, and processes with different *)
(* groups that share channels (after fgroupcopy()) run between them.  One  *)
(* process at a time makes calls on a group.                               *)
(***************************************************************************)
EXTENDS Naturals, FiniteSets, SequencesExt

CONSTANTS Groups, Chans, None,
          NChans,  \* nchans, the slots of a group
          First    \* the group of the first process

FgroupAssumption == /\ None \notin Chans /\ NChans \in Nat \ {0} /\ First \in Groups
                    /\ IsFiniteSet(Chans) /\ IsFiniteSet(Groups)

VARIABLES chans,    \* the slots of each group
          live,     \* the groups that have a process
          refs,     \* refs of each channel; 0: freed
          mode,     \* what a channel may be used for
          todo,     \* what is left of the call made on a group: <<"inc" or "dec", channel>>
          using,    \* the channel a read, write or seek on a group uses, or None
          broken    \* channels whose count a failing call or dup2(fd, fd) left wrong

vars == <<chans, live, refs, mode, todo, using, broken>>

Fds == 0..NChans - 1
Empty == [fd \in Fds |-> None]
Modes == {{"r"}, {"w"}, {"r", "w"}}

Init == /\ chans = [g \in Groups |-> Empty] /\ live = {First}
        /\ refs = [c \in Chans |-> 0] /\ mode = [c \in Chans |-> {}]
        /\ todo = [g \in Groups |-> <<>>] /\ using = [g \in Groups |-> None]
        /\ broken = {}

Idle(g) == g \in live /\ todo[g] = <<>> /\ using[g] = None
Open(g) == {fd \in Fds : chans[g][fd] # None}
FreeFds(g) == Fds \ Open(g)
Unused == {c \in Chans \ broken : /\ refs[c] = 0
                                  /\ \A g \in Groups, fd \in Fds : chans[g][fd] # c}

(* fgroupaddchan() takes the first slot that is nil. *)
First1(S) == CHOOSE fd \in S : \A other \in S : fd <= other
Added(slots, c) == [slots EXCEPT ![First1({fd \in Fds : slots[fd] = None})] = c]

(* sysopen(): with no slot left the channel is never freed. *)
SysOpen(g, c, m) ==
    /\ Idle(g) /\ c \in Unused
    /\ refs' = [refs EXCEPT ![c] = 1] /\ mode' = [mode EXCEPT ![c] = m]
    /\ IF FreeFds(g) # {} THEN chans' = [chans EXCEPT ![g] = Added(@, c)] /\ UNCHANGED broken
                          ELSE broken' = broken \cup {c} /\ UNCHANGED chans
    /\ UNCHANGED <<live, todo, using>>

(* syspipe(): when only the first end gets a slot, it is freed and stays   *)
(* in the slot; the other end is never freed.                              *)
SysPipe(g, c0, c1) ==
    /\ Idle(g) /\ {c0, c1} \subseteq Unused /\ c0 # c1
    /\ mode' = [mode EXCEPT ![c0] = {"r"}, ![c1] = {"w"}]
    /\ IF Cardinality(FreeFds(g)) > 1
       THEN /\ chans' = [chans EXCEPT ![g] = Added(Added(@, c0), c1)]
            /\ refs' = [refs EXCEPT ![c0] = 1, ![c1] = 1] /\ UNCHANGED broken
       ELSE /\ chans' = IF FreeFds(g) = {} THEN chans ELSE [chans EXCEPT ![g] = Added(@, c0)]
            /\ refs' = [refs EXCEPT ![c0] = IF FreeFds(g) = {} THEN 1 ELSE 0, ![c1] = 1]
            /\ broken' = broken \cup {c0, c1}
    /\ UNCHANGED <<live, todo, using>>

(* Mutant: the slot keeps the channel. *)
CloseKeepsSlot(g, fd) == /\ Idle(g) /\ fd \in Open(g)
                         /\ todo' = [todo EXCEPT ![g] = <<<<"dec", chans[g][fd]>>>>]
                         /\ UNCHANGED <<chans, live, refs, mode, using, broken>>

(* sysclose(): the slot is cleared, then the channel given up. *)
SysClose(g, fd) == /\ Idle(g) /\ fd \in Open(g)
                   /\ chans' = [chans EXCEPT ![g][fd] = None]
                   /\ todo' = [todo EXCEPT ![g] = <<<<"dec", chans[g][fd]>>>>]
                   /\ UNCHANGED <<live, refs, mode, using, broken>>

(* sysdup(): the slot is taken first, then the channel counted. *)
SysDup(g, fd) == /\ Idle(g) /\ fd \in Open(g) /\ FreeFds(g) # {}
                 /\ chans' = [chans EXCEPT ![g] = Added(@, chans[g][fd])]
                 /\ todo' = [todo EXCEPT ![g] = <<<<"inc", chans[g][fd]>>>>]
                 /\ UNCHANGED <<live, refs, mode, using, broken>>

(* sysdup2(): fgroupreplacechan() puts the channel in the slot and gives up*)
(* the old one, and only then the channel is counted: for a slot copied    *)
(* onto itself that may free it.  A negative new descriptor, which         *)
(* fgroupreplacechan() does not refuse, is left out: the exchange is with  *)
(* memory in front of the slots.                                           *)
SysDup2(g, old, fd) ==
    LET c == chans[g][old]
        was == chans[g][fd]
    IN  /\ Idle(g) /\ old \in Open(g)
        /\ chans' = [chans EXCEPT ![g][fd] = c]
        /\ todo' = [todo EXCEPT ![g] = (IF was = None THEN <<>> ELSE <<<<"dec", was>>>>)
                                         \o <<<<"inc", c>>>>]
        /\ broken' = IF old = fd THEN broken \cup {c} ELSE broken
        /\ UNCHANGED <<live, refs, mode, using>>

(* atomicinc() and chanfree() *)
Count(g) == LET c == Head(todo[g])[2]
            IN  /\ todo[g] # <<>>
                /\ refs' = [refs EXCEPT ![c] = IF Head(todo[g])[1] = "inc" THEN @ + 1
                                               ELSE IF @ = 0 THEN 0 ELSE @ - 1]
                /\ todo' = [todo EXCEPT ![g] = Tail(@)]
                /\ UNCHANGED <<chans, live, mode, using, broken>>

(* read(), write() and seek() look the channel up and use it uncounted. *)
Use(g, fd, m) == /\ Idle(g) /\ fd \in Open(g) /\ m \subseteq mode[chans[g][fd]]
                 /\ using' = [using EXCEPT ![g] = chans[g][fd]]
                 /\ UNCHANGED <<chans, live, refs, mode, todo, broken>>
Used(g) == /\ using[g] # None /\ using' = [using EXCEPT ![g] = None]
           /\ UNCHANGED <<chans, live, refs, mode, todo, broken>>

(* fork with a new, empty group or with a copy of the caller's *)
Held(g, c) == Cardinality({fd \in Fds : chans[g][fd] = c})
FgroupNew(g, h) == /\ Idle(g) /\ h \notin live
                   /\ live' = live \cup {h} /\ chans' = [chans EXCEPT ![h] = Empty]
                   /\ UNCHANGED <<refs, mode, todo, using, broken>>
FgroupCopy(g, h) == /\ Idle(g) /\ h \notin live
                    /\ live' = live \cup {h} /\ chans' = [chans EXCEPT ![h] = chans[g]]
                    /\ refs' = [c \in Chans |-> refs[c] + Held(g, c)]
                    /\ UNCHANGED <<mode, todo, using, broken>>

(* fgroupfree(): the channels are given up one after the other. *)
FgroupFree(g) == /\ Idle(g)
                 /\ live' = live \ {g} /\ chans' = [chans EXCEPT ![g] = Empty]
                 /\ todo' = [todo EXCEPT ![g] =
                               SetToSeq({<<"dec", chans[g][fd], fd>> : fd \in Open(g)})]
                 /\ UNCHANGED <<refs, mode, using, broken>>

Next == \E g \in Groups :
          \/ \E c \in Chans, m \in Modes : SysOpen(g, c, m)
          \/ \E c0, c1 \in Chans : SysPipe(g, c0, c1)
          \/ \E fd \in Fds : \/ SysClose(g, fd) \/ SysDup(g, fd)
                             \/ \E old \in Fds : SysDup2(g, old, fd)
                             \/ \E m \in {{"r"}, {"w"}, {}} : Use(g, fd, m)
          \/ Count(g) \/ Used(g) \/ FgroupFree(g)
          \/ \E h \in Groups : todo[h] = <<>> /\ (FgroupNew(g, h) \/ FgroupCopy(g, h))

Spec == Init /\ [][Next]_vars
-----------------------------------------------------------------------------
TypeOK == /\ chans \in [Groups -> [Fds -> Chans \cup {None}]] /\ live \subseteq Groups
          /\ refs \in [Chans -> Nat] /\ mode \in [Chans -> SUBSET {"r", "w"}]
          /\ using \in [Groups -> Chans \cup {None}] /\ broken \subseteq Chans

(* Whatever forks, closes, copies and exits do, a channel that no failing  *)
(* call has touched is counted once for each slot that holds it, up to the *)
(* steps still to be made (numbered from the last one of each call), and   *)
(* none that is in a slot or used is freed.                                *)
Left(l, k) == l[Len(l) + 1 - k]
Waiting(what, c) == {w \in Groups \X (1..NChans + 1) :
                       LET l == todo[w[1]]
                       IN  w[2] <= Len(l) /\ Left(l, w[2])[1] = what /\ Left(l, w[2])[2] = c}
Slots(c) == {s \in Groups \X Fds : chans[s[1]][s[2]] = c}
ChannelsKept ==
    \A c \in Chans \ broken :
        /\ refs[c] + Cardinality(Waiting("inc", c))
             = Cardinality(Slots(c)) + Cardinality(Waiting("dec", c))
        /\ (Slots(c) # {} \/ \E g \in Groups : using[g] = c) => refs[c] > 0
=============================================================================
