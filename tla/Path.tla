-------------------------------- MODULE Path --------------------------------
(***************************************************************************)
(* Paths: kern/path.c, and what the system calls do with the paths they    *)
(* make.  A path is a list of nodes from a pool shared by all processes;   *)
(* here a sequence of records, the pool a sequence, the last freed first.  *)
(* A string is its components, and whether it begins with a slash; TooLong *)
(* stands for a component of NAMEMAX characters or more.                   *)
(***************************************************************************)
EXTENDS Naturals, FiniteSets, SequencesExt

CONSTANTS Procs, None, Names, TooLong,
          MaxComponents, MaxDot, MaxNodes \* bounds: of a string, of dot, of all nodes
PathAssumption == /\ TooLong \notin Names \cup {".", ".."} /\ Names \cap {".", ".."} = {}
                  /\ None \notin Procs
                  /\ MaxComponents \in Nat /\ MaxDot \in Nat /\ MaxNodes \in Nat

VARIABLES dot,   \* the working directory of each process, None: no process
          path,  \* the path that a call of the process has made, or None
          pool,  \* [free |-> the free nodes, made |-> how many malloc() has made]
          lost   \* nodes of paths that calls forgot to free
vars == <<dot, path, pool, lost>>

Strings == [root : BOOLEAN, parts : SeqOf(Names \cup {".", "..", TooLong}, MaxComponents)]

Init == /\ \E first \in Procs : dot = [q \in Procs |-> IF q = first THEN <<>> ELSE None]
        /\ path = [q \in Procs |-> None]
        /\ pool = [free |-> <<>>, made |-> 0] /\ lost = {}

(* A node comes from the free list, or from malloc() when that is empty. *)
NewNode(w, name) ==
    IF w.free = <<>>
    THEN [path |-> Append(w.path, [id |-> w.made + 1, s |-> name]), free |-> <<>>, made |-> w.made + 1]
    ELSE [w EXCEPT !.path = Append(@, [id |-> Head(w.free), s |-> name]), !.free = Tail(@)]

(* pathfree() frees the last node first. *)
Freed(p, free) == [i \in DOMAIN p |-> p[i].id] \o free

pathcopy(o, pl) == FoldLeft(LAMBDA w, node : NewNode(w, node.s),
                            [path |-> <<>>, free |-> pl.free, made |-> pl.made], o)

Component(w, part) ==
    CASE part = "." -> w
      [] part = ".." /\ w.path = <<>> -> w
      [] part = ".." /\ w.path # <<>> ->
           [w EXCEPT !.path = Front(@), !.free = <<Last(w.path).id>> \o @]
      [] OTHER -> NewNode(w, part)

(* A component that is too long ends it: the path is freed, and nil is     *)
(* what the callers take for the root.                                     *)
UpTo(parts) == IF Contains(parts, TooLong)
               THEN SubSeq(parts, 1, SelectInSeq(parts, LAMBDA c : c = TooLong) - 1) ELSE parts
strtopath(p, str, pl) ==
    LET w == FoldLeft(Component, pathcopy(IF str.root THEN <<>> ELSE p, pl), UpTo(str.parts))
    IN  IF Contains(str.parts, TooLong) THEN [w EXCEPT !.path = <<>>, !.free = Freed(w.path, @)]
                                        ELSE w

Running(q) == dot[q] # None
Rest(w) == [free |-> w.free, made |-> w.made]

(* A call takes a path from its caller: sysopen(), sysstat() ... *)
Begin(q, str) == LET w == strtopath(dot[q], str, pool)
                 IN  /\ Running(q) /\ path[q] = None /\ w.made <= MaxNodes
                     /\ path' = [path EXCEPT ![q] = w.path] /\ pool' = Rest(w)
                     /\ UNCHANGED <<dot, lost>>

Ids(p) == {p[i].id : i \in DOMAIN p}
EndFree(q) == pool' = [pool EXCEPT !.free = Freed(path[q], @)]

(* sysopen() that fails, sysunbind(), syscleanpath(), and syschdir() to    *)
(* what cannot be opened, free it.                                         *)
Free(q) == /\ path[q] # None /\ EndFree(q)
           /\ path' = [path EXCEPT ![q] = None] /\ UNCHANGED <<dot, lost>>

(* sysopen() that succeeds, sysstat(), sysremove() and sysmount() do not. *)
Forget(q) == /\ path[q] # None /\ lost' = lost \cup Ids(path[q])
             /\ path' = [path EXCEPT ![q] = None] /\ UNCHANGED <<dot, pool>>

(* Mutant: the old path is not freed. *)
ChdirKeeps(q) == /\ path[q] # None /\ Len(path[q]) <= MaxDot /\ EndFree(q)
                 /\ dot' = [dot EXCEPT ![q] = path[q]] /\ path' = [path EXCEPT ![q] = None]
                 /\ UNCHANGED lost

(* syschdir() frees the old path and keeps the new one. *)
Chdir(q) == /\ path[q] # None /\ Len(path[q]) <= MaxDot
            /\ pool' = [pool EXCEPT !.free = Freed(dot[q], @)]
            /\ dot' = [dot EXCEPT ![q] = path[q]] /\ path' = [path EXCEPT ![q] = None]
            /\ UNCHANGED lost

(* sysfork() copies the path, procexit() frees it. *)
Fork(q, c) == LET w == pathcopy(dot[q], pool)
              IN  /\ Running(q) /\ path[q] = None /\ ~Running(c) /\ w.made <= MaxNodes
                  /\ dot' = [dot EXCEPT ![c] = w.path] /\ pool' = Rest(w)
                  /\ UNCHANGED <<path, lost>>
Exit(q) == /\ Running(q) /\ path[q] = None
           /\ dot' = [dot EXCEPT ![q] = None] /\ pool' = [pool EXCEPT !.free = Freed(dot[q], @)]
           /\ UNCHANGED <<path, lost>>

Next == \E q \in Procs : \/ \E str \in Strings : Begin(q, str)
                         \/ Free(q) \/ Forget(q) \/ Chdir(q) \/ Exit(q)
                         \/ \E c \in Procs : Fork(q, c)

Spec == Init /\ [][Next]_vars
-----------------------------------------------------------------------------
TypeOK == /\ pool.made \in 0..MaxNodes /\ lost \subseteq 1..pool.made
          /\ \A q \in Procs : dot[q] # None => Len(dot[q]) <= MaxDot

(* Every node ever made is on the free list, in one path or lost, and only *)
(* once: a path that one process uses is not built over by another.        *)
Own(p) == IF p = None THEN <<>> ELSE p
NodesApart ==
    /\ ToSet(pool.free) \cup lost \cup UNION {Ids(Own(dot[q])) \cup Ids(Own(path[q])) : q \in Procs}
         = 1..pool.made
    /\ Len(pool.free) + Cardinality(lost)
         + MapThenSumSet(LAMBDA q : Len(Own(dot[q])) + Len(Own(path[q])), Procs) = pool.made

(* What a string means: reading it from the end, each ".." takes away the  *)
(* nearest name before it that is still there, and ".." at the root is     *)
(* nothing; with a component too long it means the root.                   *)
Means(names) == FoldRight(LAMBDA part, acc :
                            CASE part = "." -> acc
                              [] part = ".." -> [acc EXCEPT !.skip = @ + 1]
                              [] acc.skip > 0 /\ part # ".." /\ part # "." -> [acc EXCEPT !.skip = @ - 1]
                              [] OTHER -> [acc EXCEPT !.names = <<part>> \o @],
                          names, [skip |-> 0, names |-> <<>>]).names
NamesOf(p) == [i \in DOMAIN p |-> p[i].s]

(* The path that strtopath() builds on its nodes, free ones and new ones,  *)
(* is the one the string means from the working directory.                 *)
PathMeant == \A q \in Procs, str \in Strings :
               Running(q) =>
                 NamesOf(strtopath(dot[q], str, pool).path)
                   = IF Contains(str.parts, TooLong) THEN <<>>
                     ELSE Means((IF str.root THEN <<>> ELSE NamesOf(dot[q])) \o str.parts)

(* Paths are what their strings mean, and keep being it: nobody builds on  *)
(* the nodes of another's.                                                 *)
PathsKept == NodesApart /\ PathMeant
=============================================================================
