-------------------------------- MODULE Heap --------------------------------
(***************************************************************************)
(* The first-fit heaps of kern/heap.c and lib/libmem/heap.c: one free list *)
(* linked through the free blocks, a word of size in front of every block. *)
(* Addresses and sizes are in words.  The kernel's functions run under     *)
(* heaplock, a program's are called by one thread, so malloc() and free()  *)
(* are atomic.  free() of the kernel ends with a search for a page to give *)
(* back: it asks for a block at the first word of a page, where the page's *)
(* own struct pagel is, and finds none (BlocksDisjoint).                   *)
(***************************************************************************)
EXTENDS Naturals, FiniteSetsExt, SequencesExt

CONSTANT Heaps  \* the heaps: records of what is called below by the same name

VARIABLES kind,   \* the heap it is, one of Heaps
          size,   \* the size word of every block that is free or handed out
          heap,   \* the free list
          arenas  \* the regions the heap was given: <<first word, words>>

vars == <<kind, size, heap, arenas>>

Library == kind.Library       \* TRUE: lib/libmem/heap.c; FALSE: kern/heap.c
PageWords == kind.PageWords   \* PAGE_SIZE
PagelWords == kind.PagelWords \* sizeof(struct pagel), at the start of a page of the kernel's heap
BlockMax == kind.BlockMax     \* BLOCKMAX
Start == kind.Start           \* address and words of the region heapinit() is given
Sites == kind.Sites           \* the addresses at which a page may be handed out
Requests == kind.Requests     \* the sizes asked for, as roundptr() leaves them

Region == [at : Nat, words : Nat]
HeapAssumption ==
  /\ Heaps \subseteq [Library : BOOLEAN, PageWords : Nat, PagelWords : Nat, BlockMax : Nat \ {0},
                      Start : Region, Sites : SUBSET Nat, Requests : SUBSET (Nat \ {0})]
  /\ \A k \in Heaps : /\ k.PagelWords + 1 < k.PageWords /\ k.Start.words > 1
                      /\ \A s \in k.Sites : s % k.PageWords = 0

Live == DOMAIN size \ ToSet(heap)
Words(b) == b .. b + size[b]   \* the size word and what follows it
Span(a) == a[1] .. a[1] + a[2] - 1
End(b) == b + 1 + size[b]

Init == /\ kind \in Heaps
        /\ IF Library THEN size = <<>> /\ heap = <<>> /\ arenas = {}
           ELSE /\ size = [b \in {Start.at} |-> Start.words - 1] /\ heap = <<Start.at>>
                /\ arenas = {<<Start.at, Start.words>>}

(* The region growheap() gets for a request, and where it may lie. *)
Grown(s) == IF ~Library THEN {<<a + PagelWords, PageWords - PagelWords>> : a \in Sites}
            ELSE {<<a, IF s > BlockMax THEN s + 1 ELSE BlockMax * 8>> : a \in Sites}

Vacant(a) == \A r \in arenas : \A x \in Span(r) : x \div PageWords \notin {y \div PageWords : y \in Span(a)}

(* Mutant: the rest of a block keeps room for no header. *)
CarveWhole(sz, l, i, s) ==
  LET b == l[i]
      n == b + 1 + s
  IN  IF sz[b] > s
      THEN /\ size' = [x \in DOMAIN sz \cup {n} |-> IF x = b THEN s ELSE IF x = n THEN sz[b] - s ELSE sz[x]]
           /\ heap' = [l EXCEPT ![i] = n]
      ELSE size' = sz /\ heap' = RemoveAt(l, i)

(* malloc() once b, the i-th of the list l, has been found: split it, or hand out all of it. *)
Carve(sz, l, i, s) ==
  LET b == l[i]
      n == b + 1 + s
  IN  IF sz[b] > s + 1 + 2
      THEN /\ size' = [x \in DOMAIN sz \cup {n} |-> IF x = b THEN s ELSE IF x = n THEN sz[b] - s - 1 ELSE sz[x]]
           /\ heap' = [l EXCEPT ![i] = n]
      ELSE size' = sz /\ heap' = RemoveAt(l, i)

Fits(s) == {i \in DOMAIN heap : size[heap[i]] >= s}

Malloc(s) == /\ Fits(s) # {}
             /\ Carve(size, heap, Min(Fits(s)), s)
             /\ UNCHANGED <<kind, arenas>>

(* A larger request than a page holds ends the process that makes it. *)
MallocGrows(s) == /\ Fits(s) = {} /\ (Library \/ s <= PageWords - PagelWords - 1)
                  /\ \E a \in Grown(s) :
                       /\ Vacant(a)
                       /\ arenas' = arenas \cup {a}
                       /\ Carve([b \in DOMAIN size \cup {a[1]} |->
                                   IF b = a[1] THEN a[2] - 1 ELSE size[b]],
                                Append(heap, a[1]), Len(heap) + 1, s)
                  /\ UNCHANGED kind

(* Mutant: the header of the second block is not counted. *)
JoinedShort(b, c) == size[b] + size[c]

(* The size of two neighbours that become one block. *)
Joined(b, c) == size[b] + 1 + size[c]

(* The walk stops before a block beyond b only if a second one follows it; *)
(* otherwise b goes to the end of the list.                                *)
Place(b) == LET at == {i \in 1..Len(heap) - 2 : heap[i + 1] > b + 1 /\ b + 1 < heap[i + 2]}
            IN  IF at = {} THEN Len(heap) ELSE Min(at)

Without(S) == [x \in DOMAIN size \ S |-> size[x]]

(* free() of a block before the first of the list. *)
FreeFirst(b) == /\ heap # <<>> /\ b < heap[1]
                /\ IF End(b) = heap[1]
                   THEN /\ size' = [Without({heap[1]}) EXCEPT ![b] = Joined(b, heap[1])]
                        /\ heap' = [heap EXCEPT ![1] = b]
                   ELSE heap' = <<b>> \o heap /\ UNCHANGED size
                /\ UNCHANGED <<kind, arenas>>

FreeAfter(b) ==
  /\ heap # <<>> /\ b > heap[1]
  /\ LET i == Place(b)
         p == heap[i]
         n == IF i < Len(heap) THEN heap[i + 1] ELSE p
         palign == End(p) = b
         nalign == i < Len(heap) /\ End(b) = n
     IN  /\ size' = IF palign /\ nalign THEN [Without({b, n}) EXCEPT ![p] = Joined(p, b) + 1 + size[n]]
                    ELSE IF nalign THEN [Without({n}) EXCEPT ![b] = Joined(b, n)]
                    ELSE IF palign THEN [Without({b}) EXCEPT ![p] = Joined(p, b)]
                    ELSE size
         /\ heap' = IF palign /\ nalign THEN RemoveAt(heap, i + 1)
                    ELSE IF nalign THEN [heap EXCEPT ![i + 1] = b]
                    ELSE IF palign THEN heap
                    ELSE InsertAt(heap, i + 1, b)
  /\ UNCHANGED <<kind, arenas>>

(* With an empty list there is nothing to walk: the block is forgotten. *)
FreeForgotten(b) == heap = <<>> /\ size' = Without({b}) /\ UNCHANGED <<kind, heap, arenas>>

Next == \/ \E s \in Requests : Malloc(s) \/ MallocGrows(s)
        \/ \E b \in Live : FreeFirst(b) \/ FreeAfter(b) \/ FreeForgotten(b)

Spec == Init /\ [][Next]_vars
-----------------------------------------------------------------------------
TypeOK == /\ kind \in Heaps
          /\ \A b \in DOMAIN size : size[b] \in Nat
          /\ ToSet(heap) \subseteq DOMAIN size /\ IsInjective(heap)

(* Whatever has been split and joined, no word belongs to two blocks, free *)
(* or handed out, and every block lies in what the heap was given.         *)
BlocksDisjoint == /\ \A b, c \in DOMAIN size : b # c => Words(b) \cap Words(c) = {}
                  /\ \A b \in DOMAIN size : Words(b) \subseteq UNION {Span(a) : a \in arenas}

(* free() loses a block only if the free list is empty.                    *)
Tracked == UNION {Words(b) : b \in DOMAIN size}
Remembers == heap # <<>> => Tracked \subseteq Tracked'
NothingForgotten == [][Remembers]_vars
=============================================================================
