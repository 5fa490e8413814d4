------------------------------ MODULE LinkedList ------------------------------
(***************************************************************************)
(* src/core/eris.list.c as operators: the doubly linked list that holds    *)
(* the service modules, the MIME types and the parts of a transform.  A    *)
(* list is a record with the fields of eris_list_s and, for the heap its   *)
(* nodes live in, the set of nodes that are allocated and their links.     *)
(* The links are kept as they are in memory: they may point to a node that *)
(* was freed.  The data of a node is the node itself.                      *)
(***************************************************************************)
EXTENDS Naturals, FiniteSets, FiniteSetsExt, Sequences

CONSTANTS Node,   \* the nodes malloc may hand out
          Null    \* the null pointer

ASSUME NodeAssumption == IsFiniteSet(Node) /\ Null \notin Node

EmptyList(enable_prio) ==
  [enable_prio |-> enable_prio, head |-> Null, tail |-> Null, size |-> 0,
   allocated |-> {},
   prio |-> [n \in Node |-> 0],
   prev |-> [n \in Node |-> Null],
   next |-> [n \in Node |-> Null]]

(* The nodes met from node n on, following a link (next or prev).          *)
Path(n, link) ==
  LET at[i \in 0 .. Cardinality(Node)] ==
        IF i = 0 THEN n
        ELSE IF at[i - 1] = Null THEN Null ELSE link[at[i - 1]]
  IN  at

(* The first node of a path that passes the test, or Null. *)
FirstOn(path, Test(_)) ==
  LET hits == {i \in DOMAIN path : path[i] # Null /\ Test(path[i])}
  IN  IF hits = {} THEN Null ELSE path[Min(hits)]

(* Writing through a pointer that may be null, as the code guards it. *)
SetLink(link, n, value) == IF n = Null THEN link ELSE [link EXCEPT ![n] = value]

(* eris_list_create_node *)
Created(l, n, prio) ==
  [l EXCEPT !.allocated = @ \cup {n}, !.prio[n] = prio,
            !.prev[n] = Null, !.next[n] = Null]

(* eris_memory_free of a node: what its memory holds afterwards is nobody's *)
(* business, no state in which it could be read is left.                   *)
Freed(l, n) ==
  [l EXCEPT !.allocated = @ \ {n}, !.size = @ - 1,
            !.prio[n] = 0, !.prev[n] = Null, !.next[n] = Null]

LinkedBefore(l, n, cur) ==
  [l EXCEPT !.prev = [SetLink(@, cur, n) EXCEPT ![n] = l.prev[cur]],
            !.next = [SetLink(@, l.prev[cur], n) EXCEPT ![n] = cur],
            !.head = IF cur = l.head THEN n ELSE @]

LinkedAfter(l, n, cur) ==
  [l EXCEPT !.next = [SetLink(@, cur, n) EXCEPT ![n] = l.next[cur]],
            !.prev = [SetLink(@, l.next[cur], n) EXCEPT ![n] = cur],
            !.tail = IF cur = l.tail THEN n ELSE @]

Only(l, n) == [l EXCEPT !.head = n, !.tail = n]

(* Mutant of FirstLower: an equal priority is overtaken. *)
FirstLowerOrEqual(l, prio) ==
  LET Lower(m) == l.prio[m] <= prio IN FirstOn(Path(l.head, l.next), Lower)

FirstLower(l, prio) ==
  LET Lower(m) == l.prio[m] < prio IN FirstOn(Path(l.head, l.next), Lower)

LastNotLower(l, prio) ==
  LET NotLower(m) == l.prio[m] >= prio IN FirstOn(Path(l.tail, l.prev), NotLower)

(* eris_list_push: before the first node of a lower priority, or at the    *)
(* head of a list without priorities.                                      *)
Push(list, n, prio) ==
  LET l   == [Created(list, n, IF list.enable_prio THEN prio ELSE 0) EXCEPT !.size = @ + 1]
      cur == IF l.enable_prio THEN FirstLower(l, prio) ELSE l.head
  IN  IF l.head = Null THEN Only(l, n)
      ELSE IF cur # Null THEN LinkedBefore(l, n, cur)
      ELSE LinkedAfter(l, n, l.tail)

(* eris_list_push_back: after the last node whose priority is not lower,   *)
(* or at the tail of a list without priorities.                            *)
PushBack(list, n, prio) ==
  LET l   == [Created(list, n, IF list.enable_prio THEN prio ELSE 0) EXCEPT !.size = @ + 1]
      cur == IF l.enable_prio THEN LastNotLower(l, prio) ELSE l.tail
  IN  IF l.tail = Null THEN Only(l, n)
      ELSE IF cur # Null THEN LinkedAfter(l, n, cur)
      ELSE LinkedBefore(l, n, l.head)

(* Mutant of Pop: the new head keeps its link to the freed one. *)
PopKeepsLink(l) ==
  IF l.size = 1
  THEN [Freed(l, l.head) EXCEPT !.head = Null, !.tail = Null]
  ELSE [Freed(l, l.head) EXCEPT !.head = l.next[l.head]]

(* eris_list_pop, on a list with a head. *)
Pop(l) ==
  IF l.size = 1
  THEN [Freed(l, l.head) EXCEPT !.head = Null, !.tail = Null]
  ELSE [Freed(l, l.head) EXCEPT !.head = l.next[l.head],
                                !.prev[l.next[l.head]] = Null]

(* eris_list_pop_back, on a list with a tail.  The pointer that            *)
(* eris_list_delete_node clears is the one it was given: for the last node *)
(* that is tail, and head is left as it was.                               *)
PopBack(l) ==
  IF l.size = 1
  THEN [Freed(l, l.tail) EXCEPT !.tail = Null]
  ELSE [Freed(l, l.tail) EXCEPT !.tail = l.prev[l.tail],
                                !.next[l.prev[l.tail]] = Null]

(* eris_list_erase and eris_list_remove of the node n they found, from the *)
(* tail: head and tail are moved, the neighbours of a node in the middle   *)
(* are not linked with each other.                                         *)
HeadLeft(l, n) == IF n = l.head
                  THEN [l EXCEPT !.head = l.next[n], !.prev = SetLink(@, l.next[n], Null)]
                  ELSE l

TailLeft(l, n) == IF n = l.tail
                  THEN [l EXCEPT !.tail = l.prev[n], !.next = SetLink(@, l.prev[n], Null)]
                  ELSE l

Erase(l, n) == Freed(TailLeft(HeadLeft(l, n), n), n)

(* eris_list_cleanup *)
Cleaned(l) == EmptyList(l.enable_prio)

-----------------------------------------------------------------------------
(* Where eris_list_iter_next leads from node n; eris_list_iter_prev leads  *)
(* there, too.                                                             *)
IterNext(l, n) == l.next[n]

(* What an iterator meets: eris_list_iter_next from the head on. *)
Forward(l)  == LET p == Path(l.head, l.next)
               IN  [i \in 1 .. Cardinality({j \in DOMAIN p : p[j] # Null}) |-> p[i - 1]]

(* What find, rfind, remove and erase meet, from the tail on. *)
Backward(l) == LET p == Path(l.tail, l.prev)
               IN  [i \in 1 .. Cardinality({j \in DOMAIN p : p[j] # Null}) |-> p[i - 1]]

(* No pointer the list follows leads to freed memory. *)
NoDangling(l) ==
  LET Valid(p) == p = Null \/ p \in l.allocated
  IN  /\ Valid(l.head) /\ Valid(l.tail)
      /\ \A n \in l.allocated : Valid(l.next[n]) /\ Valid(l.prev[n])
=============================================================================
