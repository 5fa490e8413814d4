--------------------------------- MODULE EList ---------------------------------
(***************************************************************************)
(* A list of src/core/eris.list.c in use: any sequence of the calls its    *)
(* header offers.  Nothing here is concurrent: eris_list_lock is for the   *)
(* caller to take (ModuleRegistry does), and no operation takes it.        *)
(*                                                                         *)
(* An operation that would follow a pointer to freed memory is undefined:  *)
(* the model stops there, in a state that NoDangling denies.               *)
(***************************************************************************)
EXTENDS LinkedList, Integers

CONSTANTS Prio,    \* the priorities callers pass
          Ops      \* the operations callers use besides push and push_back

ASSUME PrioAssumption == Prio \subseteq Int

(* The operations that leave the list whole.  pop_back of the last element *)
(* leaves head, and erase of an element in the middle leaves its           *)
(* neighbours, pointing to freed memory.                                   *)
WholeOps == {"pop", "pop_back", "erase_end"}

VARIABLE list

Defined == NoDangling(list)

Init == \E enable_prio \in BOOLEAN : list = EmptyList(enable_prio)

DoPush(n, p) ==
  /\ Defined /\ n \notin list.allocated
  /\ list' \in {Push(list, n, p), PushBack(list, n, p)}

DoPop ==
  /\ "pop" \in Ops
  /\ Defined /\ list.head # Null
  /\ list' = Pop(list)

DoPopBack ==
  /\ (IF list.size = 1 THEN "pop_back_last" ELSE "pop_back") \in Ops
  /\ Defined /\ list.tail # Null
  /\ list' = PopBack(list)

(* The caller names a node; erase and remove look for it from the tail. *)
DoErase(n) ==
  /\ (IF n \in {list.head, list.tail} THEN "erase_end" ELSE "erase_middle") \in Ops
  /\ Defined /\ \E i \in DOMAIN Backward(list) : Backward(list)[i] = n
  /\ list' = Erase(list, n)

DoCleanup ==
  /\ Defined
  /\ list' = Cleaned(list)

Next ==
  \/ \E n \in Node, p \in Prio : DoPush(n, p)
  \/ DoPop
  \/ DoPopBack
  \/ \E n \in Node : DoErase(n)
  \/ DoCleanup

Spec == Init /\ [][Next]_list

-----------------------------------------------------------------------------
TypeOK ==
  /\ list.enable_prio \in BOOLEAN
  /\ list.head \in Node \cup {Null} /\ list.tail \in Node \cup {Null}
  /\ list.size \in 0 .. Cardinality(Node)
  /\ list.allocated \subseteq Node
  /\ list.prio \in [Node -> Prio \cup {0}]
  /\ list.prev \in [Node -> Node \cup {Null}]
  /\ list.next \in [Node -> Node \cup {Null}]

(* With priorities it does not matter which end an element is pushed from: *)
(* push looks for its place from the head, push_back from the tail.        *)
PushesAgree ==
  list.enable_prio =>
    \A n \in Node \ list.allocated, p \in Prio :
      Push(list, n, p) = PushBack(list, n, p)

(* No link leads to freed memory.  The chain of next links and the chain   *)
(* of prev links hold the same nodes, in opposite orders, and all of them: *)
(* find, which walks one, and erase, which walks the other, and size speak *)
(* of the same list.  And both pushes would put an element where it        *)
(* belongs.                                                                *)
ChainsAgree ==
  LET f == Forward(list)
      b == Backward(list)
  IN  /\ NoDangling(list)
      /\ Len(f) = list.size /\ Len(b) = list.size
      /\ {f[i] : i \in DOMAIN f} = list.allocated
      /\ \A i \in DOMAIN f : b[list.size + 1 - i] = f[i]
      /\ PushesAgree

(* The sequence its users think of, ordered by priority. *)
Sequence == INSTANCE PriorityList WITH
  Item <- Node, Priority <- Prio,
  items <- Forward(list), rank <- list.prio, sorted <- list.enable_prio

(* A pop takes the element at its end, an erase the element named, and the *)
(* others stay in their order.                                             *)
TakesTheRightOne ==
  [][/\ DoPop => Forward(list') = Tail(Forward(list))
     /\ DoPopBack => Forward(list') = SubSeq(Forward(list), 1, Len(Forward(list)) - 1)
     /\ \A n \in Node : DoErase(n) => Sequence!Take(n)]_list

(* The list is that sequence, and takes from it what it was asked for. *)
ImplementsSequence == Sequence!Spec /\ TakesTheRightOne
=============================================================================
