----------------------------- MODULE PriorityList -----------------------------
(***************************************************************************)
(* What a list of eris.list.c promises its users: a sequence.  With        *)
(* priorities the higher come first and equals keep the order in which     *)
(* they arrived; without, push adds at the front and push_back at the end. *)
(***************************************************************************)
EXTENDS Naturals, Sequences, SequencesExt

CONSTANTS Item, Priority

VARIABLES items,   \* the data, in the order an iterator meets it
          rank,    \* rank[x]: the priority of x when it was added
          sorted   \* whether the list uses priorities

plVars == <<items, rank, sorted>>

Init ==
  /\ items = <<>>
  /\ rank = [x \in Item |-> 0]
  /\ sorted \in BOOLEAN

Fresh(x) == x \notin ToSet(items)

(* After everything that is not of a lower priority. *)
AddSorted(x, p) ==
  /\ sorted
  /\ Fresh(x)
  /\ \E i \in 0 .. Len(items) :
       /\ \A j \in 1 .. i : rank[items[j]] >= p
       /\ \A j \in i + 1 .. Len(items) : rank[items[j]] < p
       /\ items' = InsertAt(items, i + 1, x)
  /\ rank' = [rank EXCEPT ![x] = p]
  /\ UNCHANGED sorted

AddAtEnd(x) ==
  /\ ~sorted
  /\ Fresh(x)
  /\ items' \in {<<x>> \o items, items \o <<x>>}
  /\ rank' = [rank EXCEPT ![x] = 0]
  /\ UNCHANGED sorted

(* Taking one out leaves the others in their order. *)
Take(x) ==
  /\ \E i \in 1 .. Len(items) : items[i] = x /\ items' = RemoveAt(items, i)
  /\ rank' = [rank EXCEPT ![x] = 0]
  /\ UNCHANGED sorted

Clear ==
  /\ items' = <<>>
  /\ rank' = [x \in Item |-> 0]
  /\ UNCHANGED sorted

Next ==
  \/ \E x \in Item : \/ \E p \in Priority : AddSorted(x, p)
                     \/ AddAtEnd(x)
                     \/ Take(x)
  \/ Clear

Spec == Init /\ [][Next]_plVars
=============================================================================
