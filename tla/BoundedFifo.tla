------------------------------ MODULE BoundedFifo ------------------------------
(***************************************************************************)
(* What eris_event_queue promises to the dispatcher and to the worker      *)
(* threads: a FIFO of at most Capacity elements, from which every element  *)
(* that was put is taken once, in the order of the puts, by one thread.    *)
(* It knows nothing of the ring, of the mutex or of the condition          *)
(* variable.  After Close (eris_event_queue_destroy) nothing is promised.  *)
(***************************************************************************)
EXTENDS Naturals, Sequences

CONSTANTS Elems,     \* what is put: an (fd, event) pair of the dispatcher
          Takers,    \* the threads that take elements
          Capacity   \* how many elements fit

VARIABLES contents,  \* the elements that were put and not taken, oldest first
          taken,     \* taken[t]: what the last successful get gave thread t
          open       \* FALSE once the queue is being destroyed

fifoVars == <<contents, taken, open>>

Init ==
  /\ contents = <<>>
  /\ taken \in [Takers -> Elems \cup {"nothing"}]
  /\ open = TRUE

Put(e) ==
  /\ open
  /\ Len(contents) < Capacity
  /\ contents' = Append(contents, e)
  /\ UNCHANGED <<taken, open>>

Take(t) ==
  /\ open
  /\ contents # <<>>
  /\ taken' = [taken EXCEPT ![t] = Head(contents)]
  /\ contents' = Tail(contents)
  /\ UNCHANGED open

(* A thread that starts a new get forgets what the previous one gave it. *)
Forget(t) ==
  /\ taken' = [taken EXCEPT ![t] = "nothing"]
  /\ UNCHANGED <<contents, open>>

Close ==
  /\ open
  /\ open' = FALSE
  /\ contents' = <<>>
  /\ UNCHANGED taken

AfterClose ==
  /\ ~open
  /\ UNCHANGED <<contents, open>>

Next ==
  \/ \E e \in Elems : Put(e)
  \/ \E t \in Takers : Take(t) \/ Forget(t)
  \/ Close
  \/ AfterClose

Spec == Init /\ [][Next]_fifoVars
=============================================================================
