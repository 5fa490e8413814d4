------------------------------ MODULE EventQueue ------------------------------
(***************************************************************************)
(* src/event/eris.event_queue.c: the queue between the thread that         *)
(* dispatches socket events (eris_event_queue_put) and the worker threads  *)
(* of a slave process (eris_event_queue_get).                              *)
(*                                                                         *)
(* The queue is a ring of Max slots under one mutex, with ONE condition    *)
(* variable that both sides wait on.  A thread is at one of these points   *)
(* of put or get:                                                          *)
(*                                                                         *)
(*   idle       outside the two functions                                  *)
(*   lock       called, before pthread_mutex_lock                          *)
(*   body       holds the mutex, evaluates the loop condition              *)
(*   sleep      in pthread_cond_wait, not yet woken                        *)
(*   relock     woken, pthread_cond_wait wants the mutex back              *)
(*   unwind     cancelled in pthread_cond_wait, wants the mutex back to    *)
(*              run the cleanup handler                                    *)
(*   cleanup    cancelled, holds the mutex, before the cleanup handler     *)
(*   unlock     holds the mutex, work done, before pthread_mutex_unlock    *)
(*   broadcast  mutex released, before pthread_cond_broadcast              *)
(*   dead       cancelled                                                  *)
(*                                                                         *)
(* Only the mutex orders the threads: between two points any other thread  *)
(* may run.                                                                *)
(***************************************************************************)
EXTENDS Integers, Sequences

CONSTANTS Producers,    \* threads that put (the dispatcher of the slave)
          Consumers,    \* threads that get (the workers of the slave)
          Elems,        \* elements: an (fd, event) pair each
          Max,          \* the __max of eris_event_queue_init, when positive
          WaitModes,    \* the values callers pass as __wait
          Cancellable,  \* the threads eris_task_terminate may cancel
          MayDestroy    \* whether eris_event_queue_destroy is ever called

Points == {"idle", "lock", "body", "sleep", "relock", "unwind", "cleanup",
           "unlock", "broadcast", "dead"}
Threads == Producers \cup Consumers
NoElem  == "none"       \* sock = -1, the content of a slot never used
NoOne   == "no one"

ASSUME QueueAssumption ==
  /\ Max \in Nat \ {0}
  /\ Producers \cap Consumers = {}
  /\ NoElem \notin Elems
  /\ NoOne \notin Threads
  /\ WaitModes \subseteq BOOLEAN
  /\ Cancellable \subseteq Consumers
  /\ MayDestroy \in BOOLEAN

VARIABLES
  count, front, near, \* the fields of eris_event_queue_s
  events,             \* the ring
  mutex,              \* the owner of the mutex, or NoOne
  pc,                 \* pc[t]: where thread t is, see above
  wait,               \* wait[t]: its argument __wait
  arg,                \* arg[p]: the element producer p puts
  out,                \* out[c]: the element consumer c was given
  rc,                 \* rc[t]: what the call returns
  cancels,            \* threads with a pthread_cancel pending
  phase,              \* "live", "resetting" (destroy began), "destroyed"
  owed,               \* history: what was queued when destroy began
  closed              \* the elements whose socket destroy closed

ring == <<count, front, near, events>>
vars == <<count, front, near, events, mutex, pc, wait, arg, out, rc,
          cancels, phase, owed, closed>>

Slots == 0 .. Max - 1

(* The queued elements, oldest first: count slots from front on. *)
Contents == [i \in 1 .. count |-> events[(front + i - 1) % Max]]

Init ==
  /\ count = 0 /\ front = 0 /\ near = 0
  /\ events = [i \in Slots |-> NoElem]
  /\ mutex = NoOne
  /\ pc = [t \in Threads |-> "idle"]
  /\ wait = [t \in Threads |-> FALSE]
  /\ arg = [p \in Producers |-> NoElem]
  /\ out = [c \in Consumers |-> NoElem]
  /\ rc = [t \in Threads |-> "OK"]
  /\ cancels = {}
  /\ phase = "live"
  /\ owed = {}
  /\ closed = {}

Goto(t, from, to) ==
  /\ pc[t] = from
  /\ pc' = [pc EXCEPT ![t] = to]

Acquire(t) == mutex = NoOne /\ mutex' = t
Release(t) == mutex = t /\ mutex' = NoOne

(***************************************************************************)
(* The calls.                                                              *)
(***************************************************************************)
CallPut(p, e, w) ==
  /\ phase = "live"
  /\ Goto(p, "idle", "lock")
  /\ arg' = [arg EXCEPT ![p] = e]
  /\ wait' = [wait EXCEPT ![p] = w]
  /\ rc' = [rc EXCEPT ![p] = "OK"]
  /\ UNCHANGED <<ring, mutex, out, cancels, phase, owed, closed>>

CallGet(c, w) ==
  /\ phase # "destroyed"
  /\ Goto(c, "idle", "lock")
  /\ out' = [out EXCEPT ![c] = NoElem]
  /\ wait' = [wait EXCEPT ![c] = w]
  /\ rc' = [rc EXCEPT ![c] = "OK"]
  /\ UNCHANGED <<ring, mutex, arg, cancels, phase, owed, closed>>

Lock(t) ==
  /\ pc[t] \in {"lock", "relock"}
  /\ pc' = [pc EXCEPT ![t] = "body"]
  /\ Acquire(t)
  /\ UNCHANGED <<ring, wait, arg, out, rc, cancels, phase, owed, closed>>

(***************************************************************************)
(* Under the mutex.  PutBlocked and GetBlocked are the conditions of the   *)
(* two while loops.                                                        *)
(***************************************************************************)
(* Mutant of PutBlocked: no slot is left free. *)
PutBlockedNoGap == Max < count + 1

PutBlocked == Max <= count + 1
GetBlocked == count = 0
Blocked(t) == IF t \in Producers THEN PutBlocked ELSE GetBlocked

(* Mutant of Store: near is advanced too early. *)
StoreAdvanceFirst(p) ==
  /\ p \in Producers
  /\ ~PutBlocked
  /\ Goto(p, "body", "unlock")
  /\ events' = [events EXCEPT ![(near + 1) % Max] = arg[p]]
  /\ near' = (near + 1) % Max
  /\ count' = count + 1
  /\ UNCHANGED <<front, mutex, wait, arg, out, rc, cancels, phase, owed, closed>>

Store(p) ==
  /\ p \in Producers
  /\ ~PutBlocked
  /\ Goto(p, "body", "unlock")
  /\ events' = [events EXCEPT ![near] = arg[p]]
  /\ near' = (near + 1) % Max
  /\ count' = count + 1
  /\ UNCHANGED <<front, mutex, wait, arg, out, rc, cancels, phase, owed, closed>>

Fetch(c) ==
  /\ c \in Consumers
  /\ ~GetBlocked
  /\ Goto(c, "body", "unlock")
  /\ out' = [out EXCEPT ![c] = events[front]]
  /\ front' = (front + 1) % Max
  /\ count' = count - 1
  /\ owed' = owed \ {events[front]}
  /\ UNCHANGED <<near, events, mutex, wait, arg, rc, cancels, phase, closed>>

Refuse(t) ==
  /\ Blocked(t)
  /\ ~wait[t]
  /\ Goto(t, "body", "unlock")
  /\ rc' = [rc EXCEPT ![t] = IF t \in Producers THEN "FULL" ELSE "EMPTY"]
  /\ UNCHANGED <<ring, mutex, wait, arg, out, cancels, phase, owed, closed>>

(* pthread_cond_wait: release the mutex and sleep, in one step. *)
Sleep(t) ==
  /\ Blocked(t)
  /\ wait[t]
  /\ Goto(t, "body", "sleep")
  /\ Release(t)
  /\ UNCHANGED <<ring, wait, arg, out, rc, cancels, phase, owed, closed>>

Unlock(t) ==
  /\ Goto(t, "unlock", "broadcast")
  /\ Release(t)
  /\ UNCHANGED <<ring, wait, arg, out, rc, cancels, phase, owed, closed>>

(* Mutants of Broadcast: pthread_cond_signal instead; nothing at all. *)
BroadcastSignal(t) ==
  /\ pc[t] = "broadcast"
  /\ IF \E u \in Threads : pc[u] = "sleep"
     THEN \E u \in {v \in Threads : pc[v] = "sleep"} :
            pc' = [pc EXCEPT ![t] = "idle", ![u] = "relock"]
     ELSE pc' = [pc EXCEPT ![t] = "idle"]
  /\ UNCHANGED <<ring, mutex, wait, arg, out, rc, cancels, phase, owed, closed>>

BroadcastForgotten(t) ==
  /\ Goto(t, "broadcast", "idle")
  /\ UNCHANGED <<ring, mutex, wait, arg, out, rc, cancels, phase, owed, closed>>

(* Every call ends with a broadcast, also one that was refused. *)
Broadcast(t) ==
  /\ pc[t] = "broadcast"
  /\ pc' = [u \in Threads |->
              CASE u = t            -> "idle"
                [] pc[u] = "sleep"  -> "relock"
                [] OTHER            -> pc[u]]
  /\ UNCHANGED <<ring, mutex, wait, arg, out, rc, cancels, phase, owed, closed>>

(* A condition variable may wake a thread for no reason. *)
SpuriousWakeup(t) ==
  /\ Goto(t, "sleep", "relock")
  /\ UNCHANGED <<ring, mutex, wait, arg, out, rc, cancels, phase, owed, closed>>

(***************************************************************************)
(* Cancellation (pthread_cancel of eris_task_terminate).  It is deferred:  *)
(* in put and get the only cancellation point is pthread_cond_wait, which  *)
(* takes the mutex back before the handler of pthread_cleanup_push runs.   *)
(* An idle worker is cancelled in one of the system calls it makes.        *)
(***************************************************************************)
Cancel(t) ==
  /\ t \in Cancellable \ cancels
  /\ cancels' = cancels \cup {t}
  /\ UNCHANGED <<ring, mutex, pc, wait, arg, out, rc, phase, owed, closed>>

CancelIdle(t) ==
  /\ t \in cancels
  /\ Goto(t, "idle", "dead")
  /\ UNCHANGED <<ring, mutex, wait, arg, out, rc, cancels, phase, owed, closed>>

CancelSleep(t) ==
  /\ t \in cancels
  /\ Goto(t, "sleep", "unwind")
  /\ UNCHANGED <<ring, mutex, wait, arg, out, rc, cancels, phase, owed, closed>>

Unwind(t) ==
  /\ Goto(t, "unwind", "cleanup")
  /\ Acquire(t)
  /\ UNCHANGED <<ring, wait, arg, out, rc, cancels, phase, owed, closed>>

(* Mutant of Cleanup: no handler was pushed. *)
CleanupNoHandler(t) ==
  /\ Goto(t, "cleanup", "dead")
  /\ UNCHANGED <<ring, mutex, wait, arg, out, rc, cancels, phase, owed, closed>>

(* The cleanup handler is pthread_mutex_unlock. *)
Cleanup(t) ==
  /\ Goto(t, "cleanup", "dead")
  /\ Release(t)
  /\ UNCHANGED <<ring, wait, arg, out, rc, cancels, phase, owed, closed>>

(***************************************************************************)
(* eris_event_queue_destroy, which the dispatching thread calls itself     *)
(* (erishttp_slave_main): it has no put in progress, the workers are       *)
(* wherever they are.  front and near are reset before the mutex is taken; *)
(* then count slots are closed, from slot 0.  The mutex is destroyed at    *)
(* the end: workers that are still inside are left there (the process      *)
(* exits next).                                                            *)
(***************************************************************************)
DestroyReset ==
  /\ MayDestroy
  /\ phase = "live"
  /\ \A p \in Producers : pc[p] = "idle"
  /\ phase' = "resetting"
  /\ front' = 0 /\ near' = 0
  /\ owed' = {Contents[i] : i \in 1 .. count}
  /\ UNCHANGED <<count, events, mutex, pc, wait, arg, out, rc, cancels, closed>>

DestroyDrain ==
  /\ phase = "resetting"
  /\ mutex = NoOne
  /\ phase' = "destroyed"
  /\ closed' = {events[i] : i \in 0 .. count - 1}
  /\ count' = 0
  /\ events' = [i \in Slots |-> IF i < count THEN NoElem ELSE events[i]]
  /\ UNCHANGED <<front, near, mutex, pc, wait, arg, out, rc, cancels, owed>>

(***************************************************************************)
(* The specification.                                                      *)
(***************************************************************************)
Inside(t) ==
  /\ phase # "destroyed"
  /\ \/ Lock(t) \/ Store(t) \/ Fetch(t) \/ Refuse(t) \/ Sleep(t)
     \/ Unlock(t) \/ Broadcast(t)
     \/ CancelSleep(t) \/ Unwind(t) \/ Cleanup(t)

Next ==
  \/ \E p \in Producers, e \in Elems, w \in WaitModes : CallPut(p, e, w)
  \/ \E c \in Consumers, w \in WaitModes : CallGet(c, w)
  \/ \E t \in Threads : \/ Inside(t)
                        \/ SpuriousWakeup(t)
                        \/ Cancel(t) \/ CancelIdle(t)
  \/ DestroyReset
  \/ DestroyDrain

Spec == Init /\ [][Next]_vars

(* A thread inside put or get is scheduled until it returns or sleeps, and *)
(* a worker calls get again: eris_slave_handler is an endless loop around  *)
(* it.  Nothing makes the dispatcher put.  pthread mutexes are not fair:   *)
(* acquiring one is only weakly fair here.  A thread is woken for no       *)
(* reason only finitely often.                                             *)
FairSpec ==
  /\ Spec
  /\ \A t \in Threads : WF_vars(Inside(t))
  /\ \A c \in Consumers : WF_vars(\E w \in WaitModes : CallGet(c, w))
  /\ <>[][\A t \in Threads : ~SpuriousWakeup(t)]_vars

-----------------------------------------------------------------------------
(* The ring has the shape the fields promise: near is count slots after    *)
(* front, and one slot always stays free (the loop condition of put).      *)
Ring ==
  /\ count <= Max - 1
  /\ phase = "live" => near = (front + count) % Max

TypeOK ==
  /\ count \in Nat
  /\ front \in Slots /\ near \in Slots
  /\ events \in [Slots -> Elems \cup {NoElem}]
  /\ mutex \in Threads \cup {NoOne}
  /\ pc \in [Threads -> Points]
  /\ wait \in [Threads -> BOOLEAN]
  /\ arg \in [Producers -> Elems \cup {NoElem}]
  /\ out \in [Consumers -> Elems \cup {NoElem}]
  /\ rc \in [Threads -> {"OK", "FULL", "EMPTY"}]
  /\ cancels \subseteq Cancellable
  /\ phase \in {"live", "resetting", "destroyed"}
  /\ owed \subseteq Elems \cup {NoElem}
  /\ closed \subseteq Elems \cup {NoElem}

(* The mutex is held by exactly the thread that is in a critical section:  *)
(* in particular a worker cancelled in pthread_cond_wait has given it back *)
(* before it dies (the handler of pthread_cleanup_push).                   *)
Critical == {"body", "unlock", "cleanup"}

MutexHeldInside ==
  \A t \in Threads : mutex = t <=> pc[t] \in Critical

(* No wakeup is lost, although producers and consumers sleep on the same   *)
(* condition variable and the broadcast is sent after the mutex is         *)
(* released: if a thread sleeps while the condition it sleeps on is false, *)
(* some thread of the other side has yet to send its broadcast.            *)
Notifying(S) == \E t \in S : pc[t] \in {"unlock", "broadcast"}

NoLostWakeup ==
  phase = "live" =>
    /\ (\E c \in Consumers : pc[c] = "sleep") /\ ~GetBlocked => Notifying(Producers)
    /\ (\E p \in Producers : pc[p] = "sleep") /\ ~PutBlocked => Notifying(Consumers)

(* The abstract queue, seen through the ring. *)
FifoContents == IF phase = "live" THEN Contents ELSE <<>>
FifoTaken == [c \in Consumers |-> IF out[c] = NoElem THEN "nothing" ELSE out[c]]

Fifo == INSTANCE BoundedFifo WITH
  Takers   <- Consumers,
  Capacity <- Max - 1,
  contents <- FifoContents,
  taken    <- FifoTaken,
  open     <- phase = "live"

(* Put and get implement the abstract FIFO of Max - 1 elements: each       *)
(* element that is put is given to one worker, in the order of the puts.   *)
ImplementsFifo == Fifo!Spec

(* The oldest element is eventually taken, whatever the scheduler does     *)
(* with the other threads and even if other workers are cancelled.         *)
HeadIsTaken ==
  \A i \in Slots :
    (phase = "live" /\ count > 0 /\ front = i) ~> (front # i \/ phase # "live")

(* A dispatcher that waits for room eventually has its element queued.     *)
BlockedPutReturns ==
  \A p \in Producers : (pc[p] = "sleep") ~> (pc[p] = "idle" \/ phase # "live")

(* eris_event_queue_destroy closes the sockets that are in the queue when  *)
(* it begins (but for those a worker still takes), and no other.           *)
DestroyClosesQueued ==
  phase = "destroyed" => closed = owed
=============================================================================
