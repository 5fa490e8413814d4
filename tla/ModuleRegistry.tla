---------------------------- MODULE ModuleRegistry ----------------------------
(***************************************************************************)
(* src/core/eris.module.c: the table of service modules that the worker    *)
(* threads of a slave search and execute from (eris_module_exec) and that  *)
(* eris_module_add, _erase and _update change.  It is a list ordered by    *)
(* the size of the patterns, a spinlock (the lock of the list,             *)
(* eris.spinlock.c) and two fields: used counts the threads that read the  *)
(* list, update says that one is about to change it.                       *)
(*                                                                         *)
(* A worker in eris_module_exec is at                                      *)
(*   idle    outside            lock    spins on the lock, to register     *)
(*   enter   holds the lock, tests update                                  *)
(*   entered holds the lock, used counted                                  *)
(*   search  walks the list, without the lock                              *)
(*   serve   runs the service of the element it found                      *)
(*   relock  spins on the lock, to sign off                                *)
(*   leave   holds the lock, used not yet counted down                     *)
(*   left    holds the lock, used counted down                             *)
(* and a thread that changes the table at                                  *)
(*   idle, lock                                                            *)
(*   mark    holds the lock, update not yet set                            *)
(*   wait    holds the lock, spins until used is 0                         *)
(*   change  holds the lock, nobody reads                                  *)
(*   left    holds the lock, update cleared                                *)
(* What an element is loaded from and what its service does are choices.   *)
(***************************************************************************)
EXTENDS LinkedList, Integers

CONSTANTS Workers,   \* threads that call eris_module_exec
          Admins,    \* threads that call add, erase or update
          Paths,     \* the request paths
          Name,      \* Name[n]: the module name of element n
          Prio,      \* Prio[n]: the size of its pattern
          Matched,   \* Matched[n]: the paths its pattern matches
          Native,    \* the elements whose language is C or C++
          Initial    \* the elements erishttp_module_init adds at startup

Threads == Workers \cup Admins

ASSUME RegistryAssumption ==
  /\ IsFiniteSet(Workers)
  /\ Workers \cap Admins = {}
  /\ Prio \in [Node -> Nat]
  /\ Matched \in [Node -> SUBSET Paths]
  /\ Native \subseteq Node

(* Every element is an allocation of its own. *)
ASSUME InitialAssumption ==
  /\ Initial \in Seq(Node)
  /\ \A i, j \in 1 .. Len(Initial) : Initial[i] = Initial[j] => i = j

VARIABLES
  list,     \* the list of elements
  locked,   \* the spinlock: the pid of the process, the same for all threads
  update,   \* the field update
  used,     \* the field used
  pc,       \* pc[t]: where thread t is
  path,     \* path[w]: the request path worker w executes
  iter,     \* iter[w]: the iterator of worker w
  elem,     \* elem[w]: the element worker w found
  rc,       \* rc[w]: what eris_module_exec returns
  jobs      \* jobs[a]: the changes thread a has still to make

vars == <<list, locked, update, used, pc, path, iter, elem, rc, jobs>>

WorkerPoints == {"idle", "lock", "enter", "entered", "search", "serve",
                 "relock", "leave", "left"}
AdminPoints  == {"idle", "lock", "mark", "wait", "change", "left"}
Results == {"OK", "SERVICE", "NOTFOUND", "NOSUCH", "UNSUPPORT"}

Loaded(elements) ==
  LET l[i \in 0 .. Len(elements)] ==
        IF i = 0 THEN EmptyList(TRUE)
        ELSE Push(l[i - 1], elements[i], Prio[elements[i]])
  IN  l[Len(elements)]

Init ==
  /\ list = Loaded(Initial)
  /\ locked = FALSE /\ update = FALSE /\ used = 0
  /\ pc = [t \in Threads |-> "idle"]
  /\ path \in [Workers -> Paths]
  /\ iter = [w \in Workers |-> Null]
  /\ elem = [w \in Workers |-> Null]
  /\ rc = [w \in Workers |-> "OK"]
  /\ jobs = [a \in Admins |-> <<>>]

Goto(t, from, to) ==
  /\ pc[t] = from
  /\ pc' = [pc EXCEPT ![t] = to]

(***************************************************************************)
(* The spinlock.  Compare-and-swap takes it, and release stores 0 whoever  *)
(* holds it: all threads compare with the same pid.                        *)
(***************************************************************************)
Acquired(t) ==
  IF t \in Admins THEN "mark" ELSE IF pc[t] = "lock" THEN "enter" ELSE "leave"

(* Mutant of Acquire: test and set are two steps, so the test says nothing. *)
AcquireTorn(t) ==
  /\ pc[t] \in {"lock", "relock"}
  /\ locked' = TRUE
  /\ pc' = [pc EXCEPT ![t] = Acquired(t)]
  /\ UNCHANGED <<list, update, used, path, iter, elem, rc, jobs>>

Acquire(t) ==
  /\ pc[t] \in {"lock", "relock"}
  /\ ~locked
  /\ locked' = TRUE
  /\ pc' = [pc EXCEPT ![t] = Acquired(t)]
  /\ UNCHANGED <<list, update, used, path, iter, elem, rc, jobs>>

(***************************************************************************)
(* eris_module_exec.                                                       *)
(***************************************************************************)
Exec(w, p) ==
  /\ Goto(w, "idle", "lock")
  /\ path' = [path EXCEPT ![w] = p]
  /\ rc' = [rc EXCEPT ![w] = "OK"]
  /\ elem' = [elem EXCEPT ![w] = Null]
  /\ UNCHANGED <<list, locked, update, used, iter, jobs>>

(* while ( update) pause; used += 1 *)
Enter(w) ==
  /\ ~update
  /\ Goto(w, "enter", "entered")
  /\ used' = used + 1
  /\ UNCHANGED <<list, locked, update, path, iter, elem, rc, jobs>>

(* Mutant of Entered: the lock is kept. *)
EnteredStillHolding(w) ==
  /\ Goto(w, "entered", "search")
  /\ iter' = [iter EXCEPT ![w] = list.head]
  /\ UNCHANGED <<list, locked, update, used, path, elem, rc, jobs>>

(* Unlock, then start at the head. *)
Entered(w) ==
  /\ Goto(w, "entered", "search")
  /\ locked' = FALSE
  /\ iter' = [iter EXCEPT ![w] = list.head]
  /\ UNCHANGED <<list, update, used, path, elem, rc, jobs>>

Hit(w) == iter[w] # Null /\ path[w] \in Matched[iter[w]]

(* One turn of the loop over the elements. *)
SearchOn(w) ==
  /\ pc[w] = "search"
  /\ iter[w] # Null /\ ~Hit(w)
  /\ iter' = [iter EXCEPT ![w] = IterNext(list, @)]
  /\ UNCHANGED <<list, locked, update, used, pc, path, elem, rc, jobs>>

SearchHit(w) ==
  /\ Hit(w)
  /\ Goto(w, "search", "serve")
  /\ elem' = [elem EXCEPT ![w] = iter[w]]
  /\ iter' = [iter EXCEPT ![w] = IterNext(list, @)]
  /\ UNCHANGED <<list, locked, update, used, path, rc, jobs>>

SearchEnd(w) ==
  /\ iter[w] = Null
  /\ Goto(w, "search", "relock")
  /\ rc' = [rc EXCEPT ![w] = "NOTFOUND"]
  /\ UNCHANGED <<list, locked, update, used, path, iter, elem, jobs>>

(* dlopen, dlsym and the service itself, with the element in hand.         *)
Served(n) ==
  IF n \in Native THEN {"OK", "SERVICE", "NOTFOUND", "NOSUCH"} ELSE {"UNSUPPORT"}

Serve(w) ==
  /\ Goto(w, "serve", "relock")
  /\ \E r \in Served(elem[w]) : rc' = [rc EXCEPT ![w] = r]
  /\ iter' = [iter EXCEPT ![w] = Null]
  /\ UNCHANGED <<list, locked, update, used, path, elem, jobs>>

(* Mutant of Leave: used is not counted down. *)
LeaveNoCount(w) ==
  /\ Goto(w, "leave", "left")
  /\ UNCHANGED <<list, locked, update, used, path, iter, elem, rc, jobs>>

Leave(w) ==
  /\ Goto(w, "leave", "left")
  /\ used' = used - 1
  /\ UNCHANGED <<list, locked, update, path, iter, elem, rc, jobs>>

(***************************************************************************)
(* eris_module_add, eris_module_erase and eris_module_update, which is an  *)
(* erase and an add, with the lock released in between.                    *)
(***************************************************************************)
Adding(n)  == <<"add", n>>
Erasing(n) == <<"erase", n>>

Request(a, todo) ==
  /\ Goto(a, "idle", "lock")
  /\ jobs' = [jobs EXCEPT ![a] = todo]
  /\ UNCHANGED <<list, locked, update, used, path, iter, elem, rc>>

Mark(a) ==
  /\ Goto(a, "mark", "wait")
  /\ update' = TRUE
  /\ UNCHANGED <<list, locked, used, path, iter, elem, rc, jobs>>

(* Mutant of Wait: no waiting. *)
WaitNot(a) ==
  /\ Goto(a, "wait", "change")
  /\ UNCHANGED <<list, locked, update, used, path, iter, elem, rc, jobs>>

Wait(a) ==
  /\ used = 0
  /\ Goto(a, "wait", "change")
  /\ UNCHANGED <<list, locked, update, used, path, iter, elem, rc, jobs>>

(* The element with the given name that is met first from the tail. *)
Victim(name) ==
  LET Named(m) == Name[m] = name IN FirstOn(Path(list.tail, list.prev), Named)

(* Mutant of Changed: elements are added without their priority. *)
ChangedNoPrio(op, n) ==
  LET victim == Victim(Name[n])
  IN  CASE op = "add"                      -> Push(list, n, 0)
        [] op = "erase" /\ victim = Null   -> list
        [] op = "erase" /\ victim # Null   -> Erase(list, victim)

(* The result of a change. *)
Changed(op, n) ==
  LET victim == Victim(Name[n])
  IN  CASE op = "add"                      -> Push(list, n, Prio[n])
        [] op = "erase" /\ victim = Null   -> list
        [] op = "erase" /\ victim # Null   -> Erase(list, victim)

Change(a) ==
  /\ NoDangling(list)
  /\ Goto(a, "change", "left")
  /\ list' = Changed(Head(jobs[a])[1], Head(jobs[a])[2])
  /\ update' = FALSE
  /\ UNCHANGED <<locked, used, path, iter, elem, rc, jobs>>

(* eris_list_unlock at the end of every operation. *)
Unlock(t) ==
  /\ pc[t] = "left"
  /\ locked' = FALSE
  /\ jobs' = IF t \in Admins THEN [jobs EXCEPT ![t] = Tail(@)] ELSE jobs
  /\ pc' = [pc EXCEPT ![t] = IF t \in Admins /\ Len(jobs[t]) > 1 THEN "lock" ELSE "idle"]
  /\ UNCHANGED <<list, update, used, path, iter, elem, rc>>

-----------------------------------------------------------------------------
(* An element is added once at a time: it is a fresh allocation. *)
Free(n) == n \notin list.allocated /\ \A a \in Admins : jobs[a] = <<>>

WorkerStep(w) ==
  \/ Acquire(w) \/ Enter(w) \/ Entered(w)
  \/ SearchOn(w) \/ SearchHit(w) \/ SearchEnd(w) \/ Serve(w)
  \/ Leave(w) \/ Unlock(w)

AdminStep(a) == Acquire(a) \/ Mark(a) \/ Wait(a) \/ Change(a) \/ Unlock(a)

Next ==
  \/ \E w \in Workers : WorkerStep(w) \/ \E p \in Paths : Exec(w, p)
  \/ \E a \in Admins :
       \/ AdminStep(a)
       \/ \E n \in Node : \/ Free(n) /\ Request(a, <<Adding(n)>>)
                          \/ Request(a, <<Erasing(n)>>)
                          \/ Free(n) /\ Request(a, <<Erasing(n), Adding(n)>>)

Spec == Init /\ [][Next]_vars

(* A thread that is in one of the functions runs; that a service returns   *)
(* is an assumption about the service.                                     *)
FairSpec ==
  /\ Spec
  /\ \A w \in Workers : WF_vars(WorkerStep(w))
  /\ \A a \in Admins : WF_vars(AdminStep(a))

-----------------------------------------------------------------------------
Reading(w) == pc[w] \in {"entered", "search", "serve", "relock", "leave"}
Readers == {w \in Workers : Reading(w)}

Inside(t) == IF t \in Admins THEN pc[t] \in {"mark", "wait", "change", "left"}
             ELSE pc[t] \in {"enter", "entered", "leave", "left"}

TypeOK ==
  /\ list.allocated \subseteq Node
  /\ locked \in BOOLEAN /\ update \in BOOLEAN
  /\ used \in Nat
  /\ DOMAIN pc = Threads
  /\ \A w \in Workers : pc[w] \in WorkerPoints
  /\ \A a \in Admins : pc[a] \in AdminPoints
  /\ path \in [Workers -> Paths]
  /\ iter \in [Workers -> Node \cup {Null}]
  /\ elem \in [Workers -> Node \cup {Null}]
  /\ rc \in [Workers -> Results]

(* The spinlock excludes, although its release does not know the holder.   *)
Exclusive ==
  /\ \A t, u \in Threads : Inside(t) /\ Inside(u) => t = u
  /\ \A t \in Threads : Inside(t) => locked

(* used is the number of threads that may read the list. *)
UsedCounts == used = Cardinality(Readers)

(* update is only set while its thread holds the lock: eris_module_exec    *)
(* never finds it set, and no reader has to spin with the lock held.       *)
UpdateUnderLock ==
  update => \E a \in Admins : pc[a] \in {"wait", "change"}

(* The list does not change while a worker reads it. *)
StillWhileRead == [][list' # list => Readers = {}]_vars

(* A worker never has an element, or an iterator on one, that was freed.   *)
ElementsLive ==
  \A w \in Workers :
    /\ pc[w] \in {"search", "serve"} => iter[w] \in list.allocated \cup {Null}
    /\ pc[w] = "serve" => elem[w] \in list.allocated

(* The module that serves a path is, of those whose pattern matches, the   *)
(* one with the longest pattern.                                           *)
LongestServes ==
  \A w \in Workers : pc[w] = "serve" =>
    \A n \in list.allocated : path[w] \in Matched[n] => Prio[n] <= Prio[elem[w]]

(* As long as nobody changes the table, requests are answered: while a     *)
(* worker is in eris_module_exec, one of them returns again and again.     *)
ExecsReturn ==
  \/ <>(\E a \in Admins : pc[a] # "idle")
  \/ []<><<\E w \in Workers : Unlock(w)>>_vars
  \/ <>[](\A w \in Workers : pc[w] = "idle")
=============================================================================
