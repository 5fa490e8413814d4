------------------------- MODULE ModuleRegistryProofs -------------------------
(***************************************************************************)
(* Proofs about the module table for any number of workers, of threads     *)
(* that change it and of elements: the spinlock excludes, used counts the  *)
(* readers, update is never seen, and the list stands still under readers. *)
(***************************************************************************)
EXTENDS ModuleRegistry, ListProofs

(* The types the argument needs; the list may be anything. *)
Types ==
  /\ locked \in BOOLEAN /\ update \in BOOLEAN
  /\ used \in Nat
  /\ pc \in [Threads -> WorkerPoints \cup AdminPoints]
  /\ \A w \in Workers : pc[w] \in WorkerPoints
  /\ \A a \in Admins : pc[a] \in AdminPoints

(* Who got past wait has no reader left. *)
NoReaderAtChange == \A a \in Admins : pc[a] = "change" => used = 0

IInv ==
  /\ Types
  /\ Exclusive
  /\ UsedCounts
  /\ UpdateUnderLock
  /\ NoReaderAtChange

LEMMA Disjoint == \A w \in Workers : w \notin Admins
BY RegistryAssumption

LEMMA ReadersFinite == IsFiniteSet(Readers) /\ Cardinality(Readers) \in Nat
<1>1. Readers \subseteq Workers
  BY DEF Readers
<1>2. IsFiniteSet(Readers)
  BY <1>1, RegistryAssumption, FS_Subset
<1> QED
  BY <1>2, FS_CardinalityType

(* A thread that goes from one point to another moves only itself. *)
LEMMA Moved ==
  ASSUME Types, NEW t \in Threads, NEW from, NEW to \in WorkerPoints \cup AdminPoints,
         Goto(t, from, to), t \in Workers => to \in WorkerPoints,
         t \in Admins => to \in AdminPoints
  PROVE  /\ pc[t] = from /\ pc'[t] = to
         /\ \A u \in Threads \ {t} : pc'[u] = pc[u]
         /\ pc' \in [Threads -> WorkerPoints \cup AdminPoints]
         /\ \A w \in Workers : pc'[w] \in WorkerPoints
         /\ \A a \in Admins : pc'[a] \in AdminPoints
BY Disjoint DEF Types, Goto, Threads

(* The set of readers after a step of one thread. *)
LEMMA ReadersKept ==
  ASSUME Types, NEW t \in Threads,
         \A u \in Threads \ {t} : pc'[u] = pc[u],
         t \in Workers => (Reading(t) <=> Reading(t)')
  PROVE  Readers' = Readers
BY DEF Readers, Reading, Threads

LEMMA ReaderJoins ==
  ASSUME Types, UsedCounts, NEW w \in Workers,
         \A u \in Threads \ {w} : pc'[u] = pc[u],
         ~Reading(w), Reading(w)', used' = used + 1
  PROVE  UsedCounts'
<1>1. Readers' = Readers \cup {w}
  BY DEF Readers, Reading, Threads
<1>2. w \notin Readers
  BY DEF Readers
<1>3. Cardinality(Readers \cup {w}) = Cardinality(Readers) + 1
  BY <1>2, ReadersFinite, FS_AddElement
<1> QED
  BY <1>1, <1>3 DEF UsedCounts

LEMMA ReaderLeaves ==
  ASSUME Types, UsedCounts, NEW w \in Workers,
         \A u \in Threads \ {w} : pc'[u] = pc[u],
         Reading(w), ~Reading(w)', used' = used - 1
  PROVE  UsedCounts' /\ used' \in Nat
<1>1. Readers' = Readers \ {w}
  BY DEF Readers, Reading, Threads
<1>2. w \in Readers
  BY DEF Readers
<1>3. Cardinality(Readers \ {w}) = Cardinality(Readers) - 1
  BY <1>2, ReadersFinite, FS_RemoveElement
<1>4. IsFiniteSet(Readers') /\ Cardinality(Readers') \in Nat
  BY <1>1, ReadersFinite, FS_RemoveElement, FS_CardinalityType
<1> QED
  BY <1>1, <1>3, <1>4 DEF UsedCounts

(* A step that leaves the lock word, and does not bring its thread inside, *)
(* keeps the exclusion.                                                    *)
LEMMA ExclusionKept ==
  ASSUME Types, Exclusive, NEW t \in Threads,
         \A u \in Threads \ {t} : pc'[u] = pc[u],
         Inside(t)' => Inside(t), locked' = locked
  PROVE  Exclusive'
BY DEF Exclusive, Inside, Threads

LEMMA ExclusionFreed ==
  ASSUME Types, Exclusive, NEW t \in Threads,
         \A u \in Threads \ {t} : pc'[u] = pc[u],
         Inside(t), ~Inside(t)'
  PROVE  Exclusive'
BY DEF Exclusive, Inside, Threads

LEMMA ExclusionTaken ==
  ASSUME Types, Exclusive, NEW t \in Threads,
         \A u \in Threads \ {t} : pc'[u] = pc[u],
         ~locked, locked'
  PROVE  Exclusive'
BY DEF Exclusive, Inside, Threads

-----------------------------------------------------------------------------
LEMMA InitInv == Init => IInv
<1> SUFFICES ASSUME Init PROVE IInv
  OBVIOUS
<1>1. Types
  BY DEF Init, Types, WorkerPoints, AdminPoints, Threads
<1>2. Readers = {}
  BY DEF Init, Readers, Reading, Threads
<1>3. UsedCounts
  BY <1>2, FS_EmptySet DEF Init, UsedCounts
<1>4. Exclusive
  BY DEF Init, Exclusive, Inside, Threads
<1> QED
  BY <1>1, <1>3, <1>4 DEF Init, IInv, UpdateUnderLock, NoReaderAtChange, Threads

LEMMA AcquireInv ==
  ASSUME IInv, NEW t \in Threads, Acquire(t)
  PROVE  IInv'
<1> USE DEF IInv
<1>0. /\ pc[t] \in {"lock", "relock"} /\ ~locked /\ locked' /\ locked' \in BOOLEAN
      /\ UNCHANGED <<update, used>>
  BY DEF Acquire
<1>1. /\ Acquired(t) \in {"mark", "enter", "leave"}
      /\ t \in Admins => Acquired(t) = "mark"
      /\ t \in Workers => Acquired(t) = (IF pc[t] = "lock" THEN "enter" ELSE "leave")
  BY Disjoint, <1>0 DEF Acquired, Threads
<1>2. Goto(t, pc[t], Acquired(t))
  BY DEF Acquire, Goto
<1>3. /\ pc'[t] = Acquired(t)
      /\ \A u \in Threads \ {t} : pc'[u] = pc[u]
      /\ Types'
  BY <1>0, <1>1, <1>2, Moved DEF Types, WorkerPoints, AdminPoints
<1>4. Exclusive'
  BY <1>0, <1>3, ExclusionTaken
<1>5. Readers' = Readers
  BY <1>0, <1>1, <1>3, ReadersKept DEF Reading
<1>6. UsedCounts'
  BY <1>0, <1>5 DEF UsedCounts
<1>7. UpdateUnderLock' /\ NoReaderAtChange'
  BY <1>0, <1>1, <1>3 DEF UpdateUnderLock, NoReaderAtChange, Threads, Exclusive, Inside
<1> QED
  BY <1>3, <1>4, <1>6, <1>7

(* The steps of a worker that touch neither lock, nor used, nor update. *)
LEMMA WorkerQuietInv ==
  ASSUME IInv, NEW w \in Workers,
         NEW from, NEW to \in WorkerPoints, Goto(w, from, to),
         UNCHANGED <<locked, update, used>>,
         from \in {"idle", "search", "serve"}, to \in {"lock", "search", "serve", "relock"},
         from = "idle" <=> to = "lock"
  PROVE  IInv'
<1> USE DEF IInv
<1>1. /\ pc[w] = from /\ pc'[w] = to
      /\ \A u \in Threads \ {w} : pc'[u] = pc[u]
      /\ Types'
  BY Moved, Disjoint DEF Types, Threads
<1>2. Exclusive'
  BY <1>1, ExclusionKept, Disjoint DEF Inside, Threads
<1>3. Readers' = Readers
  BY <1>1, ReadersKept DEF Reading, Threads
<1>4. UsedCounts'
  BY <1>3 DEF UsedCounts
<1>5. UpdateUnderLock' /\ NoReaderAtChange'
  BY <1>1, Disjoint DEF UpdateUnderLock, NoReaderAtChange, Threads
<1> QED
  BY <1>1, <1>2, <1>4, <1>5

(* While a worker is inside, no thread that changes the table is. *)
LEMMA WorkerInside ==
  ASSUME IInv, NEW w \in Workers, Inside(w)
  PROVE  /\ ~update
         /\ \A a \in Admins : ~Inside(a)
<1>1. \A a \in Admins : a # w /\ a \in Threads /\ w \in Threads
  BY Disjoint DEF Threads
<1> QED
  BY <1>1 DEF IInv, Exclusive, UpdateUnderLock, Inside

LEMMA EnterInv ==
  ASSUME IInv, NEW w \in Workers, Enter(w)
  PROVE  IInv'
<1> USE DEF IInv
<1>1. /\ pc[w] = "enter" /\ pc'[w] = "entered"
      /\ \A u \in Threads \ {w} : pc'[u] = pc[u]
      /\ Types'
  BY Moved, Disjoint DEF Enter, Types, Threads, WorkerPoints
<1>2. Inside(w) /\ Inside(w)'
  BY <1>1, Disjoint DEF Inside
<1>3. Exclusive'
  BY <1>1, <1>2, ExclusionKept DEF Threads, Enter
<1>4. UsedCounts'
  BY <1>1, ReaderJoins DEF Reading, Enter
<1>5. UpdateUnderLock' /\ NoReaderAtChange'
  BY <1>1, <1>2, WorkerInside, Disjoint
     DEF UpdateUnderLock, NoReaderAtChange, Threads, Enter, Inside
<1> QED
  BY <1>1, <1>3, <1>4, <1>5

LEMMA EnteredInv ==
  ASSUME IInv, NEW w \in Workers, Entered(w)
  PROVE  IInv'
<1> USE DEF IInv
<1>1. /\ pc[w] = "entered" /\ pc'[w] = "search"
      /\ \A u \in Threads \ {w} : pc'[u] = pc[u]
      /\ Types'
  BY Moved, Disjoint DEF Entered, Types, Threads, WorkerPoints
<1>2. Exclusive'
  BY <1>1, ExclusionFreed, Disjoint DEF Inside, Threads
<1>3. Readers' = Readers
  BY <1>1, ReadersKept DEF Reading, Threads
<1>4. UsedCounts'
  BY <1>3 DEF UsedCounts, Entered
<1>5. UpdateUnderLock' /\ NoReaderAtChange'
  BY <1>1, Disjoint DEF UpdateUnderLock, NoReaderAtChange, Threads, Entered
<1> QED
  BY <1>1, <1>2, <1>4, <1>5

LEMMA LeaveInv ==
  ASSUME IInv, NEW w \in Workers, Leave(w)
  PROVE  IInv'
<1> USE DEF IInv
<1>1. /\ pc[w] = "leave" /\ pc'[w] = "left"
      /\ \A u \in Threads \ {w} : pc'[u] = pc[u]
      /\ pc' \in [Threads -> WorkerPoints \cup AdminPoints]
      /\ \A v \in Workers : pc'[v] \in WorkerPoints
      /\ \A a \in Admins : pc'[a] \in AdminPoints
  BY Moved, Disjoint DEF Leave, Types, Threads, WorkerPoints
<1>2. Inside(w) /\ Inside(w)'
  BY <1>1, Disjoint DEF Inside
<1>3. Exclusive'
  BY <1>1, <1>2, ExclusionKept DEF Threads, Leave
<1>4. UsedCounts' /\ used' \in Nat
  BY <1>1, ReaderLeaves DEF Reading, Leave
<1>5. Types'
  BY <1>1, <1>4 DEF Types, Leave
<1>6. UpdateUnderLock' /\ NoReaderAtChange'
  BY <1>1, <1>2, WorkerInside, Disjoint
     DEF UpdateUnderLock, NoReaderAtChange, Threads, Leave, Inside
<1> QED
  BY <1>3, <1>4, <1>5, <1>6

LEMMA UnlockInv ==
  ASSUME IInv, NEW t \in Threads, Unlock(t)
  PROVE  IInv'
<1> USE DEF IInv
<1>1. PICK to \in {"idle", "lock"} : Goto(t, "left", to) /\ (t \in Workers => to = "idle")
  BY Disjoint DEF Unlock, Goto
<1>2. /\ pc[t] = "left" /\ pc'[t] = to
      /\ \A u \in Threads \ {t} : pc'[u] = pc[u]
      /\ Types'
  BY <1>1, Moved DEF Unlock, Types, WorkerPoints, AdminPoints
<1>3. Exclusive'
  BY <1>2, ExclusionFreed DEF Inside, Threads
<1>4. Readers' = Readers
  BY <1>2, ReadersKept DEF Reading
<1>5. UsedCounts'
  BY <1>4 DEF UsedCounts, Unlock
<1>6. UpdateUnderLock' /\ NoReaderAtChange'
  BY <1>2 DEF UpdateUnderLock, NoReaderAtChange, Threads, Unlock
<1> QED
  BY <1>2, <1>3, <1>5, <1>6

(* The steps of a thread that changes the table, from the request on. *)
LEMMA AdminInv ==
  ASSUME IInv, NEW a \in Admins,
         NEW from \in AdminPoints, NEW to \in AdminPoints, Goto(a, from, to),
         UNCHANGED <<locked, used>>,
         \/ from = "idle" /\ to = "lock" /\ update' = update
         \/ from = "mark" /\ to = "wait" /\ update' = TRUE
         \/ from = "wait" /\ to = "change" /\ used = 0 /\ update' = update
         \/ from = "change" /\ to = "left" /\ update' = FALSE
  PROVE  IInv'
<1> USE DEF IInv
<1>1. /\ pc[a] = from /\ pc'[a] = to
      /\ \A u \in Threads \ {a} : pc'[u] = pc[u]
      /\ Types'
  BY Moved, Disjoint DEF Types, Threads
<1>2. Exclusive'
  BY <1>1, ExclusionKept DEF Inside, Threads
<1>3. Readers' = Readers
  BY <1>1, ReadersKept, Disjoint DEF Threads
<1>4. UsedCounts'
  BY <1>3 DEF UsedCounts
<1>5. UpdateUnderLock'
  BY <1>1 DEF UpdateUnderLock, Threads
<1>6. NoReaderAtChange'
  BY <1>1 DEF NoReaderAtChange, Threads
<1> QED
  BY <1>1, <1>2, <1>4, <1>5, <1>6

LEMMA NextInv == IInv /\ [Next]_vars => IInv'
<1> SUFFICES ASSUME IInv, [Next]_vars PROVE IInv'
  OBVIOUS
<1>1. ASSUME NEW w \in Workers, WorkerStep(w) PROVE IInv'
  <2>0. w \in Threads
    BY DEF Threads
  <2>1. CASE Acquire(w)
    BY <2>0, <2>1, AcquireInv
  <2>2. CASE Enter(w)
    BY <2>2, EnterInv
  <2>3. CASE Entered(w)
    BY <2>3, EnteredInv
  <2>4. CASE SearchOn(w)
    <3>1. Goto(w, "search", "search")
      BY <2>0, <2>4 DEF SearchOn, Goto, IInv, Types
    <3> QED
      BY <2>4, <3>1, WorkerQuietInv DEF SearchOn, WorkerPoints
  <2>5. CASE SearchHit(w)
    BY <2>5, WorkerQuietInv DEF SearchHit, WorkerPoints
  <2>6. CASE SearchEnd(w)
    BY <2>6, WorkerQuietInv DEF SearchEnd, WorkerPoints
  <2>7. CASE Serve(w)
    BY <2>7, WorkerQuietInv DEF Serve, WorkerPoints
  <2>8. CASE Leave(w)
    BY <2>8, LeaveInv
  <2>9. CASE Unlock(w)
    BY <2>0, <2>9, UnlockInv
  <2> QED
    BY <1>1, <2>1, <2>2, <2>3, <2>4, <2>5, <2>6, <2>7, <2>8, <2>9 DEF WorkerStep
<1>2. ASSUME NEW w \in Workers, NEW p \in Paths, Exec(w, p) PROVE IInv'
  BY <1>2, WorkerQuietInv DEF Exec, WorkerPoints
<1>3. ASSUME NEW a \in Admins, AdminStep(a) PROVE IInv'
  <2>0. a \in Threads
    BY DEF Threads
  <2>1. CASE Acquire(a)
    BY <2>0, <2>1, AcquireInv
  <2>2. CASE Mark(a)
    BY <2>2, AdminInv DEF Mark, AdminPoints
  <2>3. CASE Wait(a)
    BY <2>3, AdminInv DEF Wait, AdminPoints
  <2>4. CASE Change(a)
    BY <2>4, AdminInv DEF Change, AdminPoints
  <2>5. CASE Unlock(a)
    BY <2>0, <2>5, UnlockInv
  <2> QED
    BY <1>3, <2>1, <2>2, <2>3, <2>4, <2>5 DEF AdminStep
<1>4. ASSUME NEW a \in Admins, NEW todo, Request(a, todo) PROVE IInv'
  BY <1>4, AdminInv DEF Request, AdminPoints
<1>5. CASE UNCHANGED vars
  BY <1>5 DEF vars, IInv, Types, Exclusive, Inside, UsedCounts, Readers, Reading,
              UpdateUnderLock, NoReaderAtChange
<1> QED
  BY <1>1, <1>2, <1>3, <1>4, <1>5 DEF Next

(* Spec keeps the inductive invariant. *)
LEMMA InvHolds == Spec => []IInv
BY InitInv, NextInv, PTL DEF Spec

-----------------------------------------------------------------------------
(* The spinlock of the list excludes: eris_spinlock_acquire and _release   *)
(* admit one thread to eris_module_exec's bookkeeping or to a change.      *)
THEOREM LockExcludes == Spec => []Exclusive
<1>1. IInv => Exclusive
  BY DEF IInv
<1> QED
  BY <1>1, InvHolds, PTL

(* The field used is the number of threads between their registration and  *)
(* their sign-off in eris_module_exec.                                     *)
THEOREM UsedIsReaders == Spec => []UsedCounts
<1>1. IInv => UsedCounts
  BY DEF IInv
<1> QED
  BY <1>1, InvHolds, PTL

(* No caller of eris_module_exec ever finds update set. *)
THEOREM UpdateNeverSeen == Spec => []UpdateUnderLock
<1>1. IInv => UpdateUnderLock
  BY DEF IInv
<1> QED
  BY <1>1, InvHolds, PTL

(* Adding, erasing and updating modules never changes the list under a     *)
(* thread that searches it or runs a service from it.                      *)
THEOREM ReadersUndisturbed == Spec => StillWhileRead
<1>1. ASSUME IInv, [Next]_vars, list' # list PROVE Readers = {}
  <2>1. PICK a \in Admins : Change(a)
    BY <1>1 DEF Next, WorkerStep, AdminStep, Acquire, Exec, Enter, Entered, SearchOn,
       SearchHit, SearchEnd, Serve, Leave, Unlock, Request, Mark, Wait, vars
  <2>2. used = 0
    BY <1>1, <2>1 DEF Change, Goto, IInv, NoReaderAtChange
  <2> QED
    BY <1>1, <2>2, ReadersFinite, FS_EmptySet DEF IInv, UsedCounts
<1>2. IInv /\ [Next]_vars => [list' # list => Readers = {}]_vars
  BY <1>1
<1> QED
  BY <1>2, InvHolds, PTL DEF Spec, StillWhileRead

-----------------------------------------------------------------------------
(* What is in the table.  eris_list_erase leaves the neighbours of an      *)
(* element in the middle pointing to freed memory; what follows is about   *)
(* behaviours in which the elements that are erased are at the ends.       *)
ErasesAtEnds ==
  \A a \in Admins :
    pc[a] = "change" /\ Head(jobs[a])[1] = "erase" =>
      Victim(Name[Head(jobs[a])[2]]) \in {list.head, list.tail, Null}

(* The changes a thread makes: one, or an erase and an add. *)
JobLists ==
  {<<>>} \cup {<<Adding(n)>> : n \in Node} \cup {<<Erasing(n)>> : n \in Node}
         \cup {<<Erasing(n), Adding(n)>> : n \in Node}

AddsIn(todo, n) == \E i \in 1 .. Len(todo) : todo[i] = Adding(n)
Adds(a, n) == AddsIn(jobs[a], n)

(* One thread at most has something to add, and until it has added it that *)
(* is not in the list.                                                     *)
JobsInv ==
  /\ jobs \in [Admins -> JobLists]
  /\ \A a \in Admins : pc[a] # "idle" => jobs[a] # <<>>
  /\ \A a, b \in Admins, m, n \in Node : Adds(a, m) /\ Adds(b, n) => a = b
  /\ \A a \in Admins, n \in Node :
       Adds(a, n) /\ ~(pc[a] = "left" /\ Head(jobs[a]) = Adding(n)) => n \notin list.allocated

(* A list of the table: an ordered list whose elements have their Prio.    *)
Table(l) ==
  /\ \E s \in Orders : ListOf(l, s)
  /\ l.enable_prio
  /\ \A n \in l.allocated : l.prio[n] = Prio[n]

ListInv == Table(list)

(* Worker w has passed the first i - 1 elements, and none of them matched. *)
Passed(w, s, i) == \A j \in 1 .. i - 1 : path[w] \notin Matched[s[j]]

(* What worker w has in hand, when the list is s. *)
Seeking(w, s) ==
  /\ pc[w] = "search" =>
       \E i \in 1 .. Len(s) + 1 :
         /\ iter[w] = (IF i <= Len(s) THEN s[i] ELSE Null)
         /\ Passed(w, s, i)
  /\ pc[w] = "serve" =>
       \E i \in 1 .. Len(s) :
         /\ elem[w] = s[i]
         /\ iter[w] = (IF i < Len(s) THEN s[i + 1] ELSE Null)
         /\ Passed(w, s, i)
         /\ path[w] \in Matched[s[i]]

SearchInv == \A w \in Workers : Seeking(w, Forward(list))

(* The variables that only the worker writes. *)
LocalTypes ==
  /\ path \in [Workers -> Paths] /\ iter \in [Workers -> Node \cup {Null}]
  /\ elem \in [Workers -> Node \cup {Null}]

TableInv == LocalTypes /\ JobsInv /\ ListInv /\ SearchInv

LEMMA JobFacts ==
  ASSUME NEW m \in Node
  PROVE  /\ Adding(m)[1] = "add" /\ Adding(m)[2] = m
         /\ Erasing(m)[1] = "erase" /\ Erasing(m)[2] = m
         /\ \A n \in Node : /\ Adding(n) # Erasing(m)
                            /\ Adding(n) = Adding(m) => n = m
BY DEF Adding, Erasing

LEMMA AddsFacts ==
  ASSUME NEW m \in Node, NEW n \in Node
  PROVE  /\ ~AddsIn(<<>>, n)
         /\ AddsIn(<<Adding(m)>>, n) => m = n
         /\ AddsIn(<<Adding(m)>>, m)
         /\ ~AddsIn(<<Erasing(m)>>, n)
         /\ AddsIn(<<Erasing(m), Adding(m)>>, n) => m = n
<1>1. /\ Len(<<Adding(m)>>) = 1 /\ <<Adding(m)>>[1] = Adding(m)
      /\ Len(<<Erasing(m)>>) = 1 /\ <<Erasing(m)>>[1] = Erasing(m)
      /\ Len(<<Erasing(m), Adding(m)>>) = 2
      /\ <<Erasing(m), Adding(m)>>[1] = Erasing(m) /\ <<Erasing(m), Adding(m)>>[2] = Adding(m)
      /\ Len(<<>>) = 0
  OBVIOUS
<1>2. Adding(n) # Erasing(m) /\ (Adding(n) = Adding(m) => n = m)
  BY JobFacts
<1>3. 1 \in 1 .. 1 /\ 1 .. 0 = {} /\ 1 .. 1 = {1} /\ 1 .. 2 = {1, 2}
  OBVIOUS
<1> QED
  BY <1>1, <1>2, <1>3 DEF AddsIn

-----------------------------------------------------------------------------
(* The elements of the start are loaded one by one.                        *)
LEMMA LoadedSteps ==
  \E l : /\ Loaded(Initial) = l[Len(Initial)]
         /\ l[0] = EmptyList(TRUE)
         /\ \A i \in 1 .. Len(Initial) : l[i] = Push(l[i - 1], Initial[i], Prio[Initial[i]])
<1> DEFINE N == Len(Initial)
           From(g, i) == IF i = 0 THEN EmptyList(TRUE)
                         ELSE Push(g[i - 1], Initial[i], Prio[Initial[i]])
           Reached == {n \in Nat : \E g : g = [i \in 0 .. n |-> From(g, i)]}
<1>1. N \in Nat
  BY InitialAssumption
<1>2. 0 \in Reached
  <2> DEFINE g == [i \in 0 .. 0 |-> EmptyList(TRUE)]
  <2>1. g = [i \in 0 .. 0 |-> From(g, i)]
    OBVIOUS
  <2> QED
    BY <2>1
<1>3. ASSUME NEW n \in Nat, n \in Reached PROVE n + 1 \in Reached
  <2>1. PICK g : g = [i \in 0 .. n |-> From(g, i)]
    BY <1>3
  <2> DEFINE h == [i \in 0 .. n + 1 |-> IF i <= n THEN g[i] ELSE From(g, i)]
  <2>2. ASSUME NEW i \in 0 .. n + 1 PROVE h[i] = From(h, i)
    <3>1. i # 0 => i - 1 \in 0 .. n + 1 /\ i - 1 <= n
      OBVIOUS
    <3>2. i # 0 => h[i - 1] = g[i - 1]
      BY <3>1
    <3>3. From(h, i) = From(g, i)
      <4> HIDE DEF h
      <4>1. CASE i = 0
        BY <4>1
      <4>2. CASE i # 0
        BY <3>2, <4>2
      <4> QED
        BY <4>1, <4>2
    <3>4. i <= n => g[i] = From(g, i)
      <4>1. i <= n => i \in 0 .. n
        OBVIOUS
      <4> HIDE DEF From
      <4> QED
        BY <2>1, <4>1
    <3>5. h[i] = IF i <= n THEN g[i] ELSE From(g, i)
      OBVIOUS
    <3> HIDE DEF From, h
    <3> QED
      BY <3>3, <3>4, <3>5
  <2>3. h = [i \in 0 .. n + 1 |-> h[i]]
    OBVIOUS
  <2> HIDE DEF h, From
  <2>4. h = [i \in 0 .. n + 1 |-> From(h, i)]
    BY <2>2, <2>3
  <2> QED
    BY <2>4
<1> HIDE DEF Reached
<1>4. N \in Reached
  BY <1>1, <1>2, <1>3, Induction
<1>5. PICK g : g = [i \in 0 .. N |-> From(g, i)]
  BY <1>4 DEF Reached
<1>6. PICK l : l = [i \in 0 .. N |-> From(l, i)] /\ Loaded(Initial) = l[N]
  BY <1>5 DEF Loaded
<1>7. l[0] = EmptyList(TRUE)
  BY <1>1, <1>6
<1>8. ASSUME NEW i \in 1 .. N PROVE l[i] = Push(l[i - 1], Initial[i], Prio[Initial[i]])
  <2>1. i \in 0 .. N /\ i # 0
    BY <1>1
  <2>2. l[i] = From(l, i)
    <3> HIDE DEF From
    <3> QED
      BY <1>6, <2>1
  <2> QED
    BY <2>1, <2>2
<1> QED
  BY <1>6, <1>7, <1>8

LEMMA TablePush ==
  ASSUME NEW l, Table(l), NEW n \in Node, n \notin l.allocated
  PROVE  LET r == Push(l, n, Prio[n])
         IN  Table(r) /\ r.allocated = l.allocated \cup {n}
<1>1. PICK s \in Orders : ListOf(l, s)
  BY DEF Table
<1>2. Prio[n] \in Int /\ l.enable_prio /\ Sorted(l, s)
  BY <1>1, RegistryAssumption DEF Table, ListOf
<1>3. PICK k \in 1 .. Len(s) + 1 : Splits(l.prio, s, k, Prio[n])
  BY <1>2, PlaceExists
<1>4. Fore(l, s, k, Prio[n]) /\ Rank(l, Prio[n]) = Prio[n]
  BY <1>2, <1>3 DEF Fore, Rank
<1> DEFINE r == Spliced(l, s, k, n, Prio[n])
<1>5. Push(l, n, Prio[n]) = r
  BY <1>1, <1>2, <1>4, PushSplices
<1>6. ListOf(r, Inserted(s, k, n))
  BY <1>1, <1>2, <1>3, SplicedIsList
<1>7. Inserted(s, k, n) \in Orders
  BY <1>6 DEF ListOf, Holds
<1>8. /\ r.allocated = l.allocated \cup {n} /\ r.enable_prio = l.enable_prio
      /\ r.prio = [l.prio EXCEPT ![n] = Prio[n]]
  BY DEF Spliced
<1>9. l.prio \in [Node -> Int] /\ l.allocated \subseteq Node
  BY <1>1 DEF ListOf, Sorted, Clear, Elements, Orders
<1> HIDE DEF r
<1>10. \A m \in r.allocated : r.prio[m] = Prio[m]
  BY <1>8, <1>9 DEF Table
<1> QED
  BY <1>2, <1>5, <1>6, <1>7, <1>8, <1>10 DEF Table

LEMMA LoadedIsTable == Table(Loaded(Initial))
<1>1. PICK l : /\ Loaded(Initial) = l[Len(Initial)]
               /\ l[0] = EmptyList(TRUE)
               /\ \A i \in 1 .. Len(Initial) : l[i] = Push(l[i - 1], Initial[i], Prio[Initial[i]])
  BY LoadedSteps
<1>2. /\ Len(Initial) \in Nat /\ \A i \in 1 .. Len(Initial) : Initial[i] \in Node
      /\ \A i, j \in 1 .. Len(Initial) : Initial[i] = Initial[j] => i = j
  BY InitialAssumption
<1> DEFINE Up(i) == {Initial[j] : j \in 1 .. i}
           S == {i \in Nat : i <= Len(Initial) => Table(l[i]) /\ l[i].allocated = Up(i)}
<1>3. 0 \in S
  <2>1. <<>> \in Orders
    BY DEF Orders
  <2>2. ListOf(l[0], <<>>)
    BY <1>1, EmptyIsList
  <2>3. l[0].enable_prio /\ l[0].allocated = {}
    BY <1>1 DEF EmptyList
  <2> QED
    BY <2>1, <2>2, <2>3 DEF Table
<1>4. ASSUME NEW i \in Nat, i \in S PROVE i + 1 \in S
  <2> SUFFICES ASSUME i + 1 <= Len(Initial)
               PROVE  Table(l[i + 1]) /\ l[i + 1].allocated = Up(i + 1)
    OBVIOUS
  <2>1. i + 1 \in 1 .. Len(Initial) /\ (i + 1) - 1 = i /\ i <= Len(Initial)
    BY <1>2
  <2>2. Table(l[i]) /\ l[i].allocated = Up(i)
    BY <1>4, <2>1
  <2>3. Initial[i + 1] \in Node /\ Initial[i + 1] \notin Up(i)
    <3>1. \A j \in 1 .. i : j \in 1 .. Len(Initial) /\ j # i + 1
      BY <1>2, <2>1
    <3> QED
      BY <1>2, <2>1, <3>1
  <2>4. l[i + 1] = Push(l[i], Initial[i + 1], Prio[Initial[i + 1]])
    BY <1>1, <2>1
  <2>5. Table(l[i + 1]) /\ l[i + 1].allocated = Up(i) \cup {Initial[i + 1]}
    <3> HIDE DEF Up
    <3> QED
      BY <2>2, <2>3, <2>4, TablePush
  <2>6. 1 .. i + 1 = (1 .. i) \cup {i + 1}
    OBVIOUS
  <2>7. Up(i + 1) = Up(i) \cup {Initial[i + 1]}
    BY <2>6
  <2> QED
    BY <2>5, <2>7
<1> HIDE DEF S
<1>5. Len(Initial) \in S
  BY <1>2, <1>3, <1>4, Induction
<1> QED
  BY <1>1, <1>2, <1>5 DEF S

-----------------------------------------------------------------------------
(* Erasing at an end, and what is in hand of the jobs.                     *)
LEMMA TableErase ==
  ASSUME NEW l, Table(l), NEW v \in {l.head, l.tail}, v # Null
  PROVE  Table(Erase(l, v)) /\ Erase(l, v).allocated \subseteq l.allocated
<1>1. PICK s \in Orders : ListOf(l, s)
  BY DEF Table
<1>2. Len(s) \in Nat /\ Len(s) # 0
  <2>1. Len(s) \in Nat
    BY <1>1 DEF Orders
  <2>2. Len(s) = 0 => l.head = Null /\ l.tail = Null
    BY <1>1 DEF ListOf, Holds
  <2> QED
    BY <2>1, <2>2
<1>3. /\ 1 \in 1 .. Len(s) /\ Len(s) \in 1 .. Len(s)
      /\ l.head = s[1] /\ l.tail = s[Len(s)]
  BY <1>1, <1>2, EndsOfList
<1>4. PICK i \in {1, Len(s)} : i \in 1 .. Len(s) /\ v = s[i]
  BY <1>3
<1> DEFINE r == Cut(l, s, i)
<1>5. Erase(l, v) = r
  BY <1>1, <1>4, EraseIsCut
<1>6. ListOf(r, Without(s, i))
  BY <1>1, <1>4, CutIsList
<1>7. Without(s, i) \in Orders
  BY <1>6 DEF ListOf, Holds
<1>8. /\ r.allocated = l.allocated \ {v} /\ r.enable_prio = l.enable_prio
      /\ r.prio = [l.prio EXCEPT ![v] = 0]
  BY <1>4 DEF Cut
<1>9. l.prio \in [Node -> Int] /\ l.allocated \subseteq Node
  BY <1>1 DEF ListOf, Sorted, Clear, Elements, Orders
<1> HIDE DEF r
<1>10. \A m \in r.allocated : r.prio[m] = Prio[m]
  BY <1>8, <1>9 DEF Table
<1> QED
  BY <1>5, <1>6, <1>7, <1>8, <1>10 DEF Table

LEMMA HeadFacts ==
  ASSUME NEW todo \in JobLists, todo # <<>>
  PROVE  \E m \in Node : \/ Head(todo) = Adding(m) /\ AddsIn(todo, m)
                         \/ Head(todo) = Erasing(m)
<1>1. CASE \E m \in Node : todo = <<Adding(m)>>
  <2>1. PICK m \in Node : todo = <<Adding(m)>>
    BY <1>1
  <2>2. Head(todo) = Adding(m)
    BY <2>1
  <2> QED
    BY <2>1, <2>2, AddsFacts
<1>2. CASE \E m \in Node : todo = <<Erasing(m)>>
  BY <1>2
<1>3. CASE \E m \in Node : todo = <<Erasing(m), Adding(m)>>
  BY <1>3
<1> QED
  BY <1>1, <1>2, <1>3 DEF JobLists

LEMMA TailFacts ==
  ASSUME NEW todo \in JobLists, todo # <<>>
  PROVE  /\ Tail(todo) \in JobLists
         /\ Len(todo) > 1 => Tail(todo) # <<>>
         /\ \A n \in Node : AddsIn(Tail(todo), n) => AddsIn(todo, n) /\ Head(todo) # Adding(n)
<1>1. ASSUME NEW m \in Node, todo = <<Adding(m)>> \/ todo = <<Erasing(m)>>
      PROVE  Tail(todo) = <<>> /\ Len(todo) = 1
  <2>1. \A x : Tail(<<x>>) = <<>> /\ Len(<<x>>) = 1
    OBVIOUS
  <2> QED
    BY <1>1, <2>1, Zenon
<1>2. ASSUME NEW m \in Node, todo = <<Erasing(m), Adding(m)>>
      PROVE  /\ Tail(todo) = <<Adding(m)>> /\ Head(todo) = Erasing(m)
             /\ Tail(todo) \in JobLists /\ Tail(todo) # <<>>
             /\ AddsIn(todo, m)
  <2>1. Tail(todo) = <<Adding(m)>> /\ Head(todo) = Erasing(m) /\ <<Adding(m)>> # <<>>
    BY <1>2
  <2>2. Len(todo) = 2 /\ todo[2] = Adding(m)
    BY <1>2
  <2>3. 2 \in 1 .. 2
    OBVIOUS
  <2> QED
    BY <2>1, <2>2, <2>3 DEF JobLists, AddsIn
<1>3. CASE \E m \in Node : todo = <<Adding(m)>> \/ todo = <<Erasing(m)>>
  <2>1. Tail(todo) = <<>> /\ Len(todo) = 1
    BY <1>1, <1>3
  <2>2. ~(Len(todo) > 1)
    BY <2>1
  <2>3. \A n \in Node : ~AddsIn(Tail(todo), n)
    BY <2>1, AddsFacts, Zenon
  <2> QED
    BY <2>1, <2>2, <2>3 DEF JobLists
<1>4. CASE \E m \in Node : todo = <<Erasing(m), Adding(m)>>
  <2>1. PICK m \in Node : todo = <<Erasing(m), Adding(m)>>
    BY <1>4
  <2>2. ASSUME NEW n \in Node, AddsIn(Tail(todo), n)
        PROVE  AddsIn(todo, n) /\ Head(todo) # Adding(n)
    <3>1. n = m
      BY <1>2, <2>1, <2>2, AddsFacts
    <3> QED
      BY <1>2, <2>1, <3>1, JobFacts
  <2> QED
    BY <1>2, <2>1, <2>2
<1> QED
  BY <1>3, <1>4 DEF JobLists

(* The order of the table, as an iterator meets it. *)
LEMMA OrderOfTable ==
  ASSUME ListInv
  PROVE  \E s \in Orders :
           /\ ListOf(list, s) /\ Forward(list) = s /\ Len(s) \in Nat
           /\ list.head = IF Len(s) = 0 THEN Null ELSE s[1]
           /\ \A i \in 1 .. Len(s) :
                /\ s[i] \in Node /\ s[i] # Null
                /\ list.next[s[i]] = IF i < Len(s) THEN s[i + 1] ELSE Null
<1>1. PICK s \in Orders : ListOf(list, s)
  BY DEF ListInv, Table
<1>2. Forward(list) = s
  BY <1>1, WalksOfList DEF ListOf
<1>3. /\ list.head = IF Len(s) = 0 THEN Null ELSE s[1]
      /\ \A i \in 1 .. Len(s) : list.next[s[i]] = IF i < Len(s) THEN s[i + 1] ELSE Null
  BY <1>1 DEF ListOf, Holds
<1>4. Len(s) \in Nat /\ \A i \in 1 .. Len(s) : s[i] \in Node /\ s[i] # Null
  BY NodeAssumption DEF Orders
<1> QED
  BY <1>1, <1>2, <1>3, <1>4

-----------------------------------------------------------------------------
LEMMA TableInit == Init => TableInv
<1> SUFFICES ASSUME Init PROVE TableInv
  OBVIOUS
<1>1. LocalTypes /\ ListInv
  BY LoadedIsTable DEF Init, LocalTypes, ListInv
<1>2. SearchInv
  BY DEF Init, SearchInv, Seeking, Threads
<1>3. \A a \in Admins, n \in Node : jobs[a] = <<>> /\ ~Adds(a, n) /\ pc[a] = "idle"
  <2>1. \A a \in Admins : jobs[a] = <<>> /\ pc[a] = "idle"
    BY DEF Init, Threads
  <2> QED
    BY <2>1, AddsFacts DEF Adds
<1>4. jobs \in [Admins -> JobLists]
  BY DEF Init, JobLists
<1>5. JobsInv
  <2>1. \A a \in Admins : pc[a] = "idle"
    BY DEF Init, Threads
  <2> QED
    BY <1>3, <1>4, <2>1 DEF JobsInv
<1> QED
  BY <1>1, <1>2, <1>5 DEF TableInv

(* A step that leaves the list and the jobs alone. *)
LEMMA TableKept ==
  ASSUME TableInv, NEW t \in Threads, UNCHANGED <<list, jobs>>,
         \A u \in Threads \ {t} : pc'[u] = pc[u],
         t \in Admins => pc[t] \notin {"idle", "left"},
         LocalTypes',
         \A w \in Workers \ {t} : path'[w] = path[w] /\ iter'[w] = iter[w] /\ elem'[w] = elem[w],
         t \in Workers => Seeking(t, Forward(list))'
  PROVE  TableInv'
<1>1. ListInv' /\ Forward(list)' = Forward(list)
  BY DEF TableInv, ListInv, Table
<1>2. JobsInv'
  BY DEF TableInv, JobsInv, Adds, AddsIn, Threads
<1>3. ASSUME NEW w \in Workers PROVE Seeking(w, Forward(list))'
  <2>1. CASE w = t
    BY <2>1
  <2>2. CASE w # t
    <3>1. Seeking(w, Forward(list))
      BY DEF TableInv, SearchInv
    <3>2. pc'[w] = pc[w] /\ path'[w] = path[w] /\ iter'[w] = iter[w] /\ elem'[w] = elem[w]
      BY <2>2 DEF Threads
    <3> QED
      BY <1>1, <3>1, <3>2 DEF Seeking, Passed
  <2> QED
    BY <2>1, <2>2
<1> QED
  BY <1>1, <1>2, <1>3 DEF TableInv, SearchInv

(* The steps of a worker after which it neither searches nor serves. *)
LEMMA AwayTable ==
  ASSUME IInv, TableInv, NEW w \in Workers,
         NEW from, NEW to \in WorkerPoints \ {"search", "serve"}, Goto(w, from, to),
         UNCHANGED <<list, jobs>>, LocalTypes',
         \A v \in Workers \ {w} : path'[v] = path[v] /\ iter'[v] = iter[v] /\ elem'[v] = elem[v]
  PROVE  TableInv'
<1>1. pc'[w] = to /\ \A u \in Threads \ {w} : pc'[u] = pc[u]
  BY Moved, Disjoint DEF IInv, Threads
<1>2. Seeking(w, Forward(list))'
  BY <1>1 DEF Seeking
<1> QED
  BY <1>1, <1>2, TableKept, Disjoint DEF Threads

LEMMA EnteredTable ==
  ASSUME IInv, TableInv, NEW w \in Workers, Entered(w)
  PROVE  TableInv'
<1>1. pc'[w] = "search" /\ \A u \in Threads \ {w} : pc'[u] = pc[u]
  BY Moved, Disjoint DEF IInv, Threads, Entered, WorkerPoints
<1>2. PICK s \in Orders :
        /\ Forward(list) = s /\ Len(s) \in Nat
        /\ list.head = IF Len(s) = 0 THEN Null ELSE s[1]
        /\ \A i \in 1 .. Len(s) : s[i] \in Node
  BY OrderOfTable DEF TableInv
<1>3. /\ UNCHANGED <<list, jobs, path, elem>>
      /\ iter' = [iter EXCEPT ![w] = list.head]
  BY DEF Entered
<1>4. 1 \in 1 .. Len(s) + 1 /\ (1 <= Len(s) <=> Len(s) # 0) /\ 1 .. 1 - 1 = {}
  BY <1>2
<1>5. list.head \in Node \cup {Null}
  BY <1>2, <1>4
<1>6. LocalTypes'
  BY <1>3, <1>5 DEF TableInv, LocalTypes
<1>7. iter'[w] = IF 1 <= Len(s) THEN s[1] ELSE Null
  BY <1>2, <1>3, <1>4 DEF TableInv, LocalTypes
<1>8. Passed(w, s, 1)'
  BY <1>4 DEF Passed
<1>9. Forward(list)' = s
  BY <1>2, <1>3
<1>10. Seeking(w, Forward(list))'
  BY <1>1, <1>4, <1>7, <1>8, <1>9 DEF Seeking
<1> QED
  BY <1>1, <1>3, <1>6, <1>10, TableKept, Disjoint DEF TableInv, LocalTypes, Threads

(* A worker that searches is at the i-th element of s. *)
Meets(w, s, i) ==
  /\ Len(s) \in Nat /\ i \in 1 .. Len(s)
  /\ iter[w] = s[i] /\ Passed(w, s, i)
  /\ IterNext(list, iter[w]) = IF i < Len(s) THEN s[i + 1] ELSE Null
  /\ IterNext(list, iter[w]) \in Node \cup {Null}

LEMMA SearchFacts ==
  ASSUME TableInv, NEW w \in Workers, pc[w] = "search", iter[w] # Null
  PROVE  \E s, i : Forward(list) = s /\ Meets(w, s, i)
<1>1. PICK s \in Orders :
        /\ Forward(list) = s /\ Len(s) \in Nat
        /\ \A i \in 1 .. Len(s) :
             /\ s[i] \in Node /\ list.next[s[i]] = IF i < Len(s) THEN s[i + 1] ELSE Null
  BY OrderOfTable DEF TableInv
<1>2. PICK i \in 1 .. Len(s) + 1 :
        iter[w] = (IF i <= Len(s) THEN s[i] ELSE Null) /\ Passed(w, s, i)
  BY <1>1 DEF TableInv, SearchInv, Seeking
<1>3. i \in 1 .. Len(s) /\ iter[w] = s[i]
  BY <1>1, <1>2
<1>4. IterNext(list, iter[w]) = IF i < Len(s) THEN s[i + 1] ELSE Null
  BY <1>1, <1>3 DEF IterNext
<1>5. IterNext(list, iter[w]) \in Node \cup {Null}
  <2>1. i < Len(s) => i + 1 \in 1 .. Len(s)
    BY <1>1, <1>3
  <2> QED
    BY <1>1, <1>4, <2>1
<1>6. Meets(w, s, i)
  BY <1>1, <1>2, <1>3, <1>4, <1>5 DEF Meets
<1> QED
  BY <1>1, <1>6

LEMMA SearchOnTable ==
  ASSUME IInv, TableInv, NEW w \in Workers, SearchOn(w)
  PROVE  TableInv'
<1>1. /\ pc[w] = "search" /\ pc' = pc /\ iter[w] # Null /\ ~Hit(w)
      /\ UNCHANGED <<list, jobs, path, elem>>
      /\ iter' = [iter EXCEPT ![w] = IterNext(list, iter[w])]
  BY DEF SearchOn
<1>2. PICK s, i : Forward(list) = s /\ Meets(w, s, i)
  BY <1>1, SearchFacts
<1>3. LocalTypes'
  BY <1>1, <1>2 DEF TableInv, LocalTypes, Meets
<1>4. i + 1 \in 1 .. Len(s) + 1 /\ (i + 1 <= Len(s) <=> i < Len(s))
  BY <1>2 DEF Meets
<1>5. iter'[w] = IF i + 1 <= Len(s) THEN s[i + 1] ELSE Null
  BY <1>1, <1>2, <1>4 DEF TableInv, LocalTypes, Meets
<1>6. path[w] \notin Matched[s[i]]
  BY <1>1, <1>2 DEF Hit, Meets
<1>7. \A j \in 1 .. (i + 1) - 1 : j \in 1 .. i - 1 \/ j = i
  BY <1>2 DEF Meets
<1>8. Passed(w, s, i + 1)'
  BY <1>1, <1>2, <1>6, <1>7 DEF Passed, Meets
<1>9. Forward(list)' = s
  BY <1>1, <1>2
<1>10. Seeking(w, Forward(list))'
  BY <1>1, <1>4, <1>5, <1>8, <1>9 DEF Seeking
<1> QED
  BY <1>1, <1>3, <1>10, TableKept, Disjoint DEF TableInv, LocalTypes, Threads

LEMMA SearchHitTable ==
  ASSUME IInv, TableInv, NEW w \in Workers, SearchHit(w)
  PROVE  TableInv'
<1>1. /\ pc[w] = "search" /\ iter[w] # Null /\ Hit(w)
      /\ UNCHANGED <<list, jobs, path>>
      /\ iter' = [iter EXCEPT ![w] = IterNext(list, iter[w])]
      /\ elem' = [elem EXCEPT ![w] = iter[w]]
  BY DEF SearchHit, Hit, Goto
<1>2. pc'[w] = "serve" /\ \A u \in Threads \ {w} : pc'[u] = pc[u]
  BY Moved, Disjoint DEF IInv, Threads, SearchHit, WorkerPoints
<1>3. PICK s, i : Forward(list) = s /\ Meets(w, s, i)
  BY <1>1, SearchFacts
<1>4. LocalTypes'
  BY <1>1, <1>3 DEF TableInv, LocalTypes, Meets
<1>5. iter'[w] = (IF i < Len(s) THEN s[i + 1] ELSE Null) /\ elem'[w] = s[i]
  BY <1>1, <1>3 DEF TableInv, LocalTypes, Meets
<1>6. path'[w] \in Matched[s[i]]
  BY <1>1, <1>3 DEF Hit, Meets
<1>7. Passed(w, s, i)'
  BY <1>1, <1>3 DEF Passed, Meets
<1>8. Forward(list)' = s
  BY <1>1, <1>3
<1>9. Seeking(w, Forward(list))'
  BY <1>2, <1>3, <1>5, <1>6, <1>7, <1>8 DEF Seeking, Meets
<1> QED
  BY <1>1, <1>2, <1>4, <1>9, TableKept, Disjoint DEF TableInv, LocalTypes, Threads

LEMMA WorkerTable ==
  ASSUME IInv, TableInv, NEW w \in Workers, WorkerStep(w) \/ \E p \in Paths : Exec(w, p)
  PROVE  TableInv'
<1>0. /\ path \in [Workers -> Paths] /\ iter \in [Workers -> Node \cup {Null}]
      /\ elem \in [Workers -> Node \cup {Null}]
      /\ w \in Threads /\ w \notin Admins
  BY Disjoint DEF TableInv, LocalTypes, Threads
<1>1. CASE Acquire(w)
  <2>1. Acquired(w) \in WorkerPoints \ {"search", "serve"}
    BY <1>0 DEF Acquired, WorkerPoints
  <2>2. Goto(w, pc[w], Acquired(w)) /\ UNCHANGED <<list, jobs, path, iter, elem>>
    BY <1>1 DEF Acquire, Goto
  <2> QED
    BY <1>0, <2>1, <2>2, AwayTable DEF LocalTypes
<1>2. CASE Enter(w)
  BY <1>0, <1>2, AwayTable DEF Enter, WorkerPoints, LocalTypes
<1>3. CASE Entered(w)
  BY <1>3, EnteredTable
<1>4. CASE SearchOn(w)
  BY <1>4, SearchOnTable
<1>5. CASE SearchHit(w)
  BY <1>5, SearchHitTable
<1>6. CASE SearchEnd(w)
  BY <1>0, <1>6, AwayTable DEF SearchEnd, WorkerPoints, LocalTypes
<1>7. CASE Serve(w)
  BY <1>0, <1>7, AwayTable DEF Serve, WorkerPoints, LocalTypes
<1>8. CASE Leave(w)
  BY <1>0, <1>8, AwayTable DEF Leave, WorkerPoints, LocalTypes
<1>9. CASE Unlock(w)
  <2>1. Goto(w, "left", "idle") /\ UNCHANGED <<list, jobs, path, iter, elem>>
    BY <1>0, <1>9 DEF Unlock, Goto
  <2> QED
    BY <1>0, <2>1, AwayTable DEF WorkerPoints, LocalTypes
<1>10. CASE \E p \in Paths : Exec(w, p)
  BY <1>0, <1>10, AwayTable DEF Exec, WorkerPoints, LocalTypes
<1> QED
  BY <1>1, <1>2, <1>3, <1>4, <1>5, <1>6, <1>7, <1>8, <1>9, <1>10 DEF WorkerStep

-----------------------------------------------------------------------------
(* What a thread may ask for, in Next. *)
Asks(a, todo) ==
  \E n \in Node : \/ todo = <<Adding(n)>> /\ Free(n)
                  \/ todo = <<Erasing(n)>>
                  \/ todo = <<Erasing(n), Adding(n)>> /\ Free(n)

LEMMA RequestTable ==
  ASSUME IInv, TableInv, NEW a \in Admins, NEW todo, Asks(a, todo), Request(a, todo)
  PROVE  TableInv'
<1>1. /\ pc'[a] = "lock" /\ pc[a] = "idle" /\ \A u \in Threads \ {a} : pc'[u] = pc[u]
  BY Moved, Disjoint DEF IInv, Threads, Request, AdminPoints
<1>2. /\ UNCHANGED <<list, path, iter, elem>>
      /\ jobs \in [Admins -> JobLists] /\ jobs' = [jobs EXCEPT ![a] = todo]
  BY DEF Request, TableInv, JobsInv
<1>3. todo \in JobLists /\ todo # <<>>
  <2>1. \A x, y : <<x>> # <<>> /\ <<x, y>> # <<>>
    OBVIOUS
  <2> QED
    BY <2>1, Zenon DEF Asks, JobLists
<1>4. \A n \in Node : AddsIn(todo, n) => Free(n)
  <2>1. PICK k \in Node : \/ todo = <<Adding(k)>> /\ Free(k)
                          \/ todo = <<Erasing(k)>>
                          \/ todo = <<Erasing(k), Adding(k)>> /\ Free(k)
    BY DEF Asks
  <2>2. ASSUME NEW n \in Node, AddsIn(todo, n) PROVE Free(n)
    <3>1. CASE todo = <<Adding(k)>> /\ Free(k)
      BY <2>2, <3>1, AddsFacts
    <3>2. CASE todo = <<Erasing(k)>>
      BY <2>2, <3>2, AddsFacts
    <3>3. CASE todo = <<Erasing(k), Adding(k)>> /\ Free(k)
      BY <2>2, <3>3, AddsFacts
    <3> QED
      BY <2>1, <3>1, <3>2, <3>3
  <2> QED
    BY <2>2
<1>5. /\ jobs' \in [Admins -> JobLists] /\ jobs'[a] = todo
      /\ \A b \in Admins \ {a} : jobs'[b] = jobs[b]
  BY <1>2, <1>3
<1>6. \A n \in Node : /\ Adds(a, n)' => Free(n)
                      /\ \A b \in Admins \ {a} : Adds(b, n)' <=> Adds(b, n)
  BY <1>4, <1>5 DEF Adds
<1>7. \A b \in Admins, m, n \in Node : Free(m) => ~Adds(b, n)
  <2>1. \A b \in Admins, m \in Node : Free(m) => jobs[b] = <<>>
    BY DEF Free
  <2>2. \A n \in Node : ~AddsIn(<<>>, n)
    BY AddsFacts
  <2> QED
    BY <2>1, <2>2, Zenon DEF Adds
<1>8. JobsInv'
  <2>1. \A b \in Admins : pc'[b] # "idle" => jobs'[b] # <<>>
    BY <1>1, <1>3, <1>5 DEF TableInv, JobsInv, Threads
  <2>2. \A b, c \in Admins, m, n \in Node : Adds(b, m)' /\ Adds(c, n)' => b = c
    BY <1>6, <1>7 DEF TableInv, JobsInv
  <2>3. ASSUME NEW b \in Admins, NEW n \in Node, Adds(b, n)',
               ~(pc'[b] = "left" /\ Head(jobs'[b]) = Adding(n))
        PROVE  n \notin list'.allocated
    <3>1. CASE b = a
      BY <1>2, <1>6, <2>3, <3>1 DEF Free
    <3>2. CASE b # a
      <4>1. pc'[b] = pc[b] /\ jobs'[b] = jobs[b] /\ Adds(b, n)
        BY <1>1, <1>5, <1>6, <2>3, <3>2 DEF Threads
      <4> QED
        BY <1>2, <2>3, <4>1 DEF TableInv, JobsInv
    <3> QED
      BY <3>1, <3>2
  <2> QED
    BY <1>5, <2>1, <2>2, <2>3 DEF JobsInv
<1>9. SearchInv' /\ ListInv' /\ LocalTypes'
  BY <1>1, <1>2, Disjoint
     DEF TableInv, SearchInv, Seeking, Passed, ListInv, LocalTypes, Threads
<1> QED
  BY <1>8, <1>9 DEF TableInv

LEMMA UnlockTable ==
  ASSUME IInv, TableInv, NEW a \in Admins, Unlock(a)
  PROVE  TableInv'
<1>0. /\ pc[a] = "left" /\ jobs \in [Admins -> JobLists]
      /\ jobs[a] \in JobLists /\ jobs[a] # <<>>
  BY DEF TableInv, JobsInv, Unlock
<1> DEFINE to == IF Len(jobs[a]) > 1 THEN "lock" ELSE "idle"
<1>1. /\ pc'[a] = to /\ \A u \in Threads \ {a} : pc'[u] = pc[u]
  BY DEF IInv, Types, Threads, Unlock
<1>2. /\ UNCHANGED <<list, path, iter, elem>>
      /\ jobs' = [jobs EXCEPT ![a] = Tail(jobs[a])]
  BY DEF Unlock
<1>3. /\ Tail(jobs[a]) \in JobLists
      /\ to # "idle" => Tail(jobs[a]) # <<>>
      /\ \A n \in Node : AddsIn(Tail(jobs[a]), n)
                         => AddsIn(jobs[a], n) /\ Head(jobs[a]) # Adding(n)
  BY <1>0, TailFacts
<1> HIDE DEF to
<1>5. /\ jobs' \in [Admins -> JobLists] /\ jobs'[a] = Tail(jobs[a])
      /\ \A b \in Admins \ {a} : jobs'[b] = jobs[b]
  BY <1>0, <1>2, <1>3
<1>6. \A n \in Node : /\ Adds(a, n)' => Adds(a, n) /\ Head(jobs[a]) # Adding(n)
                      /\ \A b \in Admins \ {a} : Adds(b, n)' <=> Adds(b, n)
  BY <1>3, <1>5 DEF Adds
<1>8. JobsInv'
  <2>1. \A b \in Admins : pc'[b] # "idle" => jobs'[b] # <<>>
    BY <1>1, <1>3, <1>5 DEF TableInv, JobsInv, Threads
  <2>2. \A b, c \in Admins, m, n \in Node : Adds(b, m)' /\ Adds(c, n)' => b = c
    BY <1>6 DEF TableInv, JobsInv
  <2>3. ASSUME NEW b \in Admins, NEW n \in Node, Adds(b, n)',
               ~(pc'[b] = "left" /\ Head(jobs'[b]) = Adding(n))
        PROVE  n \notin list'.allocated
    <3>1. CASE b = a
      BY <1>2, <1>6, <2>3, <3>1 DEF TableInv, JobsInv
    <3>2. CASE b # a
      <4>1. pc'[b] = pc[b] /\ jobs'[b] = jobs[b] /\ Adds(b, n)
        BY <1>1, <1>5, <1>6, <2>3, <3>2 DEF Threads
      <4> QED
        BY <1>2, <2>3, <4>1 DEF TableInv, JobsInv
    <3> QED
      BY <3>1, <3>2
  <2> QED
    BY <1>5, <2>1, <2>2, <2>3 DEF JobsInv
<1>9. SearchInv' /\ ListInv' /\ LocalTypes'
  BY <1>1, <1>2, Disjoint
     DEF TableInv, SearchInv, Seeking, Passed, ListInv, LocalTypes, Threads
<1> QED
  BY <1>8, <1>9 DEF TableInv

(* What a change leaves in the list. *)
LEMMA ChangedTable ==
  ASSUME TableInv, ErasesAtEnds, NEW a \in Admins, pc[a] = "change"
  PROVE  LET r == Changed(Head(jobs[a])[1], Head(jobs[a])[2])
         IN  /\ Table(r)
             /\ \A n \in r.allocated : n \in list.allocated \/ Head(jobs[a]) = Adding(n)
<1> DEFINE h == Head(jobs[a])
           r == Changed(h[1], h[2])
<1>1. jobs[a] \in JobLists /\ jobs[a] # <<>> /\ Table(list)
  BY DEF TableInv, JobsInv, ListInv
<1>2. PICK m \in Node : \/ h = Adding(m) /\ AddsIn(jobs[a], m)
                        \/ h = Erasing(m)
  BY <1>1, HeadFacts
<1>3. CASE h = Adding(m) /\ AddsIn(jobs[a], m)
  <2>1. h[1] = "add" /\ h[2] = m
    BY <1>3, JobFacts
  <2>2. r = Push(list, m, Prio[m])
    BY <2>1 DEF Changed
  <2>3. m \notin list.allocated
    BY <1>3 DEF TableInv, JobsInv, Adds
  <2> HIDE DEF r, h
  <2>4. Table(r) /\ r.allocated = list.allocated \cup {m}
    BY <1>1, <2>2, <2>3, TablePush
  <2> QED
    BY <1>3, <2>4 DEF h, r
<1>4. CASE h = Erasing(m)
  <2>1. h[1] = "erase" /\ h[2] = m
    BY <1>4, JobFacts
  <2> DEFINE victim == Victim(Name[m])
  <2>2. victim \in {list.head, list.tail, Null}
    BY <2>1 DEF ErasesAtEnds
  <2>3. r = IF victim = Null THEN list ELSE Erase(list, victim)
    BY <2>1 DEF Changed
  <2> HIDE DEF r, h, victim
  <2>4. Table(r) /\ r.allocated \subseteq list.allocated
    BY <1>1, <2>2, <2>3, TableErase
  <2> QED
    BY <2>4 DEF h, r
<1> QED
  BY <1>2, <1>3, <1>4

LEMMA ChangeTable ==
  ASSUME IInv, TableInv, ErasesAtEnds, NEW a \in Admins, Change(a)
  PROVE  TableInv'
<1>1. /\ pc'[a] = "left" /\ pc[a] = "change" /\ \A u \in Threads \ {a} : pc'[u] = pc[u]
  BY Moved, Disjoint DEF IInv, Threads, Change, AdminPoints
<1>2. UNCHANGED <<jobs, path, iter, elem>>
  BY DEF Change
<1>3. /\ Table(list)'
      /\ \A n \in list'.allocated : n \in list.allocated \/ Head(jobs[a]) = Adding(n)
  BY <1>1, ChangedTable DEF Change, Table
<1>4. ListInv' /\ LocalTypes'
  BY <1>2, <1>3 DEF ListInv, TableInv, LocalTypes
<1>5. Readers = {}
  <2>1. used = 0
    BY <1>1 DEF IInv, NoReaderAtChange
  <2> QED
    BY <2>1, ReadersFinite, FS_EmptySet DEF IInv, UsedCounts
<1>6. \A w \in Workers : pc'[w] \notin {"search", "serve"}
  BY <1>1, <1>5, Disjoint DEF Readers, Reading, Threads
<1>7. SearchInv'
  BY <1>6 DEF SearchInv, Seeking
<1>8. \A b \in Admins, n \in Node : Adds(b, n)' <=> Adds(b, n)
  BY <1>2 DEF Adds, AddsIn
<1>9. ASSUME NEW b \in Admins, NEW n \in Node, Adds(b, n)',
             ~(pc'[b] = "left" /\ Head(jobs'[b]) = Adding(n))
      PROVE  n \notin list'.allocated
  <2>1. Adds(b, n)
    BY <1>8, <1>9
  <2>2. ASSUME Head(jobs[a]) = Adding(n) PROVE FALSE
    <3>1. jobs[a] \in JobLists /\ jobs[a] # <<>>
      BY <1>1 DEF TableInv, JobsInv
    <3>2. PICK m \in Node : \/ Head(jobs[a]) = Adding(m) /\ AddsIn(jobs[a], m)
                            \/ Head(jobs[a]) = Erasing(m)
      BY <3>1, HeadFacts
    <3>3. Adds(a, n)
      BY <2>2, <3>2, JobFacts DEF Adds
    <3>4. a = b
      BY <2>1, <3>3 DEF TableInv, JobsInv
    <3> QED
      BY <1>1, <1>2, <1>9, <2>2, <3>4
  <2>3. ~(pc[b] = "left" /\ Head(jobs[b]) = Adding(n))
    BY <1>1, <1>2, <1>9 DEF Threads
  <2>4. n \notin list.allocated
    BY <2>1, <2>3 DEF TableInv, JobsInv
  <2> QED
    BY <1>3, <2>2, <2>4
<1>10. JobsInv'
  <2>1. \A b \in Admins : pc'[b] # "idle" => jobs'[b] # <<>>
    BY <1>1, <1>2 DEF TableInv, JobsInv, Threads
  <2> QED
    BY <1>2, <1>8, <1>9, <2>1 DEF TableInv, JobsInv
<1> QED
  BY <1>4, <1>7, <1>10 DEF TableInv

LEMMA TableNext == IInv /\ TableInv /\ ErasesAtEnds /\ [Next]_vars => TableInv'
<1> SUFFICES ASSUME IInv, TableInv, ErasesAtEnds, [Next]_vars PROVE TableInv'
  OBVIOUS
<1>1. ASSUME NEW w \in Workers, WorkerStep(w) \/ \E p \in Paths : Exec(w, p) PROVE TableInv'
  BY <1>1, WorkerTable
<1>2. ASSUME NEW a \in Admins, AdminStep(a) PROVE TableInv'
  <2>0. a \in Threads /\ a \notin Workers
    BY Disjoint DEF Threads
  <2>1. CASE Acquire(a)
    <3>1. /\ pc[a] \in {"lock", "relock"} /\ UNCHANGED <<list, jobs, path, iter, elem>>
          /\ \A u \in Threads \ {a} : pc'[u] = pc[u]
      BY <2>1 DEF Acquire, IInv, Types
    <3> QED
      BY <2>0, <3>1, TableKept DEF TableInv, LocalTypes
  <2>2. CASE Mark(a)
    BY <2>0, <2>2, Moved, TableKept DEF Mark, Goto, IInv, Types, AdminPoints, TableInv, LocalTypes
  <2>3. CASE Wait(a)
    BY <2>0, <2>3, Moved, TableKept DEF Wait, Goto, IInv, Types, AdminPoints, TableInv, LocalTypes
  <2>4. CASE Change(a)
    BY <2>4, ChangeTable
  <2>5. CASE Unlock(a)
    BY <2>5, UnlockTable
  <2> QED
    BY <1>2, <2>1, <2>2, <2>3, <2>4, <2>5 DEF AdminStep
<1>3. ASSUME NEW a \in Admins, NEW n \in Node,
             \/ Free(n) /\ Request(a, <<Adding(n)>>)
             \/ Request(a, <<Erasing(n)>>)
             \/ Free(n) /\ Request(a, <<Erasing(n), Adding(n)>>)
      PROVE  TableInv'
  BY <1>3, RequestTable DEF Asks
<1>4. CASE UNCHANGED vars
  <2>1. UNCHANGED <<list, pc, path, iter, elem, jobs>>
    BY <1>4 DEF vars
  <2>2. JobsInv' /\ LocalTypes' /\ ListInv'
    BY <2>1 DEF TableInv, JobsInv, Adds, AddsIn, LocalTypes, ListInv
  <2>3. SearchInv'
    BY <2>1 DEF TableInv, SearchInv, Seeking, Passed
  <2> QED
    BY <2>2, <2>3 DEF TableInv
<1> QED
  BY <1>1, <1>2, <1>3, <1>4 DEF Next

(* The invariant holds as long as elements are erased at the ends.         *)
LEMMA TableHolds == Spec /\ []ErasesAtEnds => [](IInv /\ TableInv)
<1>1. Init => IInv /\ TableInv
  BY InitInv, TableInit
<1>2. IInv /\ TableInv /\ ErasesAtEnds /\ [Next]_vars => (IInv /\ TableInv)'
  BY NextInv, TableNext
<1> QED
  BY <1>1, <1>2, PTL DEF Spec

-----------------------------------------------------------------------------
(* As long as only elements at the ends are erased, no worker is ever left *)
(* with an iterator on, or an element of, memory that was freed.           *)
THEOREM ElementsStayLive == Spec /\ []ErasesAtEnds => []ElementsLive
<1>1. IInv /\ TableInv => ElementsLive
  <2> SUFFICES ASSUME IInv, TableInv, NEW w \in Workers
               PROVE  /\ pc[w] \in {"search", "serve"} => iter[w] \in list.allocated \cup {Null}
                      /\ pc[w] = "serve" => elem[w] \in list.allocated
    BY DEF ElementsLive
  <2>1. PICK s \in Orders : ListOf(list, s) /\ Forward(list) = s /\ Len(s) \in Nat
    BY OrderOfTable DEF TableInv
  <2>2. \A i \in 1 .. Len(s) : s[i] \in list.allocated
    BY <2>1 DEF ListOf, Clear, Elements
  <2>3. CASE pc[w] = "search"
    <3>1. PICK i \in 1 .. Len(s) + 1 : iter[w] = IF i <= Len(s) THEN s[i] ELSE Null
      BY <2>1, <2>3 DEF TableInv, SearchInv, Seeking
    <3>2. i <= Len(s) => i \in 1 .. Len(s)
      BY <2>1
    <3> QED
      BY <2>2, <2>3, <3>1, <3>2
  <2>4. CASE pc[w] = "serve"
    <3>1. PICK i \in 1 .. Len(s) : /\ elem[w] = s[i]
                                   /\ iter[w] = IF i < Len(s) THEN s[i + 1] ELSE Null
      BY <2>1, <2>4 DEF TableInv, SearchInv, Seeking
    <3>2. i < Len(s) => i + 1 \in 1 .. Len(s)
      BY <2>1
    <3> QED
      BY <2>2, <3>1, <3>2
  <2> QED
    BY <2>3, <2>4
<1> QED
  BY <1>1, TableHolds, PTL

(* As long as only elements at the ends are erased, the module that serves *)
(* a request has the longest pattern of those that match its path.         *)
THEOREM LongestIsServed == Spec /\ []ErasesAtEnds => []LongestServes
<1>1. IInv /\ TableInv => LongestServes
  <2> SUFFICES ASSUME IInv, TableInv, NEW w \in Workers, pc[w] = "serve",
                      NEW n \in list.allocated, path[w] \in Matched[n]
               PROVE  Prio[n] <= Prio[elem[w]]
    BY DEF LongestServes
  <2>1. PICK s \in Orders : ListOf(list, s) /\ Forward(list) = s /\ Len(s) \in Nat
    BY OrderOfTable DEF TableInv
  <2>2. PICK i \in 1 .. Len(s) : elem[w] = s[i] /\ Passed(w, s, i)
    BY <2>1 DEF TableInv, SearchInv, Seeking
  <2>3. PICK j \in 1 .. Len(s) : n = s[j]
    BY <2>1 DEF ListOf, Clear, Elements
  <2>4. i <= j
    <3>1. j < i => j \in 1 .. i - 1
      BY <2>1
    <3> QED
      BY <2>1, <2>2, <2>3, <3>1 DEF Passed
  <2>5. \A m \in list.allocated : list.prio[m] = Prio[m]
    BY DEF TableInv, ListInv, Table
  <2>6. s[i] \in list.allocated /\ s[i] \in Node /\ n \in Node
    BY <2>1, <2>3 DEF ListOf, Clear, Elements, Orders
  <2>7. list.enable_prio
    BY DEF TableInv, ListInv, Table
  <2>8. i < j => list.prio[s[i]] >= list.prio[s[j]]
    BY <2>1, <2>7 DEF ListOf, Sorted
  <2>9. Prio[s[i]] \in Nat /\ Prio[n] \in Nat
    BY <2>6, RegistryAssumption
  <2>10. CASE i = j
    BY <2>2, <2>3, <2>9, <2>10
  <2>11. CASE i # j
    <3>1. list.prio[s[i]] = Prio[s[i]] /\ list.prio[s[j]] = Prio[n]
      BY <2>3, <2>5, <2>6
    <3>2. list.prio[s[i]] >= list.prio[s[j]]
      BY <2>1, <2>4, <2>8, <2>11
    <3> QED
      BY <2>2, <2>9, <3>1, <3>2
  <2> QED
    BY <2>10, <2>11
<1> QED
  BY <1>1, TableHolds, PTL
=============================================================================
