--------------------------- MODULE EventQueueProofs ---------------------------
(***************************************************************************)
(* Theorems about EventQueue, for every number of threads, every set of    *)
(* elements and every ring size: the shape of the ring, the mutex, the     *)
(* wake-ups, and that the ring under its mutex implements BoundedFifo.     *)
(***************************************************************************)
EXTENDS EventQueue, SequenceTheorems, TLAPS

-----------------------------------------------------------------------------
(* The arithmetic of ring positions.                                       *)

(* A position below the ring size is its own slot. *)
LEMMA SlotOfSmall ==
  ASSUME NEW M \in Nat \ {0}, NEW a \in 0 .. M - 1
  PROVE  a % M = a
OBVIOUS

(* A position in the second lap is a slot one lap earlier. *)
LEMMA SlotOfLap ==
  ASSUME NEW M \in Nat \ {0}, NEW a \in M .. M + M - 1
  PROVE  a % M = a - M
OBVIOUS

(* The slot after the one that lies k behind f lies k + 1 behind f: what   *)
(* "near" does in a put.                                                   *)
LEMMA StepNear ==
  ASSUME NEW M \in Nat \ {0}, NEW f \in 0 .. M - 1, NEW k \in 0 .. M - 1
  PROVE  (((f + k) % M) + 1) % M = (f + (k + 1)) % M
<1>1. CASE f + k + 1 < M
  BY <1>1, SlotOfSmall
<1>2. CASE f + k + 1 = M
  <2>1. (f + k) % M = f + k
    BY <1>2, SlotOfSmall
  <2> QED
    BY <1>2, <2>1
<1>3. CASE f + k + 1 > M
  <2>1. (f + k) % M = f + k - M
    <3>1. f + k \in M .. M + M - 1
      BY <1>3
    <3> QED BY <3>1, SlotOfLap
  <2>2. (f + k - M + 1) % M = f + k - M + 1
    <3>1. f + k - M + 1 \in 0 .. M - 1
      BY <1>3
    <3> QED BY <3>1, SlotOfSmall
  <2>3. (f + (k + 1)) % M = f + k + 1 - M
    <3>1. f + (k + 1) \in M .. M + M - 1
      BY <1>3
    <3> QED BY <3>1, SlotOfLap
  <2> QED
    BY <2>1, <2>2, <2>3
<1> QED
  BY <1>1, <1>2, <1>3

(* The slot k behind f is the slot k - 1 behind the successor of f: what   *)
(* "front" does in a get.                                                  *)
LEMMA StepFront ==
  ASSUME NEW M \in Nat \ {0}, NEW f \in 0 .. M - 1, NEW k \in 1 .. M - 1
  PROVE  (((f + 1) % M) + (k - 1)) % M = (f + k) % M
<1>1. CASE f + 1 < M
  <2>1. (f + 1) % M = f + 1
    BY <1>1, SlotOfSmall
  <2> QED
    BY <2>1
<1>2. CASE f + 1 = M
  <2>1. (f + 1) % M = 0
    BY <1>2, SlotOfLap
  <2>2. (k - 1) % M = k - 1
    BY SlotOfSmall
  <2>3. (f + k) % M = f + k - M
    BY <1>2, SlotOfLap
  <2> QED
    BY <1>2, <2>1, <2>2, <2>3
<1> QED
  BY <1>1, <1>2

(* The remainder of a position is a slot. *)
LEMMA IsSlot ==
  ASSUME NEW M \in Nat \ {0}, NEW a \in Int
  PROVE  a % M \in 0 .. M - 1
OBVIOUS

-----------------------------------------------------------------------------
(* Every variable keeps its type, and the ring keeps its shape.  The two   *)
(* are inductive together: a put stays inside the ring because it has left *)
(* one slot free.                                                          *)
TypeRing == TypeOK /\ Ring

LEMMA TypeRingInit == Init => TypeRing
<1> SUFFICES ASSUME Init PROVE TypeRing
  OBVIOUS
<1> USE DEF Init
<1>1. TypeOK
  <2>1. 0 \in Slots
    BY QueueAssumption DEF Slots
  <2>2. pc \in [Threads -> Points]
    BY DEF Points
  <2>3. rc \in [Threads -> {"OK", "FULL", "EMPTY"}]
    OBVIOUS
  <2> QED
    BY <2>1, <2>2, <2>3 DEF TypeOK
<1>2. Ring
  BY QueueAssumption, SlotOfSmall DEF Ring
<1> QED
  BY <1>1, <1>2 DEF TypeRing

LEMMA TypeRingStep == TypeRing /\ [Next]_vars => TypeRing'
<1> SUFFICES ASSUME TypeRing, [Next]_vars PROVE TypeRing'
  OBVIOUS
<1> USE QueueAssumption DEF TypeRing, TypeOK, Ring, Slots, Threads, Points, ring
<1>1. ASSUME NEW p \in Producers, NEW e \in Elems, NEW w \in WaitModes, CallPut(p, e, w)
      PROVE  TypeRing'
  BY <1>1 DEF CallPut, Goto
<1>2. ASSUME NEW c \in Consumers, NEW w \in WaitModes, CallGet(c, w)
      PROVE  TypeRing'
  BY <1>2 DEF CallGet, Goto
<1>3. ASSUME NEW t \in Threads, Lock(t)
      PROVE  TypeRing'
  BY <1>3 DEF Lock, Acquire
<1>4. ASSUME NEW t \in Threads, Store(t)
      PROVE  TypeRing'
  <2>1. /\ t \in Producers
        /\ count + 1 < Max
        /\ count' = count + 1
        /\ near' = (near + 1) % Max
        /\ events' = [events EXCEPT ![near] = arg[t]]
        /\ front' = front /\ phase' = phase
    BY <1>4 DEF Store, PutBlocked
  <2>2. near' \in Slots
    BY <2>1, IsSlot
  <2>3. phase = "live" => near' = (front + (count + 1)) % Max
    <3>1. (((front + count) % Max) + 1) % Max = (front + (count + 1)) % Max
      <4>1. Max \in Nat \ {0} /\ front \in 0 .. Max - 1 /\ count \in 0 .. Max - 1
        BY <2>1
      <4> QED
        BY ONLY <4>1, StepNear
    <3> QED
      BY <2>1, <3>1
  <2>4. Ring'
    BY <2>1, <2>3
  <2>5. TypeOK'
    BY <1>4, <2>1, <2>2 DEF Store, Goto
  <2> QED
    BY <2>4, <2>5
<1>5. ASSUME NEW t \in Threads, Fetch(t)
      PROVE  TypeRing'
  <2>1. /\ t \in Consumers
        /\ count \in 1 .. Max - 1
        /\ count' = count - 1
        /\ front' = (front + 1) % Max
        /\ near' = near /\ phase' = phase
    BY <1>5 DEF Fetch, GetBlocked
  <2>2. front' \in Slots
    BY <2>1, IsSlot
  <2>3. phase = "live" => near = (front' + (count - 1)) % Max
    BY <2>1, StepFront
  <2>4. Ring'
    BY <2>1, <2>3
  <2>5. TypeOK'
    BY <1>5, <2>1, <2>2 DEF Fetch, Goto
  <2> QED
    BY <2>4, <2>5
<1>6. ASSUME NEW t \in Threads, Refuse(t)
      PROVE  TypeRing'
  BY <1>6 DEF Refuse, Goto
<1>7. ASSUME NEW t \in Threads, Sleep(t)
      PROVE  TypeRing'
  BY <1>7 DEF Sleep, Goto, Release
<1>8. ASSUME NEW t \in Threads, Unlock(t)
      PROVE  TypeRing'
  BY <1>8 DEF Unlock, Goto, Release
<1>9. ASSUME NEW t \in Threads, Broadcast(t)
      PROVE  TypeRing'
  BY <1>9 DEF Broadcast
<1>10. ASSUME NEW t \in Threads, \/ SpuriousWakeup(t) \/ CancelSleep(t) \/ CancelIdle(t)
       PROVE  TypeRing'
  BY <1>10 DEF SpuriousWakeup, CancelSleep, CancelIdle, Goto
<1>11. ASSUME NEW t \in Threads, Cancel(t)
       PROVE  TypeRing'
  BY <1>11 DEF Cancel
<1>12. ASSUME NEW t \in Threads, Unwind(t) \/ Cleanup(t)
       PROVE  TypeRing'
  BY <1>12 DEF Unwind, Cleanup, Goto, Acquire, Release
<1>13. ASSUME DestroyReset
       PROVE  TypeRing'
  <2>1. owed' \subseteq Elems \cup {NoElem}
    <3>1. ASSUME NEW i \in 1 .. count
          PROVE  Contents[i] \in Elems \cup {NoElem}
      <4>1. (front + i - 1) % Max \in Slots
        BY IsSlot
      <4> QED
        BY <4>1 DEF Contents
    <3> QED
      BY <1>13, <3>1 DEF DestroyReset
  <2> QED
    BY <1>13, <2>1 DEF DestroyReset
<1>14. ASSUME DestroyDrain
       PROVE  TypeRing'
  BY <1>14 DEF DestroyDrain
<1>15. CASE UNCHANGED vars
  BY <1>15 DEF vars
<1> QED
  BY <1>1, <1>2, <1>3, <1>4, <1>5, <1>6, <1>7, <1>8, <1>9, <1>10, <1>11, <1>12,
     <1>13, <1>14, <1>15 DEF Next, Inside

(* Type correctness of the queue: no index ever leaves the ring and every  *)
(* thread is at a point of put or get.                                     *)
THEOREM TypeCorrect == Spec => []TypeOK
<1>1. TypeRing => TypeOK
  BY DEF TypeRing
<1> QED
  BY <1>1, TypeRingInit, TypeRingStep, PTL DEF Spec

(* At most Max - 1 elements are queued and, as long as the queue is live,  *)
(* the slots in use are the count slots from front on, up to near: a put   *)
(* never overwrites an element that was not taken.                         *)
THEOREM RingShape == Spec => []Ring
<1>1. TypeRing => Ring
  BY DEF TypeRing
<1> QED
  BY <1>1, TypeRingInit, TypeRingStep, PTL DEF Spec

-----------------------------------------------------------------------------
(* The mutex.  Its invariant is inductive on top of type correctness.      *)
LEMMA MutexStep == TypeOK /\ MutexHeldInside /\ [Next]_vars => MutexHeldInside'
<1> SUFFICES ASSUME TypeOK, MutexHeldInside, [Next]_vars PROVE MutexHeldInside'
  OBVIOUS
<1>a. NoOne \notin Threads /\ pc \in [Threads -> Points]
  BY QueueAssumption DEF TypeOK
<1> USE <1>a DEF MutexHeldInside, Critical
<1>1. ASSUME NEW p \in Producers, NEW e \in Elems, NEW w \in WaitModes, CallPut(p, e, w)
      PROVE  MutexHeldInside'
  BY <1>1 DEF CallPut, Goto
<1>2. ASSUME NEW c \in Consumers, NEW w \in WaitModes, CallGet(c, w)
      PROVE  MutexHeldInside'
  BY <1>2 DEF CallGet, Goto
<1>3. ASSUME NEW t \in Threads, Lock(t) \/ Unwind(t)
      PROVE  MutexHeldInside'
  BY <1>3 DEF Lock, Unwind, Goto, Acquire
<1>4. ASSUME NEW t \in Threads, Sleep(t) \/ Unlock(t) \/ Cleanup(t)
      PROVE  MutexHeldInside'
  BY <1>4 DEF Sleep, Unlock, Cleanup, Goto, Release
<1>5. ASSUME NEW t \in Threads, Store(t) \/ Fetch(t) \/ Refuse(t)
      PROVE  MutexHeldInside'
  BY <1>5 DEF Store, Fetch, Refuse, Goto
<1>6. ASSUME NEW t \in Threads, Broadcast(t)
      PROVE  MutexHeldInside'
  BY <1>6 DEF Broadcast
<1>7. ASSUME NEW t \in Threads, \/ SpuriousWakeup(t) \/ CancelSleep(t) \/ CancelIdle(t)
      PROVE  MutexHeldInside'
  BY <1>7 DEF SpuriousWakeup, CancelSleep, CancelIdle, Goto
<1>8. ASSUME NEW t \in Threads, Cancel(t)
      PROVE  MutexHeldInside'
  BY <1>8 DEF Cancel
<1>9. CASE DestroyReset \/ DestroyDrain
  BY <1>9 DEF DestroyReset, DestroyDrain
<1>10. CASE UNCHANGED vars
  BY <1>10 DEF vars
<1> QED
  BY <1>1, <1>2, <1>3, <1>4, <1>5, <1>6, <1>7, <1>8, <1>9, <1>10 DEF Next, Inside

(* The mutex of the queue is held by exactly the thread that is between    *)
(* lock and unlock, also when a worker is cancelled inside                 *)
(* pthread_cond_wait: a worker that died does not hold it.                 *)
THEOREM MutexCorrect == Spec => []MutexHeldInside
<1>1. Init => MutexHeldInside
  BY QueueAssumption DEF Init, MutexHeldInside, Critical
<1> QED
  BY <1>1, MutexStep, TypeCorrect, PTL DEF Spec

-----------------------------------------------------------------------------
(* Lost wakeups.  A thread goes to sleep only while its condition holds;   *)
(* the step that ends the condition leaves its thread notifying, and it    *)
(* stays so until its broadcast, which leaves no thread asleep.            *)
LEMMA WakeupStep == TypeOK /\ NoLostWakeup /\ [Next]_vars => NoLostWakeup'
<1> SUFFICES ASSUME TypeOK, NoLostWakeup, [Next]_vars PROVE NoLostWakeup'
  OBVIOUS
<1>a. /\ Producers \cap Consumers = {}
      /\ pc \in [Threads -> Points]
      /\ count \in Nat
      /\ Max \in Nat
  BY QueueAssumption DEF TypeOK
<1> USE <1>a DEF NoLostWakeup, Notifying, PutBlocked, GetBlocked, Threads, ring
<1>1. ASSUME NEW p \in Producers, NEW e \in Elems, NEW w \in WaitModes, CallPut(p, e, w)
      PROVE  NoLostWakeup'
  BY <1>1 DEF CallPut, Goto
<1>2. ASSUME NEW c \in Consumers, NEW w \in WaitModes, CallGet(c, w)
      PROVE  NoLostWakeup'
  BY <1>2 DEF CallGet, Goto
<1>3. ASSUME NEW t \in Threads, Lock(t) \/ Unwind(t) \/ Cleanup(t)
      PROVE  NoLostWakeup'
  BY <1>3 DEF Lock, Unwind, Cleanup, Goto
<1>4. ASSUME NEW t \in Threads, Sleep(t)
      PROVE  NoLostWakeup'
  BY <1>4 DEF Sleep, Blocked, Goto
<1>5. ASSUME NEW t \in Threads, Unlock(t)
      PROVE  NoLostWakeup'
  BY <1>5 DEF Unlock, Goto
<1>6. ASSUME NEW t \in Threads, Store(t)
      PROVE  NoLostWakeup'
  BY <1>6 DEF Store, Goto
<1>7. ASSUME NEW t \in Threads, Fetch(t)
      PROVE  NoLostWakeup'
  BY <1>7 DEF Fetch, Goto
<1>8. ASSUME NEW t \in Threads, Refuse(t)
      PROVE  NoLostWakeup'
  BY <1>8 DEF Refuse, Goto
<1>9. ASSUME NEW t \in Threads, Broadcast(t)
      PROVE  NoLostWakeup'
  <2>1. \A u \in Threads : pc'[u] # "sleep"
    BY <1>9 DEF Broadcast
  <2> QED
    BY <2>1
<1>10. ASSUME NEW t \in Threads, \/ SpuriousWakeup(t) \/ CancelSleep(t) \/ CancelIdle(t)
       PROVE  NoLostWakeup'
  BY <1>10 DEF SpuriousWakeup, CancelSleep, CancelIdle, Goto
<1>11. ASSUME NEW t \in Threads, Cancel(t)
       PROVE  NoLostWakeup'
  BY <1>11 DEF Cancel
<1>12. CASE DestroyReset \/ DestroyDrain
  BY <1>12 DEF DestroyReset, DestroyDrain
<1>13. CASE UNCHANGED vars
  BY <1>13 DEF vars
<1> QED
  BY <1>1, <1>2, <1>3, <1>4, <1>5, <1>6, <1>7, <1>8, <1>9, <1>10, <1>11, <1>12, <1>13
  DEF Next, Inside

(* No wakeup is lost: whenever a worker sleeps although an element is      *)
(* queued, or the dispatcher sleeps although there is room, a broadcast    *)
(* that wakes it is still to come.                                         *)
THEOREM WakeupsCorrect == Spec => []NoLostWakeup
<1>1. Init => NoLostWakeup
  BY DEF Init, NoLostWakeup, Threads
<1> QED
  BY <1>1, WakeupStep, TypeCorrect, PTL DEF Spec

-----------------------------------------------------------------------------
(***************************************************************************)
(* The refinement: every Store is a Put, every Fetch a Take, the rest are  *)
(* stuttering steps, and the beginning of destroy is the Close.            *)
(***************************************************************************)
(* Two positions less than a lap apart are different slots. *)
LEMMA DistinctSlots ==
  ASSUME NEW M \in Nat \ {0}, NEW f \in 0 .. M - 1,
         NEW j \in 0 .. M - 1, NEW k \in 0 .. M - 1, j < k
  PROVE  (f + j) % M # (f + k) % M
<1>1. CASE f + k < M
  <2>1. (f + j) % M = f + j /\ (f + k) % M = f + k
    BY <1>1, SlotOfSmall
  <2> QED
    BY <2>1
<1>2. CASE f + j >= M
  <2>1. f + j \in M .. M + M - 1 /\ f + k \in M .. M + M - 1
    BY <1>2
  <2>2. (f + j) % M = f + j - M /\ (f + k) % M = f + k - M
    BY <2>1, SlotOfLap
  <2> QED
    BY <2>2
<1>3. CASE f + j < M /\ f + k >= M
  <2>1. f + j \in 0 .. M - 1 /\ f + k \in M .. M + M - 1
    BY <1>3
  <2>2. (f + j) % M = f + j
    BY <2>1, SlotOfSmall
  <2>3. (f + k) % M = f + k - M
    BY <2>1, SlotOfLap
  <2> QED
    BY <2>2, <2>3
<1> QED
  BY <1>1, <1>2, <1>3

-----------------------------------------------------------------------------
(* What the slots in use and the arguments of put hold: elements, never    *)
(* the content of a slot that was not used.                                *)
Putting == {"lock", "body", "sleep", "relock"}

Filled ==
  /\ \A p \in Producers : pc[p] \in Putting => arg[p] \in Elems
  /\ phase = "live" => \A i \in 1 .. count : Contents[i] \in Elems
  /\ phase # "live" => \A p \in Producers : pc[p] = "idle"
  /\ \A p \in Producers : pc[p] \notin {"unwind", "cleanup", "dead"}

(* A put appends its element to the contents. *)
LEMMA StoreAppends ==
  ASSUME TypeRing, Filled, phase = "live", NEW p \in Producers, Store(p)
  PROVE  /\ Contents' = Append(Contents, arg[p])
         /\ arg[p] \in Elems
         /\ Len(Contents) = count /\ count < Max - 1
         /\ Contents \in Seq(Elems)
<1>1. /\ Max \in Nat \ {0} /\ front \in 0 .. Max - 1 /\ count \in 0 .. Max - 2
      /\ near = (front + count) % Max /\ near \in 0 .. Max - 1
      /\ front' = front /\ count' = count + 1
      /\ events' = [events EXCEPT ![near] = arg[p]]
      /\ events \in [0 .. Max - 1 -> Elems \cup {NoElem}]
  BY QueueAssumption DEF TypeRing, TypeOK, Ring, Slots, Store, PutBlocked
<1>2. arg[p] \in Elems
  BY DEF Filled, Store, Goto, Putting
<1>3. Contents \in Seq(Elems) /\ Len(Contents) = count
  <2>1. \A i \in 1 .. count : Contents[i] \in Elems
    BY DEF Filled
  <2>2. DOMAIN Contents = 1 .. count
    BY DEF Contents
  <2>3. Contents \in [1 .. count -> Elems]
    BY <2>1, <2>2 DEF Contents
  <2> QED
    BY <1>1, <2>3
<1>4. Contents' = [i \in 1 .. count + 1 |-> events'[(front + i - 1) % Max]]
  BY <1>1 DEF Contents
<1>5. ASSUME NEW i \in 1 .. count + 1
      PROVE  Contents'[i] = IF i <= count THEN Contents[i] ELSE arg[p]
  <2>1. (front + i - 1) % Max \in 0 .. Max - 1
    <3>1. front + i - 1 \in Int
      BY <1>1
    <3> QED
      BY ONLY <1>1, <3>1, IsSlot
  <2>2. CASE i <= count
    <3>1. (front + (i - 1)) % Max # (front + count) % Max
      <4>1. i - 1 \in 0 .. Max - 1 /\ count \in 0 .. Max - 1 /\ i - 1 < count
        BY <1>1, <2>2
      <4> QED
        BY <1>1, <4>1, DistinctSlots
    <3>2. events'[(front + i - 1) % Max] = events[(front + i - 1) % Max]
      <4>1. (front + i - 1) % Max # near
        BY <1>1, <3>1
      <4> QED
        BY <1>1, <2>1, <4>1
    <3> QED
      BY <1>1, <1>4, <2>2, <3>2 DEF Contents
  <2>3. CASE i = count + 1
    <3>1. (front + i - 1) % Max = near
      BY <1>1, <2>3
    <3> QED
      BY <1>1, <1>4, <2>3, <3>1
  <2> QED
    BY <1>1, <2>2, <2>3
<1>6. Contents' \in Seq(Elems) /\ Len(Contents') = count + 1
  <2>1. ASSUME NEW i \in 1 .. count + 1
        PROVE  Contents'[i] \in Elems
    BY <1>1, <1>2, <1>5 DEF Filled
  <2>2. Contents' \in [1 .. count + 1 -> Elems]
    BY <1>4, <2>1
  <2> QED
    BY <1>1, <2>2
<1>7. /\ Append(Contents, arg[p]) \in Seq(Elems)
      /\ Len(Append(Contents, arg[p])) = count + 1
      /\ \A i \in 1 .. count : Append(Contents, arg[p])[i] = Contents[i]
      /\ Append(Contents, arg[p])[count + 1] = arg[p]
  BY <1>2, <1>3, AppendProperties
<1>8. \A i \in 1 .. count + 1 : Contents'[i] = Append(Contents, arg[p])[i]
  BY <1>1, <1>5, <1>7
<1>9. Contents' = Append(Contents, arg[p])
  BY <1>6, <1>7, <1>8, SeqEqual
<1> QED
  BY <1>1, <1>2, <1>3, <1>9

(* A get takes the head of the contents. *)
LEMMA FetchTakesHead ==
  ASSUME TypeRing, Filled, phase = "live", NEW c \in Consumers, Fetch(c)
  PROVE  /\ Contents # <<>>
         /\ Contents' = Tail(Contents)
         /\ out'[c] = Head(Contents) /\ Head(Contents) \in Elems
<1>1. /\ Max \in Nat \ {0} /\ front \in 0 .. Max - 1 /\ count \in 1 .. Max - 1
      /\ front' = (front + 1) % Max /\ count' = count - 1 /\ events' = events
      /\ out' = [out EXCEPT ![c] = events[front]]
      /\ out \in [Consumers -> Elems \cup {NoElem}]
  BY QueueAssumption DEF TypeRing, TypeOK, Ring, Slots, Fetch, GetBlocked
<1>2. Contents \in Seq(Elems) /\ Len(Contents) = count
  <2>1. \A i \in 1 .. count : Contents[i] \in Elems
    BY DEF Filled
  <2>2. Contents \in [1 .. count -> Elems]
    BY <2>1 DEF Contents
  <2> QED
    BY <1>1, <2>2
<1>3. Contents # <<>> /\ Head(Contents) = Contents[1]
  BY <1>1, <1>2
<1>4. Contents[1] = events[front]
  <2>1. (front + 1 - 1) % Max = front
    BY <1>1, SlotOfSmall
  <2> QED
    BY <1>1, <2>1 DEF Contents
<1>5. /\ Tail(Contents) \in Seq(Elems)
      /\ Len(Tail(Contents)) = count - 1
      /\ \A i \in 1 .. count - 1 : Tail(Contents)[i] = Contents[i + 1]
  BY <1>2, <1>3, HeadTailProperties
<1>6. Contents' = [i \in 1 .. count - 1 |-> events[(front' + i - 1) % Max]]
  BY <1>1 DEF Contents
<1>7. ASSUME NEW i \in 1 .. count - 1
      PROVE  Contents'[i] = Contents[i + 1]
  <2>1. (((front + 1) % Max) + (i - 1)) % Max = (front + i) % Max
    <3>1. i \in 1 .. Max - 1
      BY <1>1
    <3> QED
      BY <1>1, <3>1, StepFront
  <2>2. front' \in 0 .. Max - 1
    BY <1>1, IsSlot
  <2>3. front' + i - 1 = front' + (i - 1) /\ front + (i + 1) - 1 = front + i
    BY <1>1, <2>2
  <2>4. i + 1 \in 1 .. count
    BY <1>1
  <2>5. Contents[i + 1] = events[(front + i) % Max]
    BY <2>3, <2>4 DEF Contents
  <2> QED
    BY <1>1, <1>6, <2>1, <2>3, <2>5
<1>8. Contents' \in Seq(Elems) /\ Len(Contents') = count - 1
  <2>1. ASSUME NEW i \in 1 .. count - 1
        PROVE  Contents'[i] \in Elems
    <3>1. i + 1 \in 1 .. count
      BY <1>1
    <3> QED
      BY <1>7, <3>1 DEF Filled
  <2>2. Contents' \in [1 .. count - 1 -> Elems]
    BY <1>6, <2>1
  <2> QED
    BY <1>1, <2>2
<1>9. Contents' = Tail(Contents)
  BY <1>5, <1>7, <1>8, SeqEqual
<1>10. Contents[1] \in Elems
  BY <1>1 DEF Filled
<1> QED
  BY <1>1, <1>3, <1>4, <1>9, <1>10

-----------------------------------------------------------------------------
(* Filled is inductive on top of the ring's type and shape.                *)
LEMMA FilledStep == TypeRing /\ Filled /\ [Next]_vars => Filled'
<1> SUFFICES ASSUME TypeRing, Filled, [Next]_vars PROVE Filled'
  OBVIOUS
<1>a. /\ Producers \cap Consumers = {}
      /\ pc \in [Threads -> Points]
      /\ arg \in [Producers -> Elems \cup {NoElem}]
      /\ Cancellable \subseteq Consumers
      /\ cancels \subseteq Cancellable
  BY QueueAssumption DEF TypeRing, TypeOK
<1>b. ASSUME UNCHANGED <<count, front, events>>
      PROVE  Contents' = Contents
  BY <1>b DEF Contents
<1> USE <1>a DEF Filled, Putting, Threads, ring
<1>1. ASSUME NEW p \in Producers, NEW e \in Elems, NEW w \in WaitModes, CallPut(p, e, w)
      PROVE  Filled'
  BY <1>1, <1>b DEF CallPut, Goto
<1>2. ASSUME NEW c \in Consumers, NEW w \in WaitModes, CallGet(c, w)
      PROVE  Filled'
  BY <1>2, <1>b DEF CallGet, Goto
<1>3. ASSUME NEW t \in Threads, Lock(t) \/ Sleep(t) \/ Unlock(t) \/ Refuse(t)
      PROVE  Filled'
  BY <1>3, <1>b DEF Lock, Sleep, Unlock, Refuse, Goto
<1>4. ASSUME NEW t \in Threads, Store(t)
      PROVE  Filled'
  <2>1. t \in Producers /\ phase = "live" /\ phase' = phase /\ count' = count + 1
    BY <1>4 DEF Store, Goto
  <2>2. \A i \in 1 .. count' : Contents'[i] \in Elems
    <3>1. /\ Contents' = Append(Contents, arg[t]) /\ arg[t] \in Elems
          /\ Contents \in Seq(Elems) /\ Len(Contents) = count
      BY <1>4, <2>1, StoreAppends
    <3>2. /\ Contents' \in Seq(Elems)
          /\ Len(Contents') = count'
      BY <2>1, <3>1, AppendProperties
    <3> QED
      BY ONLY <3>2, ElementOfSeq
  <2> QED
    BY <1>4, <2>1, <2>2 DEF Store, Goto
<1>5. ASSUME NEW t \in Threads, Fetch(t)
      PROVE  Filled'
  <2>1. t \in Consumers /\ phase' = phase /\ count' = count - 1
    BY <1>5 DEF Fetch
  <2>2. phase = "live" => \A i \in 1 .. count' : Contents'[i] \in Elems
    <3> SUFFICES ASSUME phase = "live", NEW i \in 1 .. count'
                 PROVE  Contents'[i] \in Elems
      OBVIOUS
    <3>1. Contents \in Seq(Elems) /\ Len(Contents) = count
      <4>1. count \in Nat
        BY DEF TypeRing, TypeOK
      <4>2. Contents \in [1 .. count -> Elems]
        BY DEF Contents
      <4> QED
        BY <4>1, <4>2
    <3> QED
      BY <1>5, <2>1, <3>1, FetchTakesHead, HeadTailProperties
  <2> QED
    BY <1>5, <2>1, <2>2 DEF Fetch, Goto
<1>6. ASSUME NEW t \in Threads, Broadcast(t)
      PROVE  Filled'
  BY <1>6, <1>b DEF Broadcast
<1>7. ASSUME NEW t \in Threads,
             \/ SpuriousWakeup(t) \/ CancelSleep(t) \/ CancelIdle(t)
             \/ Unwind(t) \/ Cleanup(t)
      PROVE  Filled'
  BY <1>7, <1>b DEF SpuriousWakeup, CancelSleep, CancelIdle, Unwind, Cleanup, Goto
<1>8. ASSUME NEW t \in Threads, Cancel(t)
      PROVE  Filled'
  BY <1>8, <1>b DEF Cancel
<1>9. CASE DestroyReset \/ DestroyDrain
  BY <1>9 DEF DestroyReset, DestroyDrain
<1>10. CASE UNCHANGED vars
  BY <1>10, <1>b DEF vars
<1> QED
  BY <1>1, <1>2, <1>3, <1>4, <1>5, <1>6, <1>7, <1>8, <1>9, <1>10 DEF Next, Inside

-----------------------------------------------------------------------------
(* Every step of the queue is a step of the abstract FIFO or a stutter.    *)
LEMMA StepSimulation == TypeRing /\ Filled /\ [Next]_vars => [Fifo!Next]_(Fifo!fifoVars)
<1> SUFFICES ASSUME TypeRing, Filled, [Next]_vars
             PROVE  Fifo!Next \/ UNCHANGED Fifo!fifoVars
  OBVIOUS
<1>a. /\ Producers \cap Consumers = {}
      /\ out \in [Consumers -> Elems \cup {NoElem}]
      /\ NoElem \notin Elems
      /\ count \in Nat
  BY QueueAssumption DEF TypeRing, TypeOK
<1>b. ASSUME UNCHANGED <<count, front, events, phase, out>>
      PROVE  UNCHANGED Fifo!fifoVars
  BY <1>b DEF Fifo!fifoVars, FifoContents, FifoTaken, Contents
<1> USE DEF ring
<1>1. ASSUME NEW p \in Producers, NEW e \in Elems, NEW w \in WaitModes, CallPut(p, e, w)
      PROVE  UNCHANGED Fifo!fifoVars
  BY <1>1, <1>b DEF CallPut
<1>2. ASSUME NEW c \in Consumers, NEW w \in WaitModes, CallGet(c, w)
      PROVE  Fifo!Next
  <2>1. UNCHANGED <<FifoContents, phase>>
    BY <1>2 DEF CallGet, FifoContents, Contents
  <2>2. FifoTaken' = [FifoTaken EXCEPT ![c] = "nothing"]
    BY <1>2, <1>a DEF CallGet, FifoTaken
  <2> QED
    BY <2>1, <2>2 DEF Fifo!Next, Fifo!Forget
<1>3. ASSUME NEW p \in Producers, Store(p)
      PROVE  Fifo!Next
  <2>1. phase = "live" /\ phase' = "live" /\ out' = out
    BY <1>3, <1>a DEF Store, Goto, Filled
  <2>2. /\ FifoContents' = Append(FifoContents, arg[p])
        /\ arg[p] \in Elems
        /\ Len(FifoContents) < Max - 1
    BY <1>3, <2>1, StoreAppends DEF FifoContents
  <2>3. FifoTaken' = FifoTaken
    BY <2>1 DEF FifoTaken
  <2> QED
    BY <2>1, <2>2, <2>3 DEF Fifo!Next, Fifo!Put
<1>4. ASSUME NEW c \in Consumers, Fetch(c)
      PROVE  Fifo!Next
  <2>1. phase' = phase
    BY <1>4 DEF Fetch
  <2>2. CASE phase = "live"
    <3>1. /\ FifoContents # <<>>
          /\ FifoContents' = Tail(FifoContents)
          /\ out'[c] = Head(FifoContents) /\ Head(FifoContents) \in Elems
      BY <1>4, <2>1, <2>2, FetchTakesHead DEF FifoContents
    <3>2. FifoTaken' = [FifoTaken EXCEPT ![c] = Head(FifoContents)]
      BY <1>4, <1>a, <3>1 DEF Fetch, FifoTaken
    <3> QED
      BY <2>1, <2>2, <3>1, <3>2 DEF Fifo!Next, Fifo!Take
  <2>3. CASE phase # "live"
    BY <2>1, <2>3 DEF Fifo!Next, Fifo!AfterClose, FifoContents
  <2> QED
    BY <2>2, <2>3
<1>5. ASSUME NEW t \in Threads,
             \/ Lock(t) \/ Refuse(t) \/ Sleep(t) \/ Unlock(t) \/ Broadcast(t)
             \/ SpuriousWakeup(t) \/ Cancel(t) \/ CancelIdle(t)
             \/ CancelSleep(t) \/ Unwind(t) \/ Cleanup(t)
      PROVE  UNCHANGED Fifo!fifoVars
  BY <1>5, <1>b DEF Lock, Refuse, Sleep, Unlock, Broadcast, SpuriousWakeup, Cancel,
                    CancelIdle, CancelSleep, Unwind, Cleanup
<1>6. CASE DestroyReset
  BY <1>6 DEF DestroyReset, Fifo!Next, Fifo!Close, FifoContents, FifoTaken
<1>7. CASE DestroyDrain
  BY <1>7 DEF DestroyDrain, Fifo!fifoVars, FifoContents, FifoTaken
<1>8. CASE UNCHANGED vars
  BY <1>8, <1>b DEF vars
<1> QED
  BY <1>1, <1>2, <1>3, <1>4, <1>5, <1>6, <1>7, <1>8 DEF Next, Inside, Store, Fetch

(* Put and get implement a FIFO of Max - 1 elements for any number of      *)
(* threads and any ring size: every element is given to one worker, in the *)
(* order of the puts, also while workers are cancelled.                    *)
THEOREM QueueImplementsFifo == Spec => ImplementsFifo
<1>1. Init => Fifo!Init
  <2> SUFFICES ASSUME Init PROVE Fifo!Init
    OBVIOUS
  <2>1. FifoContents = <<>>
    BY DEF Init, FifoContents, Contents
  <2>2. FifoTaken \in [Consumers -> Elems \cup {"nothing"}]
    BY DEF Init, FifoTaken
  <2> QED
    BY <2>1, <2>2 DEF Init, Fifo!Init
<1>2. Init => TypeRing /\ Filled
  BY TypeRingInit DEF Init, Filled, Putting, Threads
<1>3. TypeRing /\ Filled /\ [Next]_vars => (TypeRing /\ Filled)'
  BY TypeRingStep, FilledStep
<1> QED
  BY <1>1, <1>2, <1>3, StepSimulation, PTL DEF Spec, ImplementsFifo, Fifo!Spec
=============================================================================
