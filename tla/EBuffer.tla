------------------------------ MODULE EBuffer ------------------------------
(* The growing byte buffers a request and a response keep their bodies in     *)
(* (eris.buffer.c).  Two buffers that are filled, copied into each other,     *)
(* cleaned and released in any order, as eris.http.c and eris.slave.c do.     *)
(* written is the highest index a call has written, plus one: with alloc it   *)
(* tells whether the NUL every call puts behind the data still fits.          *)
EXTENDS Integers, Sequences, FiniteSets

CONSTANTS Pieces,     \* what is received or appended at once
          Capacities, \* what eris_buffer_init is asked for
          MaxBuffer   \* bound on alloc

\* What comes from a socket or a caller is bytes, as many as a buffer can hold or not.
ASSUME EBufferAssumption ==
  Pieces \subseteq Seq(STRING) /\ Capacities \subseteq Nat /\ MaxBuffer \in Nat

VARIABLES buf         \* the buffers: [alloc, data, written]
Names == {"body", "piece"}

Absent == [alloc |-> 0, data |-> <<>>, written |-> 0]      \* data is NULL

\* data followed by a NUL, in an allocation of the given size.
Holding(alloc, data) == [alloc |-> alloc, data |-> data, written |-> Len(data) + 1]

Size(b) == Len(b.data)
Room(b) == b.alloc - Size(b)
Capacity(b) == IF Size(b) + 1 < b.alloc THEN Room(b) ELSE 0

NewBuffer(cap) == [Absent EXCEPT !.alloc = cap]
CleanupBuffer(b) == IF b.alloc > 0 THEN Holding(b.alloc, <<>>) ELSE Absent
FreeBuffer(b) == Absent
DestroyBuffer(b) == Absent

AppendBytes(b, s) ==
  IF s = <<>> THEN b
  ELSE Holding(IF Len(s) >= Room(b) THEN b.alloc + Len(s) + 4 ELSE b.alloc, b.data \o s)
AppendByte(b, c) ==
  Holding(IF Room(b) <= 1 THEN b.alloc + 4 ELSE b.alloc, Append(b.data, c))
AppendBuffer(b, from) ==
  IF Size(from) = 0 THEN b
  ELSE Holding(IF Size(from) >= Room(b) THEN b.alloc + Size(from) + 4 ELSE b.alloc,
               b.data \o from.data)

\* A copy that does not fit takes over the size of the source's allocation.
CopyBuffer(to, from) ==
  IF Size(from) = 0 THEN [to EXCEPT !.data = <<>>]
  ELSE Holding(IF to.alloc > Size(from) THEN to.alloc ELSE from.alloc, from.data)
CopyBufferAt(to, from, at) ==
  LET n == Size(from) - at
  IN IF n <= 0 THEN [to EXCEPT !.data = <<>>]
     ELSE Holding(IF n < to.alloc THEN to.alloc ELSE n + 1, SubSeq(from.data, at + 1, Size(from)))

BufferInit == buf = [n \in Names |-> Absent]

Leaves(n, b) == b.alloc <= MaxBuffer /\ buf' = [buf EXCEPT ![n] = b]

Allocate == \E n \in Names, cap \in Capacities : buf[n] = Absent /\ Leaves(n, NewBuffer(cap))
Receive == \E n \in Names, s \in Pieces : Leaves(n, AppendBytes(buf[n], s))
ReceiveByte == \E n \in Names, s \in Pieces :
  s # <<>> /\ Leaves(n, AppendByte(buf[n], Head(s)))
Join == \E n, m \in Names : n # m /\ Leaves(n, AppendBuffer(buf[n], buf[m]))
Copy == \E n, m \in Names : n # m /\ Leaves(n, CopyBuffer(buf[n], buf[m]))
CopyAt == \E n, m \in Names, at \in 0..MaxBuffer :
  n # m /\ Leaves(n, CopyBufferAt(buf[n], buf[m], at))
Clean == \E n \in Names : Leaves(n, CleanupBuffer(buf[n]))
Release == \E n \in Names : Leaves(n, FreeBuffer(buf[n])) \/ Leaves(n, DestroyBuffer(buf[n]))

BufferNext == Allocate \/ Receive \/ ReceiveByte \/ Join \/ Copy \/ CopyAt \/ Clean \/ Release

\* Every call leaves room for the NUL it writes behind the data, whichever call
\* allocated the buffer (append, append_c, append_es, copy and copy_at compare
\* with the room in three different ways): data is never written outside alloc,
\* and a buffer with data has one byte to spare for the next test to count on.
NulFits ==
  \A n \in Names : /\ buf[n].written <= buf[n].alloc
                   /\ buf[n].alloc > 0 => Size(buf[n]) < buf[n].alloc
=============================================================================
