---------------------------- MODULE EventLoopProofs ----------------------------
(***************************************************************************)
(* Theorems about EventLoop, for every set of descriptors, every size of   *)
(* the table and of the poll array, every keepalive: types and slots, who  *)
(* owns a descriptor, and that the loop implements ConnectionLife.         *)
(***************************************************************************)
EXTENDS EventLoop, FiniteSetTheorems, TLAPS

-----------------------------------------------------------------------------
(* Type correctness, with what each point of the dispatcher implies.       *)
InRound == {"accept", "adding", "scan", "callback"}

Rounds ==
  /\ dpc = "accept" /\ svcReady => backlog > 0
  /\ dpc \in {"adding", "callback"} => cur \in Fds
  /\ dpc \notin InRound => revents = NoRevents

TypeInv == TypeOK /\ Rounds

LEMMA TypeInvInit == Init => TypeInv
<1> SUFFICES ASSUME Init PROVE TypeInv
  OBVIOUS
<1>1. /\ 0 \in 0 .. MaxOver /\ 0 \in 0 .. Backlog /\ 0 \in 0 .. Keepalive + 1
      /\ 0 \in 0 .. MaxEntered
  BY EventAssumption
<1>2. age \in [Fds -> 0 .. Keepalive + 1]
  BY <1>1 DEF Init
<1>3. revents \in [Fds -> {"none", "in", "hup"}] /\ net \in [Fds -> {"quiet", "in", "hup"}]
  BY DEF Init, NoRevents
<1>4. svcReady \in BOOLEAN /\ destroyed \in BOOLEAN
  BY DEF Init
<1>5. Rounds
  BY DEF Init, Rounds, InRound
<1> QED
  BY <1>1, <1>2, <1>3, <1>4, <1>5 DEF Init, TypeInv, TypeOK, Points

(* Inserting a node keeps the table typed. *)
LEMMA InsertTyped ==
  ASSUME TypeInv, NEW n \in Fds, NEW none \in BOOLEAN, Insert(n, none)
  PROVE  /\ nodes' \subseteq Fds /\ nodes_count' \in Int /\ muted' \subseteq nodes'
         /\ age' \in [Fds -> 0 .. Keepalive + 1]
<1>1. 0 \in 0 .. Keepalive + 1
  BY EventAssumption
<1>2. age' \in [Fds -> 0 .. Keepalive + 1]
  BY <1>1 DEF Insert, TypeInv, TypeOK
<1> QED
  BY <1>2 DEF Insert, TypeInv, TypeOK

(* Freeing nodes keeps the table typed. *)
LEMMA RemoveTyped ==
  ASSUME TypeInv, NEW S \in SUBSET Fds, Remove(S)
  PROVE  /\ nodes' \subseteq Fds /\ nodes_count' \in Int /\ muted' \subseteq nodes'
         /\ age' \in [Fds -> 0 .. Keepalive + 1]
<1>1. 0 \in 0 .. Keepalive + 1
  BY EventAssumption
<1>2. age' \in [Fds -> 0 .. Keepalive + 1]
  BY <1>1 DEF Remove, TypeInv, TypeOK
<1>3. Cardinality(S) \in Nat
  BY EventAssumption, FS_Subset, FS_CardinalityType
<1>4. nodes_count' \in Int
  BY <1>3 DEF Remove, TypeInv, TypeOK
<1> QED
  BY <1>2, <1>4 DEF Remove, TypeInv, TypeOK

(* Closing sockets keeps the outside world typed. *)
LEMMA CloseTyped ==
  ASSUME TypeInv, NEW S \in SUBSET Fds, Close(S)
  PROVE  open' \subseteq Fds /\ net' \in [Fds -> {"quiet", "in", "hup"}]
BY DEF Close, TypeInv, TypeOK

LEMMA TypeInvStep == TypeInv /\ [Next]_vars => TypeInv'
<1> SUFFICES ASSUME TypeInv, [Next]_vars PROVE TypeInv'
  OBVIOUS
<1> USE EventAssumption DEF TypeInv, TypeOK, Rounds, InRound, Points, table, poll, entry, world
<1>1. CASE Register
  BY <1>1 DEF Register
<1>2. CASE LeaveLoop
  BY <1>2 DEF LeaveLoop
<1>3. CASE Poll
  <2>1. revents' \in [Fds -> {"none", "in", "hup"}]
    BY <1>3 DEF Poll
  <2>2. dpc' = "filing" => revents' = NoRevents
    BY <1>3 DEF Poll
  <2>3. dpc' \in {"accept", "filing"}
    BY <1>3 DEF Poll
  <2>4. svcReady' \in BOOLEAN /\ (svcReady' => backlog > 0)
    BY <1>3, Zenon DEF Poll
  <2>5. UNCHANGED <<over, overCalls, nodes, nodes_count, muted, age, fds, cur,
                    handed, open, stray, entered, net, backlog, destroyed>>
    BY <1>3 DEF Poll
  <2>6. TypeOK'
    BY <2>1, <2>3, <2>4, <2>5
  <2>7. Rounds'
    <3>1. dpc' = "accept" /\ svcReady' => backlog' > 0
      BY <2>4, <2>5
    <3>2. dpc' \notin InRound => revents' = NoRevents
      BY <2>2, <2>3
    <3>3. NoRevents' = NoRevents
      BY DEF NoRevents
    <3> QED
      BY <2>3, <3>1, <3>2, <3>3
  <2> QED
    BY <2>6, <2>7
<1>4. CASE SkipAccept \/ ScanEnd
  BY <1>4 DEF SkipAccept, ScanEnd
<1>5. ASSUME NEW n \in Fds, Accept(n)
      PROVE  TypeInv'
  <2>1. dpc' \in {"adding", "scan"} /\ cur' \in Fds \cup {0} /\ open' \subseteq Fds
    BY <1>5 DEF Accept
  <2>2. dpc' = "adding" => cur' \in Fds
    BY <1>5 DEF Accept
  <2>3. backlog' \in 0 .. Backlog
    BY <1>5 DEF Accept
  <2> QED
    BY <1>5, <2>1, <2>2, <2>3 DEF Accept
<1>6. ASSUME NEW n \in Fds, Scan(n)
      PROVE  TypeInv'
  <2>1. /\ nodes' \subseteq Fds /\ nodes_count' \in Int /\ muted' \subseteq nodes'
        /\ age' \in [Fds -> 0 .. Keepalive + 1]
    <3>1. CASE Remove({n})
      BY <3>1, RemoveTyped DEF TypeInv
    <3>2. CASE UNCHANGED <<table, age>>
      BY <3>2
    <3> QED
      BY <1>6, <3>1, <3>2 DEF Scan, Delete
  <2> QED
    BY <1>6, <2>1 DEF Scan
<1>7. CASE AddAccepted
  <2>1. dpc = "adding" /\ cur \in Fds
    BY <1>7 DEF AddAccepted
  <2>2. /\ nodes' \subseteq Fds /\ nodes_count' \in Int /\ muted' \subseteq nodes'
        /\ age' \in [Fds -> 0 .. Keepalive + 1]
    <3>1. CASE Insert(cur, FALSE)
      BY <2>1, <3>1, InsertTyped DEF TypeInv
    <3>2. CASE NoInsert(cur)
      BY <3>2 DEF NoInsert
    <3> QED
      BY <1>7, <3>1, <3>2 DEF AddAccepted
  <2>3. open' \subseteq Fds /\ net' \in [Fds -> {"quiet", "in", "hup"}]
    <3>1. CASE Close({cur})
      BY <2>1, <3>1, CloseTyped DEF TypeInv
    <3> QED
      BY <1>7, <3>1 DEF AddAccepted
  <2> QED
    BY <1>7, <2>2, <2>3 DEF AddAccepted
<1>8. CASE Callback
  <2>1. cur \in Fds
    BY <1>8 DEF Callback
  <2>2. open' \subseteq Fds /\ net' \in [Fds -> {"quiet", "in", "hup"}]
    <3>1. CASE Close({cur})
      BY <2>1, <3>1, CloseTyped DEF TypeInv
    <3> QED
      BY <1>8, <3>1 DEF Callback
  <2> QED
    BY <1>8, <2>2 DEF Callback
<1>9. CASE Filing
  <2>1. Filed \in SUBSET Fds
    BY DEF Filed
  <2>2. /\ nodes' \subseteq Fds /\ nodes_count' \in Int /\ muted' \subseteq nodes'
        /\ age' \in [Fds -> 0 .. Keepalive + 1]
    BY <1>9, <2>1, RemoveTyped DEF Filing, TypeInv
  <2>3. open' \subseteq Fds /\ net' \in [Fds -> {"quiet", "in", "hup"}]
    BY <1>9, <2>1, CloseTyped DEF Filing, TypeInv
  <2> QED
    BY <1>9, <2>2, <2>3 DEF Filing
<1>10. CASE RecordOver
  BY <1>10 DEF RecordOver
<1>11. CASE EventOver
  BY <1>11 DEF EventOver
<1>12. CASE Destroy
  <2>1. open' \subseteq Fds /\ net' \in [Fds -> {"quiet", "in", "hup"}]
    BY <1>12, CloseTyped DEF Destroy, TypeInv
  <2>2. 0 \in 0 .. Keepalive + 1
    OBVIOUS
  <2>3. age' \in [Fds -> 0 .. Keepalive + 1]
    BY <1>12, <2>2 DEF Destroy
  <2> QED
    BY <1>12, <2>1, <2>3 DEF Destroy
<1>13. ASSUME NEW n \in Fds, Modify(n)
       PROVE  TypeInv'
  <2>1. /\ nodes' \subseteq Fds /\ nodes_count' \in Int /\ muted' \subseteq nodes'
        /\ age' \in [Fds -> 0 .. Keepalive + 1]
    BY <1>13, InsertTyped DEF Modify, TypeInv
  <2>2. entered' \in 0 .. MaxEntered
    BY <1>13 DEF Modify, Enter
  <2> QED
    BY <1>13, <2>1, <2>2 DEF Modify
<1>14. ASSUME NEW n \in Fds, Finish(n)
       PROVE  TypeInv'
  <2>1. open' \subseteq Fds /\ net' \in [Fds -> {"quiet", "in", "hup"}]
    BY <1>14, CloseTyped DEF Finish, TypeInv
  <2> QED
    BY <1>14, <2>1 DEF Finish, LetGo
<1>15. ASSUME NEW n \in Fds, GiveBack(n)
       PROVE  TypeInv'
  <2>1. CASE Insert(n, FALSE) /\ Enter(n) /\ open' = open /\ net' = [net EXCEPT ![n] = "quiet"]
    <3>1. /\ nodes' \subseteq Fds /\ nodes_count' \in Int /\ muted' \subseteq nodes'
          /\ age' \in [Fds -> 0 .. Keepalive + 1]
      BY <2>1, InsertTyped DEF TypeInv
    <3>2. entered' \in 0 .. MaxEntered
      BY <2>1 DEF Enter
    <3>3. net' \in [Fds -> {"quiet", "in", "hup"}]
      BY <2>1
    <3> QED
      BY <1>15, <2>1, <3>1, <3>2, <3>3 DEF GiveBack, LetGo
  <2>2. CASE NoInsert(n) /\ entered' = entered /\ Close({n})
    <3>1. open' \subseteq Fds /\ net' \in [Fds -> {"quiet", "in", "hup"}]
      BY <2>2, CloseTyped DEF TypeInv
    <3> QED
      BY <1>15, <2>2, <3>1 DEF GiveBack, LetGo, NoInsert
  <2> QED
    BY <1>15, <2>1, <2>2 DEF GiveBack
<1>16. ASSUME NEW n \in Fds, Client(n)
       PROVE  TypeInv'
  BY <1>16 DEF Client
<1>17. CASE Connect
  BY <1>17 DEF Connect
<1>18. CASE Tick
  BY <1>18 DEF Tick
<1>19. CASE UNCHANGED vars
  BY <1>19 DEF vars
<1> QED
  BY <1>1, <1>2, <1>3, <1>4, <1>5, <1>6, <1>7, <1>8, <1>9, <1>10, <1>11, <1>12, <1>13,
     <1>14, <1>15, <1>16, <1>17, <1>18, <1>19 DEF Next, Dispatch, Others

(* The variables of the event loop keep their types, whatever other        *)
(* threads call.                                                           *)
THEOREM TypeCorrect == Spec => []TypeOK
<1>1. TypeInv => TypeOK
  BY DEF TypeInv
<1> QED
  BY <1>1, TypeInvInit, TypeInvStep, PTL DEF Spec

-----------------------------------------------------------------------------
(* The count of the table.  Between the gate and eris_event_add there is   *)
(* still room for one node.                                                *)
Slots ==
  /\ EveryNodeHasSlot
  /\ dpc = "adding" => nodes_count <= Max - 2 + entered

LEMMA SlotsInit == Init => Slots
BY EventAssumption, FS_EmptySet DEF Init, Slots, EveryNodeHasSlot

(* An insertion counts a node that is new. *)
LEMMA InsertCounts ==
  ASSUME TypeInv, nodes_count = Cardinality(nodes), NEW n \in Fds,
         NEW none \in BOOLEAN, Insert(n, none)
  PROVE  /\ nodes_count' = Cardinality(nodes')
         /\ nodes_count' = IF n \in nodes THEN nodes_count ELSE nodes_count + 1
<1>1. IsFiniteSet(nodes)
  BY EventAssumption, FS_Subset DEF TypeInv, TypeOK
<1>2. Cardinality(nodes \cup {n})
        = IF n \in nodes THEN Cardinality(nodes) ELSE Cardinality(nodes) + 1
  BY <1>1, FS_AddElement
<1> QED
  BY <1>2 DEF Insert, TypeInv, TypeOK

(* Freed nodes are counted, and none are added. *)
LEMMA RemoveCounts ==
  ASSUME TypeInv, nodes_count = Cardinality(nodes), NEW S \in SUBSET nodes, Remove(S)
  PROVE  /\ nodes_count' = Cardinality(nodes')
         /\ nodes_count' <= nodes_count /\ nodes_count' \in Int
<1>1. IsFiniteSet(nodes)
  BY EventAssumption, FS_Subset DEF TypeInv, TypeOK
<1>2. nodes \cap S = S
  OBVIOUS
<1>3. Cardinality(nodes \ S) = Cardinality(nodes) - Cardinality(S)
  BY <1>1, <1>2, FS_Difference
<1>4. Cardinality(S) \in Nat
  BY <1>1, FS_Subset, FS_CardinalityType
<1> QED
  BY <1>3, <1>4 DEF Remove, TypeInv, TypeOK

LEMMA SlotsStep == TypeInv /\ Slots /\ [Next]_vars => Slots'
<1> SUFFICES ASSUME TypeInv, Slots, [Next]_vars PROVE Slots'
  OBVIOUS
<1>a. /\ Max \in Nat \ {0} /\ entered \in Nat
      /\ nodes_count \in Int /\ nodes_count = Cardinality(nodes)
  BY EventAssumption DEF TypeInv, TypeOK, Slots, EveryNodeHasSlot
<1> USE <1>a DEF Slots, EveryNodeHasSlot, table, entry
<1>1. CASE Register \/ LeaveLoop \/ Poll \/ SkipAccept \/ ScanEnd
  BY <1>1 DEF Register, LeaveLoop, Poll, SkipAccept, ScanEnd
<1>2. ASSUME NEW n \in Fds, Accept(n)
      PROVE  Slots'
  BY <1>2 DEF Accept, Busy
<1>3. ASSUME NEW n \in Fds, Scan(n)
      PROVE  Slots'
  <2>1. dpc' = "callback" /\ entered' = entered
    BY <1>3 DEF Scan
  <2>2. CASE n \in nodes /\ Remove({n})
    BY <2>1, <2>2, RemoveCounts
  <2>3. CASE UNCHANGED <<table, age>>
    BY <2>1, <2>3
  <2> QED
    BY <1>3, <2>2, <2>3 DEF Scan, Delete
<1>4. CASE AddAccepted
  <2>1. dpc = "adding" /\ dpc' = "scan" /\ cur \in Fds /\ entered' = entered
    BY <1>4 DEF AddAccepted, TypeInv, Rounds
  <2>2. CASE Insert(cur, FALSE)
    <3>1. /\ nodes_count' = Cardinality(nodes')
          /\ nodes_count' = IF cur \in nodes THEN nodes_count ELSE nodes_count + 1
      BY <2>1, <2>2, InsertCounts
    <3> QED
      BY <2>1, <3>1
  <2>3. CASE NoInsert(cur)
    BY <2>1, <2>3 DEF NoInsert
  <2> QED
    BY <1>4, <2>2, <2>3 DEF AddAccepted
<1>5. CASE Callback \/ RecordOver
  BY <1>5 DEF Callback, RecordOver
<1>6. CASE Filing
  <2>1. Filed \in SUBSET nodes
    BY DEF Filed
  <2>2. nodes_count' = Cardinality(nodes') /\ nodes_count' <= nodes_count /\ nodes_count' \in Int
    BY <1>6, <2>1, RemoveCounts DEF Filing
  <2>3. dpc' = "loop" /\ entered' = entered
    BY <1>6 DEF Filing
  <2> QED
    BY <2>2, <2>3
<1>7. CASE EventOver \/ Connect \/ Tick
  BY <1>7 DEF EventOver, Connect, Tick
<1>8. CASE Destroy
  <2>1. nodes' = {} /\ nodes_count' = 0 /\ dpc' = dpc /\ entered' = entered
    BY <1>8 DEF Destroy
  <2>2. nodes_count >= 0
    <3>1. IsFiniteSet(nodes)
      BY EventAssumption, FS_Subset DEF TypeInv, TypeOK
    <3> QED
      BY <3>1, FS_CardinalityType
  <2> QED
    BY <2>1, <2>2, FS_EmptySet
<1>9. ASSUME NEW n \in Fds, Finish(n) \/ Client(n)
      PROVE  Slots'
  BY <1>9 DEF Finish, Client
<1>10. ASSUME NEW n \in Fds, NEW none \in BOOLEAN, Insert(n, none), Enter(n), dpc' = dpc
       PROVE  Slots'
  <2>1. /\ nodes_count' = Cardinality(nodes')
        /\ nodes_count' = IF n \in nodes THEN nodes_count ELSE nodes_count + 1
    BY <1>10, InsertCounts
  <2>2. entered' = IF n \in nodes THEN entered ELSE entered + 1
    BY <1>10 DEF Enter
  <2> QED
    BY <1>10, <2>1, <2>2
<1>11. ASSUME NEW n \in Fds, Modify(n) \/ GiveBack(n)
       PROVE  Slots'
  <2>1. dpc' = dpc
    BY <1>11 DEF Modify, GiveBack
  <2>2. CASE \E none \in BOOLEAN : Insert(n, none) /\ Enter(n)
    BY <1>10, <2>1, <2>2
  <2>3. CASE NoInsert(n) /\ entered' = entered
    BY <2>1, <2>3 DEF NoInsert
  <2> QED
    BY <1>11, <2>2, <2>3 DEF Modify, GiveBack
<1>12. CASE UNCHANGED vars
  BY <1>12 DEF vars
<1> QED
  BY <1>1, <1>2, <1>3, <1>4, <1>5, <1>6, <1>7, <1>8, <1>9, <1>11, <1>12
     DEF Next, Dispatch, Others

(* nodes_count is the size of the table in every state, and the gate of    *)
(* accept keeps a slot of the poll array for every watched connection, but *)
(* one for each node that others than the dispatcher entered.              *)
THEOREM SlotsSuffice == Spec => []EveryNodeHasSlot
<1>1. Slots => EveryNodeHasSlot
  BY DEF Slots
<1> QED
  BY <1>1, TypeInvInit, TypeInvStep, SlotsInit, SlotsStep, PTL DEF Spec

-----------------------------------------------------------------------------
(***************************************************************************)
(* Who owns a descriptor: as long as no other thread calls                 *)
(* eris_event_over, which makes eris_event_delete refuse to take a socket  *)
(* out of the table.                                                       *)
(***************************************************************************)
(* The ownership invariant: besides what OneOwner and ReadyIsWatched say,  *)
(* the dispatcher never leaves its loop, the poll array holds watched      *)
(* sockets while poll runs, and the callback is for a reported socket.     *)
Owners ==
  /\ over = 0 /\ dpc \notin {"record", "tail", "returned"}
  /\ OneOwner
  /\ ReadyIsWatched
  /\ dpc = "poll" => fds \ stray \subseteq nodes
  /\ dpc = "callback" => revents[cur] # "none"

LEMMA OwnersInit == Init => Owners
<1> SUFFICES ASSUME Init PROVE Owners
  OBVIOUS
<1>1. \A n \in Fds : revents[n] = "none"
  BY DEF Init, NoRevents
<1>2. OneOwner
  BY DEF Init, OneOwner, InHand
<1> QED
  BY <1>1, <1>2 DEF Init, Owners, ReadyIsWatched

LEMMA OwnersStep ==
  ASSUME "over" \notin Api
  PROVE  TypeInv /\ Owners /\ [Next]_vars => Owners'
<1> SUFFICES ASSUME TypeInv, Owners, [Next]_vars PROVE Owners'
  OBVIOUS
<1>a. /\ over = 0 /\ nodes \subseteq Fds /\ handed \subseteq Fds
      /\ fds \subseteq Fds /\ open \subseteq Fds /\ stray \subseteq Fds
      /\ dpc \in {"adding", "callback"} => cur \in Fds
      /\ dpc \notin InRound => \A n \in Fds : revents[n] = "none"
      /\ revents \in [Fds -> {"none", "in", "hup"}]
  BY DEF TypeInv, TypeOK, Rounds, Owners, NoRevents
<1> USE <1>a DEF Owners, OneOwner, ReadyIsWatched, InHand, InRound, table, poll, entry, world
<1>1. CASE Register
  BY <1>1 DEF Register
<1>2. CASE LeaveLoop
  BY <1>2 DEF LeaveLoop
<1>3. CASE Poll
  <2>1. \A n \in Fds : revents'[n] # "none" => n \in fds
    BY <1>3 DEF Poll
  <2> QED
    BY <1>3, <2>1 DEF Poll
<1>4. CASE SkipAccept
  BY <1>4 DEF SkipAccept
<1>5. ASSUME NEW n \in Fds, Accept(n)
      PROVE  Owners'
  BY <1>5 DEF Accept
<1>6. ASSUME NEW n \in Fds, Scan(n)
      PROVE  Owners'
  <2>1. n \notin stray => n \in nodes /\ n \in fds /\ n \notin handed /\ n \in open
    BY <1>6 DEF Scan
  <2>2. nodes' = nodes \ {n}
    BY ONLY <1>6, <1>a, <2>1 DEF Scan, Delete, Remove, table
  <2>3. /\ dpc' = "callback" /\ cur' = n /\ over' = over /\ stray' = stray /\ open' = open
        /\ revents' = revents /\ fds' = fds /\ handed' = handed /\ revents[n] # "none"
    BY <1>6 DEF Scan
  <2>4. dpc = "scan"
    BY <1>6 DEF Scan
  <2>5. OneOwner'
    BY <2>1, <2>2, <2>3, <2>4
  <2>6. ReadyIsWatched'
    BY <2>1, <2>2, <2>3, <2>4
  <2> QED
    BY <2>3, <2>5, <2>6
<1>7. CASE AddAccepted
  <2>1. /\ dpc = "adding" /\ dpc' = "scan" /\ over' = over /\ stray' = stray
        /\ revents' = revents /\ fds' = fds /\ handed' = handed
    BY <1>7 DEF AddAccepted
  <2>2. CASE nodes' = nodes \cup {cur} /\ open' = open
    BY <2>1, <2>2
  <2>3. CASE nodes' = nodes /\ open' = open \ {cur}
    BY <2>1, <2>3
  <2> QED
    BY <1>7, <2>2, <2>3 DEF AddAccepted, Insert, NoInsert, Close
<1>8. CASE Callback
  <2>1. /\ dpc = "callback" /\ dpc' = "scan" /\ over' = over /\ nodes' = nodes /\ fds' = fds
        /\ revents' = [revents EXCEPT ![cur] = "none"] /\ stray' = stray
    BY <1>8 DEF Callback
  <2>2. \/ handed' = handed /\ open' = open \ {cur}
        \/ handed' = handed \cup {cur} /\ open' = open
    BY <1>8 DEF Callback, Close
  <2>3. OneOwner'
    BY <2>1, <2>2
  <2>4. ReadyIsWatched'
    BY <2>1
  <2> QED
    BY <2>1, <2>3, <2>4
<1>9. CASE ScanEnd
  BY <1>9 DEF ScanEnd
<1>10. CASE Filing
  <2>1. /\ nodes' = nodes \ Filed /\ open' = open \ Filed /\ Filed \subseteq nodes
        /\ dpc = "filing" /\ dpc' = "loop" /\ over' = over /\ stray' = stray
        /\ revents' = revents /\ handed' = handed
    BY <1>10 DEF Filing, Filed, Remove, Close
  <2> QED
    BY <2>1
<1>11. CASE RecordOver \/ Destroy
  BY <1>11 DEF RecordOver, Destroy
<1>12. CASE EventOver
  BY <1>12 DEF EventOver
<1>13. ASSUME NEW n \in Fds, Modify(n)
       PROVE  Owners'
  <2>1. /\ nodes' = nodes \cup {n} /\ stray' = IF n \in nodes THEN stray ELSE stray \cup {n}
        /\ dpc' = dpc /\ cur' = cur /\ over' = over /\ open' = open /\ handed' = handed
        /\ revents' = revents /\ fds' = fds
    BY <1>13 DEF Modify, Insert
  <2> QED
    BY <2>1
<1>14. ASSUME NEW n \in Fds, Finish(n) \/ GiveBack(n)
       PROVE  Owners'
  <2>1. /\ dpc' = dpc /\ cur' = cur /\ over' = over /\ stray' = stray
        /\ revents' = revents /\ fds' = fds /\ n \in handed
        /\ handed' = handed \ {n} \/ (n \in stray /\ handed' = handed)
    BY <1>14 DEF Finish, GiveBack, LetGo
  <2>2. CASE nodes' = nodes \cup {n} /\ open' = open
    BY <2>1, <2>2
  <2>3. CASE nodes' = nodes /\ open' = open \ {n}
    BY <2>1, <2>3
  <2> QED
    BY <1>14, <2>2, <2>3 DEF Finish, GiveBack, Insert, NoInsert, Close
<1>15. CASE Connect \/ Tick \/ \E n \in Fds : Client(n)
  BY <1>15 DEF Connect, Tick, Client
<1>16. CASE UNCHANGED vars
  BY <1>16 DEF vars
<1> QED
  BY <1>1, <1>2, <1>3, <1>4, <1>5, <1>6, <1>7, <1>8, <1>9, <1>10, <1>11, <1>12, <1>13,
     <1>14, <1>15, <1>16 DEF Next, Dispatch, Others

(* No descriptor is with two parties: a connection is read, answered and   *)
(* closed by one.  Other threads may call eris_event_modify with any       *)
(* descriptor: only one that it enters in the table, having not found it   *)
(* there, is lost to this, and no other.                                   *)
THEOREM OwnersAreExclusive ==
  ASSUME "over" \notin Api
  PROVE  Spec => []OneOwner
<1>1. Owners => OneOwner
  BY DEF Owners
<1>2. TypeInv /\ Owners /\ [Next]_vars => Owners'
  BY OwnersStep
<1> QED
  BY <1>1, <1>2, TypeInvInit, TypeInvStep, OwnersInit, PTL DEF Spec

(* What poll reported is in the table until it is delivered, but for the   *)
(* strays.                                                                 *)
THEOREM ReportedStaysWatched ==
  ASSUME "over" \notin Api
  PROVE  Spec => []ReadyIsWatched
<1>1. Owners => ReadyIsWatched
  BY DEF Owners
<1>2. TypeInv /\ Owners /\ [Next]_vars => Owners'
  BY OwnersStep
<1> QED
  BY <1>1, <1>2, TypeInvInit, TypeInvStep, OwnersInit, PTL DEF Spec

-----------------------------------------------------------------------------
(* The refinement.  A step that moves one descriptor from x to y is the    *)
(* abstract move.                                                          *)
LEMMA MoveOne ==
  ASSUME NEW n \in Fds, NEW x, NEW y,
         Where(n) = x, Where(n)' = y,
         \A m \in Fds \ {n} : Where(m)' = Where(m)
  PROVE  Life!Move(n, x, y)
<1>1. [m \in Fds |-> Where(m)]' = [[m \in Fds |-> Where(m)] EXCEPT ![n] = y]
  OBVIOUS
<1> QED
  BY <1>1 DEF Life!Move

LEMMA MoveNone ==
  ASSUME \A m \in Fds : Where(m)' = Where(m)
  PROVE  UNCHANGED [m \in Fds |-> Where(m)]
OBVIOUS

LEMMA LifeStep ==
  ASSUME "over" \notin Api
  PROVE  TypeInv /\ Owners /\ [Next]_vars => [Life!Next]_[n \in Fds |-> Where(n)]
<1> SUFFICES ASSUME TypeInv, Owners, [Next]_vars
             PROVE  Life!Next \/ UNCHANGED [n \in Fds |-> Where(n)]
  OBVIOUS
<1>a. /\ over = 0 /\ nodes \subseteq Fds /\ handed \subseteq Fds
      /\ dpc \in {"adding", "callback"} => cur \in Fds
      /\ \A n \in Fds \ stray : ~(n \in nodes /\ n \in handed)
      /\ \A n \in Fds \ stray : n \in InHand => n \notin nodes \cup handed
      /\ \A n \in Fds \ stray : n \notin open => n \notin nodes \cup handed \cup InHand
  BY DEF TypeInv, TypeOK, Rounds, Owners, OneOwner
<1>b. ASSUME nodes' = nodes, handed' = handed, InHand' = InHand, stray' = stray,
             dpc' = dpc \/ InHand = {}
      PROVE  UNCHANGED [n \in Fds |-> Where(n)]
  BY <1>b, MoveNone DEF Where
<1>c. ASSUME NEW n \in stray, \A m \in Fds \ {n} : Where(m)' = Where(m), stray' = stray
      PROVE  UNCHANGED [m \in Fds |-> Where(m)]
  <2>1. Where(n)' = Where(n)
    BY <1>c DEF Where
  <2> QED
    BY <1>c, <2>1, MoveNone
<1> USE <1>a DEF InHand, table, entry, world
<1>1. CASE Register \/ LeaveLoop \/ Poll \/ SkipAccept \/ ScanEnd
  BY <1>1, <1>b DEF Register, LeaveLoop, Poll, SkipAccept, ScanEnd
<1>2. ASSUME NEW n \in Fds, Accept(n)
      PROVE  Life!Next \/ UNCHANGED [m \in Fds |-> Where(m)]
  <2>1. /\ dpc = "accept" /\ nodes' = nodes /\ handed' = handed /\ n \notin open
        /\ stray' = stray
    BY <1>2 DEF Accept
  <2>2. CASE dpc' = "adding" /\ cur' = n
    <3>1. n \notin stray => Where(n) = "closed" /\ Where(n)' = "accepted"
      BY <2>1, <2>2 DEF Where
    <3>2. \A m \in Fds \ {n} : Where(m)' = Where(m)
      BY <2>1, <2>2 DEF Where
    <3> QED
      BY <1>c, <2>1, <3>1, <3>2, MoveOne DEF Life!Next, Life!Accept
  <2>3. CASE dpc' = "scan" /\ cur' = cur
    BY <1>b, <2>1, <2>3
  <2> QED
    BY <1>2, <2>2, <2>3 DEF Accept
<1>3. ASSUME NEW n \in Fds, Scan(n)
      PROVE  Life!Next \/ UNCHANGED [m \in Fds |-> Where(m)]
  <2>1. /\ dpc = "scan" /\ dpc' = "callback" /\ cur' = n /\ handed' = handed
        /\ stray' = stray /\ (n \notin stray => n \in nodes)
    BY <1>3 DEF Scan, Owners, ReadyIsWatched
  <2>2. nodes' = nodes \ {n}
    BY ONLY <1>3, <1>a DEF Scan, Delete, Remove, table
  <2>3. n \notin stray => Where(n) = "watched" /\ Where(n)' = "delivering"
    BY <2>1, <2>2 DEF Where
  <2>4. \A m \in Fds \ {n} : Where(m)' = Where(m)
    BY <2>1, <2>2 DEF Where
  <2> QED
    BY <1>c, <2>1, <2>3, <2>4, MoveOne DEF Life!Next, Life!Unwatch
<1>4. CASE AddAccepted
  <2> PICK n \in Fds : n = cur
    BY <1>4 DEF AddAccepted
  <2>1. /\ dpc = "adding" /\ dpc' = "scan" /\ handed' = handed /\ n = cur
        /\ stray' = stray
    BY <1>4 DEF AddAccepted
  <2>2. n \notin stray => Where(n) = "accepted"
    BY <2>1 DEF Where
  <2>3. nodes' = nodes \cup {n} \/ nodes' = nodes
    BY <1>4 DEF AddAccepted, Insert, NoInsert
  <2>4. \A m \in Fds \ {n} : Where(m)' = Where(m)
    BY <2>1, <2>3 DEF Where
  <2>5. CASE nodes' = nodes \cup {n} /\ n \notin stray
    <3>1. Where(n)' = "watched"
      BY <2>1, <2>5 DEF Where
    <3> QED
      BY <2>1, <2>2, <2>4, <2>5, <3>1, MoveOne DEF Life!Next, Life!Watch
  <2>6. CASE nodes' = nodes /\ n \notin stray
    <3>1. Where(n)' = "closed"
      BY <2>1, <2>6 DEF Where
    <3> QED
      BY <2>1, <2>2, <2>4, <2>6, <3>1, MoveOne DEF Life!Next, Life!Refuse
  <2> QED
    BY <1>c, <2>1, <2>3, <2>4, <2>5, <2>6
<1>5. CASE Callback
  <2> PICK n \in Fds : n = cur
    BY <1>5 DEF Callback
  <2>1. /\ dpc = "callback" /\ dpc' = "scan" /\ nodes' = nodes /\ n = cur
        /\ stray' = stray
    BY <1>5 DEF Callback
  <2>2. n \notin stray => Where(n) = "delivering"
    BY <2>1 DEF Where
  <2>3. handed' = handed \cup {n} \/ handed' = handed
    BY <1>5 DEF Callback
  <2>4. \A m \in Fds \ {n} : Where(m)' = Where(m)
    BY <2>1, <2>3 DEF Where
  <2>5. CASE handed' = handed \cup {n} /\ n \notin stray
    <3>1. Where(n)' = "out"
      BY <2>1, <2>5 DEF Where
    <3> QED
      BY <2>1, <2>2, <2>4, <2>5, <3>1, MoveOne DEF Life!Next, Life!HandOut
  <2>6. CASE handed' = handed /\ n \notin stray
    <3>1. Where(n)' = "closed"
      BY <2>1, <2>6 DEF Where
    <3> QED
      BY <2>1, <2>2, <2>4, <2>6, <3>1, MoveOne DEF Life!Next, Life!HangUp
  <2> QED
    BY <1>c, <2>1, <2>3, <2>4, <2>5, <2>6
<1>6. CASE Filing
  <2>1. /\ nodes' = nodes \ Filed /\ handed' = handed /\ stray' = stray
        /\ dpc = "filing" /\ dpc' = "loop" /\ Filed \subseteq nodes
    BY <1>6 DEF Filing, Filed, Remove
  <2>2. \A m \in Filed \ stray : Where(m) = "watched" /\ Where(m)' = "closed"
    BY <2>1 DEF Where
  <2>3. \A m \in Fds \ (Filed \ stray) : Where(m)' = Where(m)
    BY <2>1 DEF Where
  <2>4. Life!Expire(Filed \ stray)
    BY <2>1, <2>2, <2>3 DEF Life!Expire
  <2> QED
    BY <2>1, <2>4 DEF Life!Next
<1>7. CASE RecordOver \/ Destroy \/ EventOver
  BY <1>7 DEF RecordOver, Destroy, EventOver, Owners
<1>8. ASSUME NEW n \in Fds, Finish(n) \/ GiveBack(n)
      PROVE  Life!Next \/ UNCHANGED [m \in Fds |-> Where(m)]
  <2>1. /\ n \in handed
        /\ handed' = handed \ {n} \/ (n \in stray /\ handed' = handed)
        /\ dpc' = dpc /\ cur' = cur /\ stray' = stray
    BY <1>8 DEF Finish, GiveBack, LetGo
  <2>2. nodes' = nodes \/ nodes' = nodes \cup {n}
    BY <1>8 DEF Finish, GiveBack, Insert, NoInsert
  <2>3. n \notin stray => Where(n) = "out"
    BY <2>1 DEF Where
  <2>4. \A m \in Fds \ {n} : Where(m)' = Where(m)
    BY <2>1, <2>2 DEF Where
  <2>5. CASE nodes' = nodes /\ n \notin stray
    <3>1. Where(n)' = "closed"
      BY <2>1, <2>5 DEF Where
    <3> QED
      BY <2>3, <2>4, <2>5, <3>1, MoveOne DEF Life!Next, Life!Finish
  <2>6. CASE nodes' = nodes \cup {n} /\ n \notin stray
    <3>1. Where(n)' = "watched"
      BY <2>1, <2>6 DEF Where
    <3> QED
      BY <2>3, <2>4, <2>6, <3>1, MoveOne DEF Life!Next, Life!Return
  <2> QED
    BY <1>c, <2>1, <2>2, <2>4, <2>5, <2>6
<1>9. ASSUME NEW n \in Fds, Modify(n)
      PROVE  Life!Next \/ UNCHANGED [m \in Fds |-> Where(m)]
  <2>1. /\ nodes' = nodes \cup {n} /\ stray' = IF n \in nodes THEN stray ELSE stray \cup {n}
        /\ dpc' = dpc /\ cur' = cur /\ handed' = handed /\ "modify" \in Api
    BY <1>9 DEF Modify, Insert
  <2>2. CASE n \in nodes
    BY <1>b, <2>1, <2>2
  <2>3. CASE n \in stray
    <3>1. stray' = stray /\ \A m \in Fds \ {n} : Where(m)' = Where(m)
      BY <2>1, <2>3 DEF Where
    <3> QED
      BY <1>c, <2>3, <3>1
  <2>4. CASE n \notin nodes /\ n \notin stray
    <3>1. Where(n) # "watched" /\ Where(n)' = "shared"
      BY <2>1, <2>4 DEF Where
    <3>2. \A m \in Fds \ {n} : Where(m)' = Where(m)
      BY <2>1, <2>4 DEF Where
    <3>3. [m \in Fds |-> Where(m)]' = [[m \in Fds |-> Where(m)] EXCEPT ![n] = "shared"]
      BY <3>1, <3>2
    <3>4. Life!Share(n)
      BY <2>1, <3>1, <3>3 DEF Life!Share
    <3> QED
      BY <3>4 DEF Life!Next
  <2> QED
    BY <2>2, <2>3, <2>4
<1>10. CASE Connect \/ Tick \/ \E n \in Fds : Client(n)
  BY <1>10, <1>b DEF Connect, Tick, Client
<1>11. CASE UNCHANGED vars
  BY <1>11, <1>b DEF vars
<1> QED
  BY <1>1, <1>2, <1>3, <1>4, <1>5, <1>6, <1>7, <1>8, <1>9, <1>10, <1>11
     DEF Next, Dispatch, Others

(* Every connection lives the life of ConnectionLife, however its client,  *)
(* the dispatcher, the timeout and the workers interleave; one that a      *)
(* modify entered in the table, having not found it, is lost to the table. *)
THEOREM LoopImplementsLife ==
  ASSUME "over" \notin Api
  PROVE  Spec => ImplementsLife
<1>1. Init => Life!Init
  BY DEF Init, Life!Init, Where, InHand
<1>2. TypeInv /\ Owners /\ [Next]_vars => Owners'
  BY OwnersStep
<1>3. TypeInv /\ Owners /\ [Next]_vars => [Life!Next]_[n \in Fds |-> Where(n)]
  BY LifeStep
<1> QED
  BY <1>1, <1>2, <1>3, TypeInvInit, TypeInvStep, OwnersInit, PTL
     DEF Spec, ImplementsLife, Life!Spec
=============================================================================
