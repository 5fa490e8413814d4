------------------------------- MODULE EventLoop -------------------------------
(***************************************************************************)
(* src/event/eris.event.c and src/event/eris.poll.c: the table of watched  *)
(* client sockets of a slave process and the loop that dispatches their    *)
(* events, with poll as the I/O type.                                      *)
(*                                                                         *)
(* The dispatching thread is at one of these points:                       *)
(*                                                                         *)
(*   loop      top of the do loop, reads over without the mutex            *)
(*   poll      in poll()                                                   *)
(*   accept    at the slot of the listening socket                         *)
(*   adding    accept() returned, before eris_event_add                    *)
(*   scan      at the slots of the client sockets                          *)
(*   callback  eris_event_delete returned, before the event callback       *)
(*   filing    before eris_event_filing                                    *)
(*   record    left the loop, before over++ of eris_poll_dispatch          *)
(*   tail      before over++ of eris_event_dispatch                        *)
(*   returned  eris_event_dispatch returned                                *)
(*                                                                         *)
(* The other parties are the receivers of the callback (they own a socket  *)
(* from the callback until they close it or add it again), the clients,    *)
(* the clock, and threads that make the calls in Api.  The mutex of        *)
(* eris_event_t is never held across two steps, so each call that takes it *)
(* is one step and the mutex is no variable.  Chains of a bucket are sets: *)
(* no operation depends on their order.  The clock is kept as the age of   *)
(* each node (now - start), which stops counting at Keepalive + 1.         *)
(*                                                                         *)
(* eris_event_modify enters a socket that it does not find in the table.   *)
(* No code of the repository calls it; here another thread may, with any   *)
(* descriptor at any time.  A descriptor it entered is a stray: from then  *)
(* on two parties may have it, two receivers too, and either may close it. *)
(***************************************************************************)
EXTENDS Integers, FiniteSets

CONSTANTS Fds,         \* descriptors accept may return: positive integers
          Max,         \* max_events
          NodesSize,   \* nodes_size, the number of buckets
          Keepalive,   \* keepalive, in seconds
          Backlog,     \* connections the kernel keeps for accept
          ReAdd,       \* whether receivers give sockets back (eris_event_add)
          Api,         \* calls other threads make: "over", "modify", "destroy"
          MaxOver,     \* bound on the calls of eris_event_over
          MaxEntered   \* bound on the nodes others than the dispatcher enter

ASSUME EventAssumption ==
  /\ Fds \subseteq Nat \ {0} /\ IsFiniteSet(Fds)
  /\ Max \in Nat \ {0}
  /\ NodesSize \in Nat \ {0}
  /\ Keepalive \in Nat
  /\ Backlog \in Nat
  /\ ReAdd \in BOOLEAN
  /\ Api \subseteq {"over", "modify", "destroy"}
  /\ MaxOver \in Nat
  /\ MaxEntered \in Nat

VARIABLES
  over,        \* the field over
  overCalls,   \* how many times eris_event_over was called (bound)
  nodes,       \* the client sockets in the table
  nodes_count, \* the field nodes_count
  muted,       \* nodes whose events are ERIS_EVENT_NONE (the rest: READ)
  age,         \* age[n]: seconds since start of node n
  fds,         \* the sockets in the poll array, the listening one apart
  revents,     \* revents[n]: "none", "in", "hup"
  svcReady,    \* the listening socket is readable in this round
  dpc,         \* where the dispatcher is, see above
  cur,         \* the socket the dispatcher has in hand, or 0
  handed,      \* sockets that are with a receiver of the callback
  open,        \* the descriptors of client sockets that are open
  stray,       \* sockets eris_event_modify entered that it did not find
  entered,     \* how many nodes others than the dispatcher entered
  net,         \* net[n]: what a client did: "quiet", "in", "hup"
  backlog,     \* connections waiting for accept
  destroyed    \* the event context is destroyed

table == <<nodes, nodes_count, muted>>
poll  == <<fds, revents, svcReady>>
entry == <<stray, entered>>
world == <<open, net, backlog>>
vars  == <<over, overCalls, table, age, poll, dpc, cur, handed, entry, world,
           destroyed>>

Points == {"loop", "poll", "accept", "adding", "scan", "callback", "filing",
           "record", "tail", "returned"}
NoRevents == [n \in Fds |-> "none"]

Bucket(n)  == n % NodesSize
Expired(n) == age[n] > Keepalive \/ n \in muted

(* The descriptor the dispatcher holds outside of the table. *)
InHand == IF dpc \in {"adding", "callback"} THEN {cur} ELSE {}

Init ==
  /\ over = 0 /\ overCalls = 0
  /\ nodes = {} /\ nodes_count = 0 /\ muted = {}
  /\ age = [n \in Fds |-> 0]
  /\ fds = {} /\ revents = NoRevents /\ svcReady = FALSE
  /\ dpc = "loop" /\ cur = 0
  /\ handed = {} /\ open = {}
  /\ stray = {} /\ entered = 0
  /\ net = [n \in Fds |-> "quiet"]
  /\ backlog = 0
  /\ destroyed = FALSE

(***************************************************************************)
(* The table (under the mutex).                                            *)
(***************************************************************************)
(* eris_event_add, with READ or, when none holds, with ERIS_EVENT_NONE: a  *)
(* node that is found is changed.  eris_event_modify does the same.        *)
Insert(n, none) ==
  /\ over = 0
  /\ nodes' = nodes \cup {n}
  /\ nodes_count' = IF n \in nodes THEN nodes_count ELSE nodes_count + 1
  /\ muted' = IF none THEN muted \cup {n} ELSE muted \ {n}
  /\ age' = [age EXCEPT ![n] = 0]

(* It fails after over, or when no memory is left for a new node. *)
NoInsert(n) ==
  /\ over > 0 \/ n \notin nodes
  /\ UNCHANGED <<table, age>>

(* The nodes of S are freed. *)
Remove(S) ==
  /\ nodes' = nodes \ S
  /\ nodes_count' = nodes_count - Cardinality(S)
  /\ muted' = muted \ S
  /\ age' = [n \in Fds |-> IF n \in S THEN 0 ELSE age[n]]

(* eris_event_delete: refused once over is set. *)
Delete(n) ==
  IF over = 0 /\ n \in nodes THEN Remove({n}) ELSE UNCHANGED <<table, age>>

(* The sockets of S are closed, and what their clients sent is gone. *)
Close(S) ==
  /\ open' = open \ S
  /\ net' = [n \in Fds |-> IF n \in S THEN "quiet" ELSE net[n]]

(***************************************************************************)
(* The dispatcher.                                                         *)
(***************************************************************************)
(* eris_poll_regfds: nodes that are not writable are given start = 0; of   *)
(* the others those with READ are registered, as many as fit behind the    *)
(* listening socket.                                                       *)
Register ==
  /\ dpc = "loop" /\ over = 0
  /\ \E dead \in SUBSET nodes :
       LET alive == ((nodes \cap open) \ dead) \ muted IN
       /\ age' = [n \in Fds |-> IF n \in dead THEN Keepalive + 1 ELSE age[n]]
       /\ \E S \in SUBSET alive :
            /\ Cardinality(S) <= Max - 1
            /\ S # alive => Cardinality(S) = Max - 1
            /\ fds' = S
  /\ dpc' = "poll"
  /\ UNCHANGED <<over, overCalls, table, revents, svcReady, cur, handed, entry, world, destroyed>>

(* Mutant of LeaveLoop: waits for the second over++. *)
LeaveLoopTwice ==
  /\ dpc = "loop" /\ over > 1
  /\ dpc' = "record"
  /\ UNCHANGED <<over, overCalls, table, age, poll, cur, handed, entry, world, destroyed>>

LeaveLoop ==
  /\ dpc = "loop" /\ over > 0
  /\ dpc' = "record"
  /\ UNCHANGED <<over, overCalls, table, age, poll, cur, handed, entry, world, destroyed>>

(* poll() returns what is ready, or times out when nothing is.  A closed   *)
(* descriptor is reported (POLLNVAL), which the dispatcher passes over.    *)
Poll ==
  /\ dpc = "poll"
  /\ revents' = [n \in Fds |-> IF n \in fds /\ net[n] # "quiet" THEN net[n] ELSE "none"]
  /\ svcReady' \in BOOLEAN /\ (svcReady' <=> backlog > 0)
  /\ dpc' = IF svcReady' \/ revents' # NoRevents \/ ~(fds \subseteq open)
            THEN "accept" ELSE "filing"
  /\ UNCHANGED <<over, overCalls, table, age, fds, cur, handed, entry, world, destroyed>>

(* Mutant of Busy: the slot of the listening socket is forgotten. *)
BusyNoSvc == nodes_count >= Max

Busy == nodes_count + 1 >= Max

SkipAccept ==
  /\ dpc = "accept"
  /\ ~svcReady \/ Busy \/ open = Fds
  /\ dpc' = "scan"
  /\ UNCHANGED <<over, overCalls, table, age, poll, cur, handed, entry, world, destroyed>>

(* eris_event_accept; it closes the socket again when an option cannot be  *)
(* set.                                                                    *)
Accept(n) ==
  /\ dpc = "accept" /\ svcReady /\ ~Busy
  /\ n \notin open
  /\ backlog' = backlog - 1
  /\ \/ dpc' = "adding" /\ cur' = n /\ open' = open \cup {n}
     \/ dpc' = "scan" /\ cur' = cur /\ open' = open
  /\ UNCHANGED <<over, overCalls, table, age, poll, handed, entry, net, destroyed>>

(* Added, or closed when eris_event_add fails. *)
AddAccepted ==
  /\ dpc = "adding"
  /\ \/ Insert(cur, FALSE) /\ UNCHANGED <<open, net>>
     \/ NoInsert(cur) /\ Close({cur})
  /\ dpc' = "scan" /\ cur' = 0
  /\ UNCHANGED <<over, overCalls, poll, handed, entry, backlog, destroyed>>

(* Mutant of Scan: the socket is left in the table. *)
ScanNoDelete(n) ==
  /\ dpc = "scan" /\ revents[n] # "none"
  /\ UNCHANGED <<table, age>>
  /\ dpc' = "callback" /\ cur' = n
  /\ UNCHANGED <<over, overCalls, poll, handed, entry, world, destroyed>>

(* An event: the socket leaves the table (the return code of               *)
(* eris_event_delete is ignored), then the callback is called with it.     *)
Scan(n) ==
  /\ dpc = "scan" /\ revents[n] # "none"
  /\ Delete(n)
  /\ dpc' = "callback" /\ cur' = n
  /\ UNCHANGED <<over, overCalls, poll, handed, entry, world, destroyed>>

(* erishttp_slave_event_exec: a readable socket goes to the workers, one   *)
(* that only hung up is closed.                                            *)
Callback ==
  /\ dpc = "callback"
  /\ IF revents[cur] = "in"
     THEN handed' = handed \cup {cur} /\ UNCHANGED <<open, net>>
     ELSE handed' = handed /\ Close({cur})
  /\ revents' = [revents EXCEPT ![cur] = "none"]
  /\ dpc' = "scan" /\ cur' = 0
  /\ UNCHANGED <<over, overCalls, table, age, fds, svcReady, entry, backlog, destroyed>>

(* Mutant of ScanEnd: the scan counts one event too many and stops early. *)
ScanEndEarly ==
  /\ dpc = "scan" /\ Cardinality({n \in Fds : revents[n] # "none"}) < 2
  /\ dpc' = "filing"
  /\ svcReady' = FALSE
  /\ UNCHANGED <<over, overCalls, table, age, fds, revents, cur, handed, entry, world, destroyed>>

(* Every ready slot was counted in doing_count. *)
ScanEnd ==
  /\ dpc = "scan" /\ revents = NoRevents
  /\ dpc' = "filing"
  /\ svcReady' = FALSE
  /\ UNCHANGED <<over, overCalls, table, age, fds, revents, cur, handed, entry, world, destroyed>>

(* eris_event_filing.  Buckets are scanned in order, until the nodes seen  *)
(* outnumber the nodes left in the table; every expired node of a scanned  *)
(* bucket is removed and closed by the callback.                           *)
SeenBefore(b) == {n \in nodes : Bucket(n) < b}
Stops == {b \in 0 .. NodesSize - 1 :
            Cardinality(SeenBefore(b))
              > nodes_count - Cardinality({n \in SeenBefore(b) : Expired(n)})}

(* Mutant of Filed: only nodes whose events are NONE are dropped. *)
FiledNoClock == {n \in nodes : n \in muted}

Filed == {n \in nodes : Expired(n) /\ \A b \in Stops : Bucket(n) < b}

(* Mutant of Filing: nodes_count is not decremented. *)
FilingNoCount ==
  /\ dpc = "filing"
  /\ nodes' = nodes \ Filed
  /\ muted' = muted \ Filed
  /\ nodes_count' = nodes_count
  /\ Close(Filed)
  /\ dpc' = "loop"
  /\ UNCHANGED <<over, overCalls, age, poll, cur, handed, entry, backlog, destroyed>>

Filing ==
  /\ dpc = "filing"
  /\ Remove(Filed) /\ Close(Filed)
  /\ dpc' = "loop"
  /\ UNCHANGED <<over, overCalls, poll, cur, handed, entry, backlog, destroyed>>

RecordOver ==
  /\ dpc \in {"record", "tail"}
  /\ over' = over + 1
  /\ dpc' = IF dpc = "record" THEN "tail" ELSE "returned"
  /\ UNCHANGED <<overCalls, table, age, poll, cur, handed, entry, world, destroyed>>

(***************************************************************************)
(* Other threads.                                                          *)
(***************************************************************************)
EventOver ==
  /\ "over" \in Api /\ overCalls < MaxOver
  /\ over' = over + 1 /\ overCalls' = overCalls + 1
  /\ UNCHANGED <<table, age, poll, dpc, cur, handed, entry, world, destroyed>>

(* How many nodes others have entered, after they entered n. *)
Enter(n) ==
  IF n \in nodes THEN entered' = entered
                 ELSE entered < MaxEntered /\ entered' = entered + 1

(* eris_event_modify: any thread, any descriptor. *)
Modify(n) ==
  /\ "modify" \in Api
  /\ \E none \in BOOLEAN : Insert(n, none)
  /\ Enter(n)
  /\ stray' = IF n \in nodes THEN stray ELSE stray \cup {n}
  /\ UNCHANGED <<over, overCalls, poll, dpc, cur, handed, world, destroyed>>

(* eris_event_destroy: spins until over > 1, then frees the poll array and *)
(* closes every socket of the table.                                       *)
Destroy ==
  /\ dpc = "returned" \/ "destroy" \in Api
  /\ over > 1
  /\ destroyed' = TRUE
  /\ nodes' = {} /\ nodes_count' = 0 /\ muted' = {}
  /\ age' = [n \in Fds |-> IF n \in nodes THEN 0 ELSE age[n]]
  /\ fds' = {}
  /\ Close(nodes)
  /\ UNCHANGED <<over, overCalls, revents, svcReady, dpc, cur, handed, entry, backlog>>

(* A receiver lets go of a socket; of a stray there may be another that    *)
(* has it.                                                                 *)
LetGo(n) ==
  /\ n \in handed
  /\ handed' = handed \ {n} \/ (n \in stray /\ handed' = handed)

(* A receiver is done with a socket (CONN_CLOSE of eris_slave_handler)...  *)
Finish(n) ==
  /\ LetGo(n)
  /\ Close({n})
  /\ UNCHANGED <<over, overCalls, table, age, poll, dpc, cur, entry, backlog, destroyed>>

(* ... or watches it again (CONN_KEEPALIVE, compiled out), having read the *)
(* request, and closes it when eris_event_add fails.                       *)
GiveBack(n) ==
  /\ ReAdd /\ LetGo(n)
  /\ \/ /\ Insert(n, FALSE) /\ Enter(n)
        /\ open' = open /\ net' = [net EXCEPT ![n] = "quiet"]
     \/ NoInsert(n) /\ entered' = entered /\ Close({n})
  /\ UNCHANGED <<over, overCalls, poll, dpc, cur, stray, backlog, destroyed>>

(***************************************************************************)
(* Clients and the clock.                                                  *)
(***************************************************************************)
Connect ==
  /\ backlog < Backlog
  /\ backlog' = backlog + 1
  /\ UNCHANGED <<over, overCalls, table, age, poll, dpc, cur, handed, open, entry, net, destroyed>>

(* POLLIN, also together with POLLHUP, is "in"; POLLHUP alone is "hup". *)
Client(n) ==
  /\ n \in open /\ net[n] = "quiet"
  /\ \E x \in {"in", "hup"} : net' = [net EXCEPT ![n] = x]
  /\ UNCHANGED <<over, overCalls, table, age, poll, dpc, cur, handed, open, entry, backlog, destroyed>>

Tick ==
  /\ \E n \in nodes : age[n] <= Keepalive
  /\ age' = [n \in Fds |-> IF n \in nodes /\ age[n] <= Keepalive THEN age[n] + 1 ELSE age[n]]
  /\ UNCHANGED <<over, overCalls, table, poll, dpc, cur, handed, entry, world, destroyed>>

(***************************************************************************)
(* The specification.                                                      *)
(***************************************************************************)
Dispatch ==
  \/ Register \/ LeaveLoop \/ Poll \/ SkipAccept
  \/ \E n \in Fds : Accept(n) \/ Scan(n)
  \/ AddAccepted \/ Callback \/ ScanEnd \/ Filing \/ RecordOver

Others ==
  \/ EventOver \/ Destroy
  \/ \E n \in Fds : Modify(n) \/ Finish(n) \/ GiveBack(n) \/ Client(n)
  \/ Connect \/ Tick

Next == ~destroyed /\ (Dispatch \/ Others)

Spec == Init /\ [][Next]_vars

(* The dispatcher runs, and poll() returns at its timeout at the latest;   *)
(* time passes; a receiver of the callback is done with its socket some    *)
(* time.  Nothing makes clients connect, send or hang up, and nothing      *)
(* makes other threads call.                                               *)
FairSpec ==
  /\ Spec
  /\ WF_vars(~destroyed /\ Dispatch)
  /\ WF_vars(~destroyed /\ Tick)
  /\ \A n \in Fds : WF_vars(~destroyed /\ Finish(n))

-----------------------------------------------------------------------------
TypeOK ==
  /\ over \in Nat /\ overCalls \in 0 .. MaxOver
  /\ nodes \subseteq Fds /\ nodes_count \in Int /\ muted \subseteq nodes
  /\ age \in [Fds -> 0 .. Keepalive + 1]
  /\ fds \subseteq Fds
  /\ revents \in [Fds -> {"none", "in", "hup"}]
  /\ svcReady \in BOOLEAN
  /\ dpc \in Points
  /\ cur \in Fds \cup {0}
  /\ handed \subseteq Fds /\ open \subseteq Fds
  /\ stray \subseteq Fds /\ entered \in 0 .. MaxEntered
  /\ net \in [Fds -> {"quiet", "in", "hup"}]
  /\ backlog \in 0 .. Backlog
  /\ destroyed \in BOOLEAN

(* Every descriptor is with one party at a time: with the table, with the  *)
(* dispatcher between accept and add or between delete and callback, or    *)
(* with a receiver, and open while it is.  So no two parties read, answer  *)
(* or close a connection.  Excepted are the strays, which a modify entered *)
(* in the table after the dispatcher had taken them out or before it had   *)
(* them: the damage does not spread to another descriptor.                 *)
OneOwner ==
  \A n \in Fds \ stray :
    /\ ~(n \in nodes /\ n \in handed)
    /\ n \in InHand => n \notin nodes \cup handed
    /\ n \in open <=> n \in nodes \cup handed \cup InHand

(* A socket that poll reported ready is still in the table when its turn   *)
(* in the scan comes: nobody removes, closes and reuses a descriptor that  *)
(* the dispatcher has in its poll array, the strays apart.                 *)
ReadyIsWatched ==
  \A n \in Fds \ stray : revents[n] # "none" =>
    \/ n \in nodes /\ n \in fds
    \/ dpc = "callback" /\ n = cur

(* nodes_count, which the gate of accept reads, counts the table, and the  *)
(* gate leaves every watched connection a slot in the poll array behind    *)
(* the listening socket, but for one for each node that others than the    *)
(* dispatcher entered.                                                     *)
EveryNodeHasSlot ==
  /\ nodes_count = Cardinality(nodes)
  /\ nodes_count <= Max - 1 + entered

(* The life of each connection, as the table and the callback see it. *)
Where(n) ==
  CASE n \in stray                       -> "shared"
    [] n \in nodes \ stray               -> "watched"
    [] n \in handed \ stray              -> "out"
    [] n \in InHand \ stray /\ dpc = "adding"    -> "accepted"
    [] n \in InHand \ stray /\ dpc = "callback"  -> "delivering"
    [] OTHER                             -> "closed"

Life == INSTANCE ConnectionLife
          WITH Shares <- "modify" \in Api, where <- [n \in Fds |-> Where(n)]

(* Every connection goes through the life of ConnectionLife: accepted      *)
(* once, watched or with one receiver, closed once, unless a modify makes  *)
(* it a stray.                                                             *)
ImplementsLife == Life!Spec

(* A watched socket does not stay in the table for ever: its event is      *)
(* delivered, or its timeout comes, although one pass of the timeout scan  *)
(* may stop before it has seen every bucket; unless the loop is ended.     *)
NodesLeave == \A n \in Fds : n \in nodes ~> (n \notin nodes \/ over > 0)

(* A full backlog is served, also when the table was full and every client *)
(* in it is silent, unless the loop is ended.                              *)
BacklogServed == Backlog > 0 => (backlog = Backlog ~> (backlog < Backlog \/ over > 0))

(* After eris_event_over the dispatcher leaves eris_event_dispatch. *)
OverStops == over > 0 ~> dpc = "returned"

(* poll.c, eris_poll_destroy: "Dispatch is over, and then destroy          *)
(* context".                                                               *)
DestroyAfterDispatch == destroyed => dpc = "returned"
===============================================================================
