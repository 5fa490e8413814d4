---------------------------- MODULE ConnectionLife ----------------------------
(***************************************************************************)
(* What the event table promises about each client socket: at any time at  *)
(* most one party is responsible for it.  A socket that accept returned is *)
(* watched by the event table, or is out with the receiver of the event    *)
(* callback, and is closed once, by the party it is with.  Where strangers *)
(* may enter a descriptor in the table that is not there, it is shared     *)
(* from then on, and nothing is promised about it any more.                *)
(***************************************************************************)
CONSTANTS Fds,        \* the descriptors accept may return
          Shares      \* whether strangers enter descriptors in the table

VARIABLE where        \* where[n]: who is responsible for descriptor n

Init == where = [n \in Fds |-> "closed"]

Move(n, from, to) ==
  /\ where[n] = from
  /\ where' = [where EXCEPT ![n] = to]

Accept(n) == Move(n, "closed", "accepted")
Refuse(n) == Move(n, "accepted", "closed")
Watch(n)  == Move(n, "accepted", "watched")
Unwatch(n) == Move(n, "watched", "delivering")
HandOut(n) == Move(n, "delivering", "out")
HangUp(n) == Move(n, "delivering", "closed")
Return(n) == Move(n, "out", "watched")
Finish(n) == Move(n, "out", "closed")

(* Of a descriptor that is watched a stranger only changes the events. *)
Share(n) ==
  /\ Shares /\ where[n] # "watched"
  /\ where' = [where EXCEPT ![n] = "shared"]

(* One pass of the timeout scan closes any set of watched sockets. *)
Expire(S) ==
  /\ \A n \in S : where[n] = "watched"
  /\ where' = [n \in Fds |-> IF n \in S THEN "closed" ELSE where[n]]

Next ==
  \/ \E n \in Fds : \/ Accept(n) \/ Refuse(n) \/ Watch(n) \/ Unwatch(n)
                    \/ HandOut(n) \/ HangUp(n) \/ Return(n) \/ Finish(n)
                    \/ Share(n)
  \/ \E S \in SUBSET Fds : Expire(S)

Spec == Init /\ [][Next]_where
===============================================================================
