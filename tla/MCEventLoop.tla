------------------------------ MODULE MCEventLoop ------------------------------
(***************************************************************************)
(* Small instances of EventLoop.  Three descriptors in two buckets: 2 and  *)
(* 4 share the first one, 1 is in the second, so that a timeout scan can   *)
(* stop between them.  With max_events 3 two connections fill the table    *)
(* and the third descriptor can be out with a worker, or be given back     *)
(* without a slot in the poll array.                                       *)
(***************************************************************************)
EXTENDS EventLoop

ThreeFds   == {1, 2, 4}
TwoFds     == {1, 2}
OverApi    == {"over"}
ModifyApi  == {"modify"}
DestroyApi == {"over", "destroy"}
===============================================================================
