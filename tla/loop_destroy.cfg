SPECIFICATION Spec
CONSTANTS
  Fds <- TwoFds
  Max = 3
  NodesSize = 2
  Keepalive = 1
  Backlog = 1
  ReAdd = FALSE
  Api <- DestroyApi
  MaxOver = 1
  MaxEntered = 0
INVARIANT DestroyAfterDispatch
CHECK_DEADLOCK FALSE
