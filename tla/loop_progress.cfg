SPECIFICATION FairSpec
CONSTANTS
  Fds <- ThreeFds
  Max = 3
  NodesSize = 2
  Keepalive = 0
  Backlog = 1
  ReAdd = TRUE
  Api <- OverApi
  MaxOver = 1
  MaxEntered = 1
PROPERTIES NodesLeave BacklogServed OverStops
CHECK_DEADLOCK FALSE
