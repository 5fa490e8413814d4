SPECIFICATION Spec
CONSTANTS
  Fds <- ThreeFds
  Max = 3
  NodesSize = 2
  Keepalive = 0
  Backlog = 1
  ReAdd = FALSE
  Api <- ModifyApi
  MaxOver = 0
  MaxEntered = 1
INVARIANTS OneOwner ReadyIsWatched EveryNodeHasSlot
PROPERTIES ImplementsLife
