\* Two connections, two descriptors, two workers and a queue for one socket.
SPECIFICATION Spec
CONSTANTS
  Conn = {c1, c2}
  Fd = {f1, f2}
  Worker = {w1, w2}
  Capacity = 1
  Asked <- Various
  Targeted = {c1}
  ServiceStatus <- Statuses
  c1 = c1
  c2 = c2
  None = None
INVARIANTS HeldOnce OwnAnswer AnswersInOrder HeaderFits
PROPERTIES ImplementsLife
CHECK_DEADLOCK FALSE
