\* The same, running fairly: no connection stays, but for stuck workers.
SPECIFICATION FairSpec
CONSTANTS
  Conn = {c1, c2}
  Fd = {f1, f2}
  Worker = {w1, w2}
  Capacity = 1
  Asked <- Uploads
  Targeted = {}
  ServiceStatus <- Few
  c1 = c1
  c2 = c2
  None = None
PROPERTIES Ends
CHECK_DEADLOCK FALSE
