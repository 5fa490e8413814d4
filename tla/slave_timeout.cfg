\* One worker, an upload and a download.
SPECIFICATION FairSpec
CONSTANTS
  Conn = {c1, c2}
  Fd = {f1}
  Worker = {w1}
  Capacity = 1
  Asked <- OneUpload
  Targeted = {}
  ServiceStatus <- Few
  c1 = c1
  c2 = c2
  None = None
PROPERTIES ReceivingTimesOut
CHECK_DEADLOCK FALSE
