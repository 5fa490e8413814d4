SPECIFICATION Spec
CONSTANTS
  d1 = d1
  w1 = w1
  w2 = w2
  e1 = e1
  e2 = e2
  Producers <- OneProducer
  Consumers <- TwoConsumers
  Elems <- TwoElems
  Max = 3
  WaitModes <- WaitOnly
  Cancellable <- Nobody
  MayDestroy = TRUE
INVARIANT
  DestroyClosesQueued
CHECK_DEADLOCK FALSE
