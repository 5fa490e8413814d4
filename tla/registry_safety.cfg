\* The program stops when a change waits for readers that wait for its lock.
SPECIFICATION FairSpec
CONSTANTS
  n1 = n1
  n2 = n2
  n3 = n3
  Node = {n1, n2, n3}
  Null = Null
  Workers = {w1, w2}
  Admins = {a1}
  Paths <- AllPaths
  Name <- Names
  Prio <- Prios
  Matched <- Patterns
  Native = {n1, n3}
  Initial <- Both
INVARIANTS Exclusive UsedCounts ElementsLive LongestServes
PROPERTIES StillWhileRead ExecsReturn
CHECK_DEADLOCK FALSE
