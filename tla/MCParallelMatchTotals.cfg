CONSTANTS
  t1 = t1
  t2 = t2
  t3 = t3
  NoThread = NoThread
  Master = t1
  NumTrajs = 2
  Buffer = 2
  Threads <- TwoThreads
SPECIFICATION Spec
INVARIANTS
  TotalCounted
CHECK_DEADLOCK FALSE
