CONSTANTS
  t1 = t1
  t2 = t2
  t3 = t3
  NoThread = NoThread
  Master = t1
  NumTrajs = 4
  Buffer = 3
  Threads <- ThreeThreads
SPECIFICATION Spec
INVARIANTS
  TypeOK
  OneRowEach
  CountsBounded
PROPERTIES
  Terminates
CHECK_DEADLOCK FALSE
