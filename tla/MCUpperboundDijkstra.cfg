CONSTANTS
  NumNodes = 3
  NumEdges = 4
  Lengths <- SmallLengths
  Deltas <- SmallDeltas
SPECIFICATION FairSpec
INVARIANTS
  IInv
  ExactWhenDone
  NoPredecessorCycle
PROPERTIES
  LoweredOnlyWhileQueued
  Terminates
