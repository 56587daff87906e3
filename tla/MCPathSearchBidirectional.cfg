CONSTANTS
  NumNodes = 4
  NumEdges = 5
  Lengths = {0, 1, 2, 3}
  Networks <- SomeNetworks
  Placements <- SomePlacements
  Deltas = {1, 3}
SPECIFICATION Spec
INVARIANTS
  BidirectionalAgrees
