CONSTANTS
  NumNodes = 3
  NumEdges = 4
  Lengths <- SmallLengths
  Deltas <- SmallDeltas
  SharedNetworks <- TwoLeaveFirst
SPECIFICATION GenSpec
INVARIANTS
  RowsAreExact
  RowsAreClosed
  ReturnsThePath
PROPERTIES
  QueriesReturn
