CONSTANTS
  NumNodes = 3
  NumEdges = 4
  Lengths = {1, 2, 4}
  MaxLayers = 3
  MaxCandidates = 2
  EmissionCosts <- AnyCost
  TransitionCosts <- AnyCost
  Networks <- TwoNetworks
  Delta = 5
  Points <- SomePoints
  EuDists <- SomeDistances
  Tolerance = 2
  TolUnit = 4
  TrajId = 5
SPECIFICATION FMMSpec
INVARIANTS
  FMMInv
  MostLikely
  IndicesLocatePoints
  ScoredAsDriven
