CONSTANTS
  NumNodes = 3
  NumEdges = 4
  Lengths = {1, 2, 4}
  MaxLayers = 3
  MaxCandidates = 2
  EmissionCosts <- AnyCost
  TransitionCosts <- AnyCost
  Networks <- TwoNetworks
  Delta = 20
  Points <- SomePoints
  EuDists <- SomeDistances
  Tolerance = 2
  TolUnit = 4
  TrajId = 5
  Durations <- SomeDurations
  Reach = 3
  Stretch = 2
  Remote = 40
SPECIFICATION StSpec
INVARIANTS
  StInv
  DistancesAgree
  GivesUpOnlyBeyondBound
  PathLocatesPoints
