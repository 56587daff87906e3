CONSTANTS
  Files <- SomeFiles
  Extra <- ALaterRoad
  Trajs <- SomeTrajs
  Ks = {1, 2}
  Radii = {1}
  MaxPath = 3
SPECIFICATION NetworkSpec
INVARIANTS
  NetworkTypeOK
  NearestChosen
  CandidatesNumbered
  GeometryRunsAlong
