CONSTANTS
  Malformed = Malformed
  Folders = {"there"}
  Files <- AllFiles
  MaxResets = 2
  Cells <- HexCells
  Adjacent <- HexAdjacent
  H3Line <- HexLine
  Jobs <- AllJobs
  MaxEdges = 3
  Buffer = 2
SPECIFICATION JobSpec
INVARIANTS
  JobTypeOK
  RowsInOrder
  RunsAreWhole
  SameConfig
  ResultAccounts
  RowFitsHeader
  HexesJoin
PROPERTIES
  ImplementsRuns
CHECK_DEADLOCK FALSE
