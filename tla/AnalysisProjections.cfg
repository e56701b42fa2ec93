CONSTANTS
  Requests <- MCRequests
  Sources <- MCSources
  ColumnSets <- MCColumnSets
  ChunkSize = 2
  MaxCalls = 1
SPECIFICATION Spec
INVARIANTS
  EachDistributionIsItsOwn
CHECK_DEADLOCK FALSE
