CONSTANTS
  Requests <- MCRequests
  Sources <- MCSources
  ColumnSets <- MCColumnSets
  ChunkSize = 2
  MaxCalls = 3
SPECIFICATION Spec
INVARIANTS
  TypeOK
  PredictionsOfThisCall
  ScaledByLastEstimate
  SharedByAll
CHECK_DEADLOCK FALSE
