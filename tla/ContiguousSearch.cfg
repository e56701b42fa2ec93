CONSTANTS
  SizeMod = 16
  MaxBins = 5
  MaxEdge = 8
SPECIFICATION FairSearch
INVARIANTS
  SearchTypeOK
  SearchFindsTheBin
  IndexInRange
PROPERTY Returns
CHECK_DEADLOCK FALSE
