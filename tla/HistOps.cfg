CONSTANTS
  GivenBins <- MCGivenBins
  UniformBinnings <- MCUniformBinnings
  Coordinates = {0, 1, 2, 3}
  Weights = {2}
  SliceEnds = {0, 1, 3}
  Unit = 4
  MaxOps = 2
SPECIFICATION Spec
INVARIANTS
  TypeOK
  FindsTheBin
  CellsHoldTheirEntries
CHECK_DEADLOCK FALSE
