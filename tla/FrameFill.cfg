CONSTANTS
  Bins = {1}
  Categories = {0, 1}
  NLabels = 1
  Plans <- MCPlans
  MaxBatch = 2
  MaxRows = 3
SPECIFICATION Spec
INVARIANTS
  TypeOK
  CellsHoldTheirRows
  NumFillsIsTotal
