CONSTANTS
  Raw = Raw
  Wrappers = {w1, w2}
  External = {w2}
  MaxEvents = 3
  MaxGiven = 4
SPECIFICATION Spec
INVARIANTS
  TypeOK
  AccumulatorCountsGiven
  EachEventReadOnce
  ReadsAreGiven
  GoodSourceSurvives
CHECK_DEADLOCK FALSE
