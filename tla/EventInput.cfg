CONSTANTS
  Sessions <- MCSessions
  Remote = {"root://r"}
  Absolute = {"/c"}
  Here = "cwd"
  MissingDirs = {"gone"}
  NewDirs = {"d2", "gone"}
  MaxPast = 1
SPECIFICATION Spec
INVARIANTS
  TypeOK
  ReadsWhatWasNamed
  PassIsChain
  LookupRightAfterReading
  ConvertedIsWhole
CHECK_DEADLOCK FALSE
