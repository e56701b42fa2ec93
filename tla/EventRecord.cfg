CONSTANTS
  Sessions <- MCSessions
  Remote = {"root://r"}
  Absolute = {"/c"}
  Here = "cwd"
  MissingDirs = {"gone"}
  NewDirs = {"d2", "gone"}
  MaxPast = 1
SPECIFICATION Spec
INVARIANT LookupReturnsTheEvent
CHECK_DEADLOCK FALSE
