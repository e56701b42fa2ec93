CONSTANTS
  N = 3
  MaxSize = 4
SPECIFICATION FairSpec
INVARIANTS
  TypeOK
  StreamInOrder
  NothingSkipped
  FinishedIsDrained
  RoundRobin
  EndLosesOnlyLongTails
  NormInfoCountsPass
PROPERTIES
  ImplementsMerge
  LoopEnds
