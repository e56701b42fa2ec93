CONSTANTS
  MaxCalls = 4
  MaxChunk = 2
  MayResume = TRUE
SPECIFICATION FairSpec
INVARIANTS
  TypeOK
  RowsAreTheKept
  NothingDropped
  WithinLimitAndChunk
  EstimateIsWhatWasLooped
  AllIsComplete
PROPERTY AllReturns
