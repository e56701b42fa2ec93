CONSTANTS
  MaxCalls = 4
  MaxChunk = 2
  MayResume = FALSE
SPECIFICATION Spec
INVARIANT LastRowIsFinalEstimate
