CONSTANTS
  N = 2
  MaxSize = 3
SPECIFICATION Spec
INVARIANT EndMeansAllSourcesEmpty
