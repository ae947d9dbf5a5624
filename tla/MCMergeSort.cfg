SPECIFICATION FairSpec
CONSTANTS
  Sizes = {1, 2, 5, 6, 8}
  Values = {1, 2}
  Failures = TRUE
CHECK_DEADLOCK FALSE
INVARIANTS
  IndicesInBounds
  SortedAtEnd
  OnlyOneLost
PROPERTIES
  OtherHalfKept
  SortEnds
