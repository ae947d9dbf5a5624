SPECIFICATION FairSpec
CONSTANTS
  NUMPROCS = 4
  Empty = empty
  Failures = TRUE
CHECK_DEADLOCK FALSE
INVARIANTS
  FileConsistent
PROPERTIES
  RefinesCounter
  AllCounted
