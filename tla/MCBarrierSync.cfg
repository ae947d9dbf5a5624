SPECIFICATION FairSpec
CONSTANTS
  PROCESS_NUM = 4
  Main = main
  Failures = TRUE
CHECK_DEADLOCK FALSE
INVARIANTS
  RemovedLast
PROPERTIES
  RefinesBarrier
  AllPass
