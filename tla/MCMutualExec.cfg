SPECIFICATION FairSpec
CONSTANTS
  Numbers = {0, 1, 2, 5}
  Failures = TRUE
CHECK_DEADLOCK FALSE
INVARIANTS
  OrderlyEnd
PROPERTIES
  RefinesAlternation
  BothEnd
