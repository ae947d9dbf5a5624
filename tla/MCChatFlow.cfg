SPECIFICATION MCFairSpec
CONSTANTS
  MAXCLIENT = 2
  CAP = 1
  MaxLines = 2
CHECK_DEADLOCK FALSE
PROPERTIES
  WritesEnd
  TypedSent
