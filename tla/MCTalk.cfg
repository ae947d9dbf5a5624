SPECIFICATION FairSpec
CONSTANTS
  Client = {c1}
  NoClient = none
  TIMEOUT = 2
  MaxLines = 2
  CAP = 2
CHECK_DEADLOCK FALSE
INVARIANTS
  OneTimer
PROPERTIES
  NoEarlyAlarm
  IdleEnds
  ClientReleased
