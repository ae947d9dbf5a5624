SPECIFICATION FairSpec
CONSTANTS
  c1 = c1  c2 = c2  c3 = c3
  a = a  b = b  long = long  ca = ca
  hi = hi  list = list  tail = tail  stale = stale
  none = none  noname = noname
  Conn = {c1, c2}
  MAXCLIENT = 2
  Name = {a, ca}
  Username = {a, long}
  Stored <- MCStored
  Overlong = {long}
  Line = {list}
  ListCmd = list
  Rest = tail
  Junk = stale
  NoSock = none
  NoName = noname
  MaxLines = 1
  MaxRead = 2
  SyscallsFail = TRUE
CHECK_DEADLOCK FALSE
INVARIANT UniqueNames
PROPERTIES
  RefinesRoom
  ConnectionAnswered
  SlotFreed
  InputRead
