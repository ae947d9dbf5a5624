SPECIFICATION Spec
CONSTANTS
  c1 = c1  c2 = c2  c3 = c3
  a = a  b = b  long = long  ca = ca
  hi = hi  list = list  tail = tail  stale = stale
  none = none  noname = noname
  Conn = {c1, c2, c3}
  MAXCLIENT = 2
  Name = {a, b, ca}
  Username = {a, b}
  Stored <- MCStored
  Overlong = {}
  Line = {hi}
  ListCmd = list
  Rest = tail
  Junk = stale
  NoSock = none
  NoName = noname
  MaxLines = 1
  MaxRead = 1
  SyscallsFail = FALSE
CONSTRAINT Running
SYMMETRY Connections
CHECK_DEADLOCK FALSE
INVARIANTS
  CountCoversSlots
  DescriptorsKept
  ReadNeverBlocks
  HandshakeOrder
  StoryCoherent
PROPERTIES
  LiveClientKept
