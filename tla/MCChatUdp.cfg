SPECIFICATION Spec
CONSTANTS
  p1 = p1  p2 = p2  p3 = p3
  a = a  hello = hello  hi = hi  list = list
  noaddr = noaddr  noname = noname
  Client = {p1, p2, p3}
  MAXCLIENT = 2
  Name = {a, hello, hi, list}
  \* a user may be called "/list": when that datagram is repeated it is a command
  Username = {a, list}
  Stored <- MCStored
  Line = {hi}
  HELLO = hello
  ListCmd = list
  NoAddr = noaddr
  NoName = noname
  MaxLines = 1
  MaxRepeats = 1
CONSTRAINT Running
SYMMETRY Processes
CHECK_DEADLOCK FALSE
INVARIANTS
  CountExact
  SlotsDistinct
  ChattersRegistered
  NamesStand
PROPERTY MembersStay
