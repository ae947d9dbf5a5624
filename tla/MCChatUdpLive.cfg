SPECIFICATION FairSpec
CONSTANTS
  p1 = p1  p2 = p2  p3 = p3
  a = a  hello = hello  hi = hi  list = list
  noaddr = noaddr  noname = noname
  Client = {p1, p2, p3}
  MAXCLIENT = 2
  Name = {a, hello, hi, list}
  Username = {a}
  Stored <- MCStored
  Line = {hi, list}
  HELLO = hello
  ListCmd = list
  NoAddr = noaddr
  NoName = noname
  MaxLines = 0
  MaxRepeats = 1
CHECK_DEADLOCK FALSE
PROPERTY HandshakeEnds
