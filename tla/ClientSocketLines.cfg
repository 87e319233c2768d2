SPECIFICATION Spec
CONSTANTS
  s1 = s1
  s2 = s2
  c1 = c1
  c2 = c2
  c3 = c3
  x = x
  NL = NL
  CR = CR
  NoConn = NoConn
  Sock = {s1}
  ConnId = {c1, c2}
  Fd = {3}
  FdSetSize = 4
  Byte = {NL, CR}
  MaxSent = 2
  MaxOut = 0
  RecvMax = 2
  MaxClock = 1
INVARIANT ConnectedWasEstablished
PROPERTIES LinesAreOfTheStream DisconnectionIsFinal OnlyTimeTimesOut
CHECK_DEADLOCK FALSE
