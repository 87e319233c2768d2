SPECIFICATION CarefulSpec
CONSTANTS
  s1 = s1
  s2 = s2
  c1 = c1
  c2 = c2
  c3 = c3
  x = x
  NL = NL
  CR = CR
  NoConn = NoConn
  Sock <- TwoSocks
  ConnId = {c1, c2, c3}
  Fd = {3, 4, 5}
  FdSetSize = 5
  Byte <- Bytes
  MaxSent = 0
  MaxOut = 2
  RecvMax = 1
  MaxClock = 0
SYMMETRY Symmetry
INVARIANTS
  TypeOK
  CarefulDescriptorIsMine
  CarefulNoLeak
  CarefulNoCrosstalk
  CarefulFraming
  CarefulDeathIsSigpipe
CHECK_DEADLOCK FALSE
