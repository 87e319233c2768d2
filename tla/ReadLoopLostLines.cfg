SPECIFICATION LoopSpec
CONSTANTS
  S = S
  c1 = c1
  NL = NL
  CR = CR
  PING = PING
  NoConn = NoConn
  Sock <- OneSock
  ConnId = {c1}
  Fd = {3}
  FdSetSize = 4
  Byte <- Bytes
  MaxSent = 4
  MaxOut = 6
  RecvMax = 3
  MaxClock = 0
INVARIANT EveryLineIsPrinted
CHECK_DEADLOCK FALSE
