CONSTANTS
  N = 3
  ClearCnt = 2
  MaxPush = 5
  MaxConns = 2
  SingleBufSize = 4
  LWS_PRE = 1
  Traffic <- MCTraffic
SPECIFICATION MemSpec
INVARIANT SentOnItsConnection
CHECK_DEADLOCK FALSE
