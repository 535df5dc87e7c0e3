SPECIFICATION Spec
CONSTANTS
  NoConn = NoConn
  c1 = c1
  c2 = c2
  Conns <- MCConns
  MaxFd = 2
  WaitTime = 1
  Grace = 0
  MaxNow = 6
INVARIANT KeepsSocket
CHECK_DEADLOCK FALSE
