SPECIFICATION Spec
CONSTANTS
  NoConn = NoConn
  NoMsg = NoMsg
  c1 = c1
  c2 = c2
  m1 = m1
  m2 = m2
  m3 = m3
  n1 = n1
  Conns <- MCConnsOne
  Msgs <- MCMsgsOne
  ConnOf <- MCConnOfOne
  Size = 2
  Room = 1
  QueueMax = 1
  BacklogMax = 0
  UnreadAtClose = TRUE
  Leavers = {c1}
INVARIANT WireFraming
CHECK_DEADLOCK FALSE
