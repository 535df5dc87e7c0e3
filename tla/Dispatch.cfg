SPECIFICATION FairSpec
CONSTANTS
  c1 = c1
  c2 = c2
  E = E
  S = S
  T = T
  R = R
  Nobody = Nobody
  NoConn = NoConn
  Workers = {w1, w2}
  Conns = {c1, c2}
  register = register
  ping = ping
  damaged = damaged
  Kinds = {register, ping, damaged}
  Packet <- Packets
  SizeRegister = 6
  SizeLogin = 5
  Leavers = {c1}
  MaxMsgs = 3
  QueueMax = 1
  BacklogMax = 0
INVARIANTS TypeOK NoCircularWait OvertakingBounded AnsweredOnce SoundAnswered
PROPERTIES EachFinished
CHECK_DEADLOCK FALSE
