SPECIFICATION FairSpec
CONSTANTS
  NoConn = NoConn
  l = l
  a = a
  b = b
  d = d
  logic = logic
  timer = timer
  Conns <- MCConns
  InitPool <- MCInitPool
  Listeners <- MCListeners
  Logic <- MCLogic
  Timer = timer
  MaxOnline = 1
  PoolFactor = 2
  RecyWait = 1
  TimeOutKick = TRUE
  MaxHold = 0
  MaxQueue = 0
  MaxArrivals = 3
  MaxNow = 1
PROPERTIES ParkedIsFreed
INVARIANTS TypeOK InExactlyOnePlace OnlineIsInUse PoolBounded NoCrosstalk
