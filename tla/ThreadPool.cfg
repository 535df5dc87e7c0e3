SPECIFICATION FairSpec
CONSTANTS
  w1 = w1
  w2 = w2
  w3 = w3
  Workers <- MCWorkers
  Main = Main
  Nobody = Nobody
  MaxMsgs = 3
  Stops = TRUE
INVARIANTS TakesNonEmpty CountsExact WorkConserving
PROPERTIES ImplementsWorkPool EachProcessed
CHECK_DEADLOCK FALSE
