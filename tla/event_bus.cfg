SPECIFICATION FairBusSpec
CONSTANTS
  Ids <- MCIds
  BufSize = 2
  SubQueueSize = 1
  MaxSubs = 2
  MaxEvents = 3
INVARIANTS InPublicationOrder StoppedIsQuiet
PROPERTIES NeverStalls BusStopReturns
CHECK_DEADLOCK FALSE
