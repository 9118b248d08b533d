SPECIFICATION FairHubSpec
CONSTANTS
  Clients <- MCClients
  OpsQueue = 1
  Backlog = 1
  SendQueue = 1
  Attempts = 3
  MaxPanics = 2
INVARIANTS RegisteredIsOpen UnregisterIsLast
PROPERTIES StragglersEvicted StopClosesRegistered
CHECK_DEADLOCK FALSE
