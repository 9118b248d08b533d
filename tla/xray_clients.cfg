SPECIFICATION Spec
CONSTANTS
  Users <- MCUsers
  Bases <- MCBases
  Refused <- MCBad
  Invalid <- MCNone
  Unhealthy <- MCNone
  NoCfg = NoCfg
  InitDb <- MCInitUsers
  InitFile <- MCInitUsers
  Actors <- Recovering
  RestartOnDisable = TRUE
  MaxOps = 3
  MaxFaults = 1
INVARIANTS DeletedClientsDropped
