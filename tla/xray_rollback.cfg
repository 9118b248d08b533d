SPECIFICATION FairSpec
CONSTANTS
  Users = {u1}
  Bases <- MCBases
  Refused <- MCNone
  Invalid <- MCNone
  Unhealthy <- MCBad
  NoCfg = NoCfg
  InitDb <- MCInitDb
  InitFile <- MCInitDb
  Actors <- WithDirect
  RestartOnDisable = FALSE
  MaxOps = 2
  MaxFaults = 2
INVARIANTS SingleCore StoppedStaysStopped KnownGood NoLostEdit
PROPERTIES Converges
