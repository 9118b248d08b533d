SPECIFICATION FairMonitorSpec
CONSTANTS
  FailureThreshold = 3
  Cooldown = 6
  Slowest = 4
PROPERTIES CompletedSpaced DownIsRecovered
CHECK_DEADLOCK FALSE
