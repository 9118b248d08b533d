SPECIFICATION Spec
CONSTANTS
  Submitters <- MCSubmitters
  QueueSize = 1
  MaxGens = 2
  MaxWrites = 2
INVARIANTS StoppedIsDrained
PROPERTIES KeepsPromise StopReturns
CHECK_DEADLOCK FALSE
