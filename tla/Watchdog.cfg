SPECIFICATION GameSpec
CONSTANTS
  Capacity = 8
  Cost = 4
  Refill = 1
  Threshold = 4
  Day = 8
  TripAfter = 3
  WaitTimeout = 2
  Backoff = 1
  MaxRetries = 1
  CallTimeout = 2
  Horizon = 4
  Timeout = 11
  Slice = 1
  TurnTimeout = 13
  HalfTurns = 3
INVARIANTS RateBounded LiveLoopSpared
PROPERTIES LockIsFinal StuckLoopShot EveryGameEnds
CHECK_DEADLOCK FALSE
