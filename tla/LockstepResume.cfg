SPECIFICATION Spec
CONSTANTS
  GridSize = 2
  MaxBarriers = 1
  MaxMoves = 2
  SurvivalThreshold = 3
  CopStart <- Origin
  ThiefStart <- Below
  Choice <- StaySE
  PendingCap = 4
  MaxCrashes = 1
  MaxLapses = 0
  MaxLate = 1
  TornCrashes = FALSE
INVARIANTS CleanFinish ReplicasAgree CrashCostsNothing
PROPERTIES ImplementsEngine
CHECK_DEADLOCK FALSE
