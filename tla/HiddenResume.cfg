SPECIFICATION Spec
CONSTANTS
  GridSize = 2
  MaxBarriers = 2
  MaxMoves = 3
  SurvivalThreshold = 3
  CopStart <- Origin
  ThiefStart <- Beside
  Choice <- MovesAndWalls
  MaxCrashes = 1
  MaxLapses = 0
  MaxLate = 1
  TornCrashes = FALSE
INVARIANTS SurvivalIsTrue WallsAgree CrashCostsNothing ForeignJudgedFairly HonestAudit
PROPERTIES EveryClaimAnswered
CHECK_DEADLOCK FALSE
