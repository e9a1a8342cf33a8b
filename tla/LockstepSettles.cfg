SPECIFICATION FairSpec
CONSTANTS
  GridSize = 2
  MaxBarriers = 1
  MaxMoves = 2
  SurvivalThreshold = 3
  CopStart <- Origin
  ThiefStart <- Below
  Choice <- StaySE
  PendingCap = 4
  MaxCrashes = 1
  MaxLapses = 1
  MaxLate = 0
  TornCrashes = TRUE
INVARIANTS MutualAudit
PROPERTIES EveryPeerSettles
CHECK_DEADLOCK FALSE
