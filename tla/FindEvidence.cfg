SPECIFICATION Spec
CONSTANTS
  GridSize = 2
  MaxBarriers = 1
  MaxMoves = 3
  SurvivalThreshold = 3
  CopStart <- Origin
  ThiefStart <- Opposite
  Choice <- Moves
  MaxCrashes = 0
  MaxLapses = 0
  MaxLate = 0
  TornCrashes = FALSE
INVARIANTS EvidenceOnly
CHECK_DEADLOCK FALSE
