SPECIFICATION EscapeSpec
CONSTANTS
  None = None
  GridSize = 3
  MaxBarriers = 2
  MaxMoves = 9
  SurvivalThreshold = 3
  CopStart <- Edge
  ThiefStart <- Far
  MaxSupport = 2
  MaxHorizon = 3
  MaxStays = 1
  ForecastWalls = 2
  WallReach = 3
  SiteCap = 5
  TunedGrid = 9
INVARIANTS CaptureExact SurvivalEarned RoomIsFloor
PROPERTIES CertificateHolds ForecastHolds GateHolds
CHECK_DEADLOCK FALSE
