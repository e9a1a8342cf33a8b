SPECIFICATION Spec
CONSTANTS
  None = None
  GridSize = 5
  MaxBarriers = 1
  MaxMoves = 50
  SurvivalThreshold = 35
  CopStart <- MCCopStart
  ThiefStart <- MCThiefStart
  FloorEps = 37000
  Floors = {0, 37000}
  MaxTurns = 6
  MaxEvents = 3
  MaxGlitches = 2
  MaxSilences = 1
  MaxRestarts = 1
INVARIANTS HonestTrailTrusted GlitchCostsTwo FloorTolerated TrackIsPath PinNearTruth TruthInSupport
CHECK_DEADLOCK FALSE
