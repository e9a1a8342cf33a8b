SPECIFICATION Spec
CONSTANTS
  None = None
  NumGames = 3
  Uid = {u1, u2}
  Config <- MCConfig
  Points <- MCPoints
  TieScore = 2
  MaxSeries = 2
  MaxReruns = 0
  MaxCrashes = 1
  MaxLost = 1
INVARIANTS OneSequence NoMixedSeries OneCountedUid LeagueHearsCounted
SYMMETRY Symmetry
CHECK_DEADLOCK FALSE
