SPECIFICATION FairSpec
CONSTANTS
  None = None
  NumGames = 3
  Uid = {u1}
  Config <- MCFriendly
  Points <- MCPoints
  TieScore = 2
  MaxSeries = 1
  MaxReruns = 1
  MaxCrashes = 1
  MaxLost = 1
PROPERTIES ClosedAlike EveryRunEnds
CHECK_DEADLOCK FALSE
