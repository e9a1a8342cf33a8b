SPECIFICATION FairSpec
CONSTANTS
  m1 = m1
  m2 = m2
  Undeclared = undeclared
  Configurations <- MCConfigurations
  MaxOffers = 2
  MaxLapses = 1
INVARIANTS RightCounterpart NoSplitVerdict
PROPERTIES BothPair
CHECK_DEADLOCK FALSE
