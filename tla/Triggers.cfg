CONSTANTS
  f1 = f1
  f2 = f2
  Files = {f1, f2}
  Matching = {f1}
  Settings <- All
  MaxQueue = 2
SPECIFICATION FairSpec
CHECK_DEADLOCK FALSE
INVARIANT NeverSilent
PROPERTIES MissIsEarned StopEnds
