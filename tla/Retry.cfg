CONSTANTS
  r1 = r1
  r2 = r2
  Runs = {r1, r2}
  Policies <- Chosen
  Capacity = 1
  DefaultBackoff = 1
  DefaultMax = 4
SPECIFICATION FairSpec
CHECK_DEADLOCK FALSE
INVARIANTS ResultsAreOwn OneVerdict NoOrphan SleepsDouble
PROPERTIES KeepsPromise DeadlineConcludes StopEndsRuns
