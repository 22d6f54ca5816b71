CONSTANTS
  Server = "server"
  Cases <- All
  Matches <- Matching
  BadPatterns = {"["}
  Base <- LastParts
SPECIFICATION RoutingSpec
CHECK_DEADLOCK FALSE
INVARIANTS MergeIsLayered SameWhereverItRan EveryNextGoesOneWay
