CONSTANTS
  c1 = c1
  c2 = c2
  c3 = c3
  t = t
  a = a
  b = b
  d = d
  Clients = {c1, c2}
  Nodes = {t, a, d}
  Trigger = t
  Edges <- ForkEdges
  Defs <- OnlyFork
  Broken = {}
  TriggerKind = "timer"
  MaxExecs = 2
  Bounds <- Crashes
SPECIFICATION FairSpec
INVARIANT EveryNextHasOneOwner
PROPERTY PendingEventuallyDone
