CONSTANTS
  t = t
  h = h
  a = a
  b = b
  e1 = e1
  e2 = e2
  e3 = e3
  x1 = x1
  x2 = x2
  Nodes = {t, h, a, b}
  Triggers = {t, h}
  Webhooks = {h}
  Broken = {}
  Entries = {e1, e2, e3}
  Definitions <- Small
  Switches = {TRUE, FALSE}
  Execs = {x1, x2}
  MaxRestarts = 1
SPECIFICATION FairSpec
CHECK_DEADLOCK FALSE
INVARIANTS RunsAreSound MergesItsInput
PROPERTIES OnlyLoadingIsUnknown ReportsAreHandled
