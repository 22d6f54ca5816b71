CONSTANTS
  c1 = c1
  c2 = c2
  c3 = c3
  t = t
  a = a
  b = b
  d = d
  Clients = {c1, c2}
  Nodes = {t, a, b}
  Trigger = t
  Edges <- ChainEdges
  Defs <- Edited
  Broken = {}
  TriggerKind = "webhook"
  MaxExecs = 2
  Bounds <- Faults
SPECIFICATION Spec
INVARIANTS OneRowPerKey RowsAreEarned NoSilentLoss
