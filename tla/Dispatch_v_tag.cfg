CONSTANTS
  c1 = c1
  c2 = c2
  c3 = c3
  t = t
  a = a
  b = b
  d = d
  Clients = {c1, c2, c3}
  Nodes = {t, a, b}
  Trigger = t
  Edges <- ChainEdges
  Defs <- OnlyTag
  Broken = {}
  TriggerKind = "timer"
  MaxExecs = 1
  Bounds <- FireOnce
SPECIFICATION Spec
INVARIANTS OneOwner
