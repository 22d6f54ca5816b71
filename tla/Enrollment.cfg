CONSTANTS
  c1 = c1
  c2 = c2
  i1 = i1
  i2 = i2
  t1 = t1
  h1 = h1
  h2 = h2
  NoId = NoId
  NoToken = NoToken
  NoHandler = NoHandler
  Clients = {c1, c2}
  Ids = {i1, i2}
  Tokens = {t1}
  Handlers = {h1, h2}
  MaxUses = 1
  MaxFaults = 1
SPECIFICATION FairSpec
INVARIANTS LimitsHold IdentitiesAreKept
PROPERTIES RevokedLetsGo GetsIn
