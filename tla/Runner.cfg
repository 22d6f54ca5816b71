CONSTANTS
  t = t
  a = a
  k = k
  s1 = s1
  i1 = i1
  i2 = i2
  None = None
  Triggers = {t}
  Actions = {a}
  Refs = {k}
  Secrets = {s1}
  Items = {i1, i2}
  Defs <- Edits
  Ttl = 1
  Delay = 1
  Attempts = 2
  MaxRevs = 2
  MaxToggles = 2
  MaxFaults = 1
SPECIFICATION FairSpec
INVARIANTS InstalledServes CloseStops
PROPERTIES StaleSecretsExpire CatchesUp HandoffsStart
