CONSTANTS
  r1 = r1
  r2 = r2
  Receivers = {r1, r2}
  Sizes <- Every
  Settings <- All
  RelayChunk = 2
  ServerChunk = 3
  MaxChunks = 3
  Bounds <- Faults
SPECIFICATION Spec
CHECK_DEADLOCK FALSE
INVARIANTS StatusIsTrue ReportIsTrue
PROPERTY NoOverwrite
