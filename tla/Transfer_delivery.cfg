CONSTANTS
  r1 = r1
  r2 = r2
  Receivers = {r1, r2}
  Sizes <- Relayable
  Settings <- Fine
  RelayChunk = 2
  ServerChunk = 3
  MaxChunks = 3
  Bounds <- Downloads
SPECIFICATION FairSpec
CHECK_DEADLOCK FALSE
PROPERTIES RelayIsDelivered SenderReports
