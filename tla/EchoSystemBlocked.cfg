SPECIFICATION FairSpec
CONSTANTS
  c1 = c1
  NUL = NUL
  NULL = NULL
  INVALID = INVALID
  Clients = {c1}
  UpCap = 3
  DownCap = 1
  Backlog = 1
  BufSize = 3
  ChunkMax = 5
  MaxUnits = 6
INVARIANT TypeOK
PROPERTIES
  ImplementsEchoService
  BlockedSenderReleased
  EveryUnitAnswered
