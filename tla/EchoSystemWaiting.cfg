SPECIFICATION FairSpec
CONSTANTS
  c1 = c1
  c2 = c2
  NUL = NUL
  NULL = NULL
  INVALID = INVALID
  Clients = {c1, c2}
  UpCap = 1
  DownCap = 1
  Backlog = 2
  BufSize = 2
  ChunkMax = 1
  MaxUnits = 1
PROPERTIES
  GoneClientReleased
  WaitingClientServed
