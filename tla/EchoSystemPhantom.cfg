SPECIFICATION Spec
CONSTANTS
  c1 = c1
  NUL = NUL
  NULL = NULL
  INVALID = INVALID
  Clients = {c1}
  UpCap = 1
  DownCap = 1
  Backlog = 2
  BufSize = 2
  ChunkMax = 1
  MaxUnits = 1
INVARIANT NoPhantomClient
