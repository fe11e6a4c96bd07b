SPECIFICATION Spec
CONSTANTS
  c1 = c1
  NUL = NUL
  NULL = NULL
  INVALID = INVALID
  Clients = {c1}
  UpCap = 2
  DownCap = 1
  Backlog = 2
  BufSize = 3
  ChunkMax = 2
  MaxUnits = 3
INVARIANT EchoComplete
