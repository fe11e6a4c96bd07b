SPECIFICATION Spec
CONSTANTS
  c1 = c1
  c2 = c2
  NUL = NUL
  NULL = NULL
  INVALID = INVALID
  Clients = {c1, c2}
  UpCap = 2
  DownCap = 1
  Backlog = 2
  BufSize = 3
  ChunkMax = 2
  MaxUnits = 2
SYMMETRY Symmetry
INVARIANTS
  EchoInOrder
  LossOnlyWhenShort
  NoSocketLeak
