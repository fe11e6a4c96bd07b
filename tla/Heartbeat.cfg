SPECIFICATION FairHostsSpec
CONSTANTS
  LineLen = 2
  CounterMod = 3
  StreamCap = 3
  BackCap = 2
  ChunkMax = 2
INVARIANTS TypeOK OneSocket
PROPERTIES
  LinesInOrder
  BlockedHostReleased
  ResetEndsServer
