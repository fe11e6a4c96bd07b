SPECIFICATION Spec
CONSTANTS
  Builds = {{"APP_ROLE_SERVER", "DEMO_ECHO"}}
  DataWords = 2
  HeapEndAt = 2
  BssWords = 2
  TasksCreatedAt = 2
  HeapTop = 2
  BufferSize = 1
  MaxIncr = 1
  MaxEvents = 1
  MaxResets = 0
INVARIANT HeapReserved
CHECK_DEADLOCK FALSE
