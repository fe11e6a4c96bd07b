SPECIFICATION MCSpec
CONSTANTS
  Builds <- SomeBuilds
  DataWords = 2
  HeapEndAt = 2
  BssWords = 2
  TasksCreatedAt = 2
  HeapTop = 1
  BufferSize = 1
  MaxIncr = 1
  MaxEvents = 2
  MaxResets = 1
  MaxInterrupts = 2
  PriorityStep = 1
  IRQs <- SomeIRQs
  Files <- SomeFiles
  Levels = {0, 1, 255}
  Parts = {0, 1, 2, 5, 63, 127, 128, 255}
  Periods <- SomePeriods
  Counts = {0, 1, 2, 3, 4, 5, 6, 7, 8, 9, 10}
  Cores <- SomeCores
  Flags <- SomeFlags
  Words <- SomeWords
  Shifts = {0, 1, 8, 31, 32, 33, 48}
  Values <- SomeValues
  Limits = {1, 2, 4, 8}
  Tables <- SomeTables
  Mpus <- SomeMpus
  Memory <- Units
  Contexts = {"thread", "tick", "frame"}
  CounterRange = 3
  MaxStored = 7
  MaxChars = 3
  Printers = {"task", "IP task"}
  len <- Lines
INVARIANTS TypeOK OneDemoOnce HeapIntact KernelExclusive MasksNest InterruptsIndependent PrioritiesAgree ContextsKept RegionsLoaded BitsMoved NoLostUpdate CharactersKept LinesPrinted
PROPERTIES StoppedStays DemoStarts FrameServed
CHECK_DEADLOCK FALSE
