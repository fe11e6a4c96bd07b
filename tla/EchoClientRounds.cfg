SPECIFICATION MCSpec
CONSTANTS
  BufferSizes = 6
  Slack = 1
  MinLength = 3
  HeaderLen = 2
  RandomNumbers = {2, 3, 4, 9}
  Debugger = TRUE
  MaxRounds = 3
  MaxNoise = 2
  Modulus = 64
  Divisor = 8
  OutputRange = 4
  Multiplier = 53
  LengthRange = 3
  lMinimumLength = 2
  MaxStackDraws = 2
INVARIANTS
  TypeOK
  ReplyIsOwn
  OneVerdictPerConnection
  OneSocket
  RandomTypeOK
PROPERTIES
  CycleMeansEcho
  RoundEnds
  LengthFound
