SPECIFICATION Spec
CONSTANTS
  BufferSizes = 6
  Slack = 1
  MinLength = 3
  HeaderLen = 2
  RandomNumbers = {3, 4}
  Debugger = FALSE
  MaxRounds = 2
  MaxNoise = 0
INVARIANT MissingReplyDoesNotBlock
