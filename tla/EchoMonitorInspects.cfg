SPECIFICATION MonitoredSpec
CONSTANTS
  BufferSizes = 6
  Slack = 1
  MinLength = 3
  HeaderLen = 2
  RandomNumbers = {3}
  Debugger = FALSE
  MaxRounds = 2
  MaxNoise = 0
PROPERTY MonitorOnlyInspects
