CONSTANTS
  b1 = b1
  b2 = b2
  b3 = b3
  b4 = b4
  b5 = b5
  Blocks <- FiveBlocks
  NoBlock = NoBlock
  LowWater = 1
  HighWater = 2
  DumpInterval <- NoLimit
  MaxRequestedBytes <- NoLimit
  AbortOnOOM = FALSE
  Signals = TRUE
  RequestBound = 5
  MaxFrames = 6
SPECIFICATION Spec
INVARIANT ReportComplete
CHECK_DEADLOCK FALSE
