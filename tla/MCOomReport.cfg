CONSTANTS
  b1 = b1
  b2 = b2
  b3 = b3
  b4 = b4
  b5 = b5
  Blocks <- FiveBlocks
  NoBlock = NoBlock
  LowWater = 2
  HighWater = 2
  DumpInterval <- NoLimit
  MaxRequestedBytes <- NoLimit
  AbortOnOOM = TRUE
  Signals = FALSE
  RequestBound = 5
  MaxFrames = 6
SPECIFICATION Spec
PROPERTY AbortHappens
CHECK_DEADLOCK FALSE
