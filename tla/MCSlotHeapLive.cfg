CONSTANTS
  t1 = t1
  t2 = t2
  b1 = b1
  b2 = b2
  b3 = b3
  b4 = b4
  b5 = b5
  b6 = b6
  NoThread = NoThread
  NoBlock = NoBlock
  Threads <- TwoThreads
  Blocks <- FourBlocks
  NumSlots = 1
  MaxFloating = 2
  UseDelay = TRUE
  MaxDelayElms = 4
  DumpInterval = 1
  MaxRequestedBytes <- NoLimit
  AbortOnOOM = FALSE
  AbortOnNull = FALSE
  RequestBound = 4
  BinNums <- MCBinNums
  Sizes <- TwoSizes
  BinOf <- OneBinEach
  LowWater <- MCLowWater
  HighWater <- MCHighWater
SPECIFICATION FairSpec
PROPERTY CallsReturn
