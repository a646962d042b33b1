CONSTANTS
  t1 = t1
  t2 = t2
  b1 = b1
  b2 = b2
  b3 = b3
  b4 = b4
  b5 = b5
  b6 = b6
  NoThread = NoThread
  NoBlock = NoBlock
  Threads <- TwoThreads
  Blocks <- FourBlocks
  NumSlots = 2
  MaxFloating = 3
  UseDelay = FALSE
  MaxDelayElms = 4
  DumpInterval = 0
  MaxRequestedBytes <- NoLimit
  AbortOnOOM = FALSE
  AbortOnNull = FALSE
  RequestBound = 1
  BinNums <- MCBinNums
  Sizes <- TwoSizes
  BinOf <- OneBinEach
  LowWater <- MCLowWater
  HighWater <- MCHighWater
SPECIFICATION FairSpec
PROPERTY DumpEnds
CHECK_DEADLOCK FALSE
