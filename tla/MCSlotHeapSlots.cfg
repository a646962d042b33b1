CONSTANTS
  t1 = t1
  t2 = t2
  b1 = b1
  b2 = b2
  b3 = b3
  b4 = b4
  b5 = b5
  b6 = b6
  NoThread = NoThread
  NoBlock = NoBlock
  Threads <- TwoThreads
  Blocks <- FiveBlocks
  NumSlots = 2
  MaxFloating = 2
  UseDelay = FALSE
  MaxDelayElms = 4
  DumpInterval <- NoLimit
  MaxRequestedBytes <- NoLimit
  AbortOnOOM = FALSE
  AbortOnNull = FALSE
  RequestBound = 2
  BinNums <- MCBinNums
  Sizes <- TwoSizes
  BinOf <- OneBinEach
  LowWater <- MCLowWater
  HighWater <- MCHighWater
SPECIFICATION Spec
SYMMETRY Symmetric
INVARIANTS TypeOK OnePlace Exclusive AssertionsHold BinCounters SlotCounters
PROPERTY HeaderUntouched
