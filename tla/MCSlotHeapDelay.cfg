CONSTANTS
  t1 = t1
  t2 = t2
  b1 = b1
  b2 = b2
  b3 = b3
  b4 = b4
  b5 = b5
  b6 = b6
  NoThread = NoThread
  NoBlock = NoBlock
  Threads <- TwoThreads
  Blocks <- FiveBlocks
  NumSlots = 1
  MaxFloating = 2
  UseDelay = TRUE
  MaxDelayElms = 4
  DumpInterval <- NoLimit
  MaxRequestedBytes = 6
  AbortOnOOM = TRUE
  AbortOnNull = TRUE
  RequestBound = 7
  BinNums <- MCBinNums
  Sizes <- ThreeSizes
  BinOf <- SharedBin
  LowWater <- MCLowWater
  HighWater <- MCHighWater
SPECIFICATION Spec
SYMMETRY Symmetric
INVARIANTS OnePlace Exclusive AssertionsHold BinCounters SlotCounters
PROPERTIES HeaderUntouched EverySlotQuarantines
