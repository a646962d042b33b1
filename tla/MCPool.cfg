CONSTANTS
  PageSize = 2
  MaxMemPools = 3
  MinExpandSize = 6
  StartPoolMult = 2
  NumSlots = 2
  BinNums <- MCBinNums
  StartBins <- MCStartBins
  HighWater = 2
  AddressLimit = 7
  LockMemory = FALSE
  AbortOnOOM = TRUE
  NoBin = NoBin
SPECIFICATION Spec
INVARIANTS
  TypeOK
  Separate
  AssertionsHold
  FullAtStart
