CONSTANTS
  b1 = b1
  b2 = b2
  b3 = b3
  b4 = b4
  b5 = b5
  Blocks <- FiveBlocks
  NoBlock = NoBlock
  LowWater = 1
  HighWater = 2
  DumpInterval = 1
  MaxRequestedBytes <- NoLimit
  AbortOnOOM = FALSE
  Signals = FALSE
  RequestBound = 6
  MaxFrames = 7
SPECIFICATION Spec
INVARIANTS TypeOK Linked ReportComplete ReportsNest
PROPERTIES ListsKept CallsEnd
