CONSTANTS
  PageSize = 16
  FixedHdr = 4
  Word = 2
  TrackFrames = 1
  TrackFreeFrames = 1
  MaxSlop = 2
  WordBits = 8
  MaxAllocPower = 7
  EarlyCalls = TRUE
  Blocks <- TwoBins
  Sizes <- MCSizes
  Alignments <- MCAlignments
  Counts <- MCCounts
  MaxOverrun = 4
SPECIFICATION Spec
INVARIANT RegionsApart
