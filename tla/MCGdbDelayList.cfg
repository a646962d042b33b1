CONSTANTS
  b1 = b1
  b2 = b2
  b3 = b3
  b4 = b4
  b5 = b5
  b6 = b6
  NoBlock = NoBlock
  MaxDelayElms = 6
  Blocks <- MCBlocks
  BinNum <- MCBinNum
  PageBin <- MCPageBin
SYMMETRY MCSymmetry
SPECIFICATION Spec
INVARIANT FindsDelayed
