------------------------------ MODULE MCSlotHeap ------------------------------
(***************************************************************************)
(* Small instances of the heap: two threads, two bins (bin 1 preallocated  *)
(* and kept at 1 to 2 free blocks, bin 2 carved on demand).  Either each   *)
(* of two sizes has a bin of its own, or the sizes 1 and 2 share bin 1, so *)
(* that a block is used again with another size.                           *)
(***************************************************************************)
EXTENDS SlotHeap, TLC

CONSTANTS t1, t2, b1, b2, b3, b4, b5, b6

TwoThreads == {t1, t2}
ThreeBlocks == {b1, b2, b3}
FourBlocks == {b1, b2, b3, b4}
FiveBlocks == {b1, b2, b3, b4, b5}
SixBlocks == {b1, b2, b3, b4, b5, b6}
MCBinNums == {1, 2}
TwoSizes == {1, 2}
OneBinEach == <<1, 2>>
ThreeSizes == {1, 2, 3}
SharedBin == <<1, 1, 2>>
MCLowWater == <<1, 0>>
MCHighWater == <<2, 0>>
NoLimit == 1000
Symmetric == Permutations(TwoThreads) \cup Permutations(Blocks)
===============================================================================
