----------------------------- MODULE MCDelayFree ------------------------------
(***************************************************************************)
(* A ring of 6 slots (batch above 3, down to 1) and 6 blocks: four of one  *)
(* page, one of two pages, one of four.                                    *)
(***************************************************************************)
EXTENDS DelayFree, TLC

CONSTANTS b1, b2, b3, b4, b5, b6

MCBlocks == {b1, b2, b3, b4, b5, b6}
MCPageBin == 2
MCBinNum == (b5 :> 3) @@ (b6 :> 4) @@ [b \in {b1, b2, b3, b4} |-> 2]
MCSymmetry == Permutations({b1, b2, b3, b4})
===============================================================================
