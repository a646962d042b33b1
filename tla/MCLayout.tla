------------------------------- MODULE MCLayout -------------------------------
(***************************************************************************)
(* Pages of 16 bytes, words of 2, sizes of 8 bits, bins of 16 and 64 bytes.*)
(***************************************************************************)
EXTENDS Layout

TwoBins == {[at |-> 16, bin |-> 4], [at |-> 144, bin |-> 6]}
MCSizes == {0, 1, 3, 6, 27, 247, 255}
MCAlignments == {0, 1, 2, 3, 4, 16, 32}
MCCounts == {1, 2}
===============================================================================
