-------------------------------- MODULE MCPool --------------------------------
(***************************************************************************)
(* Pages of 2 bytes; bins of 1, 2 and 4 pages, the smaller two filled with *)
(* two blocks each at the start of two slots; three pools, each later one  *)
(* grown by a block of the largest bin or by three pages.                  *)
(***************************************************************************)
EXTENDS Pool

MCBinNums == {1, 2, 3}
MCStartBins == {1, 2}
===============================================================================
