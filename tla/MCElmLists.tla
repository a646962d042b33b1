------------------------------ MODULE MCElmLists ------------------------------
(***************************************************************************)
(* A bin of five blocks, two of them free at the start and three still in  *)
(* the pools.                                                              *)
(***************************************************************************)
EXTENDS ElmLists

CONSTANTS b1, b2, b3, b4, b5

FiveBlocks == {b1, b2, b3, b4, b5}
NoLimit == 1000
===============================================================================
