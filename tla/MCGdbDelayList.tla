---------------------------- MODULE MCGdbDelayList ----------------------------
(***************************************************************************)
(* The search of grgdb.py over the ring of MCDelayFree.                    *)
(***************************************************************************)
EXTENDS MCDelayFree, GdbDelayList
===============================================================================
