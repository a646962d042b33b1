------------------------------ MODULE BlockLists ------------------------------
(***************************************************************************)
(* What a bin's two lists promise, however they are linked: blocks leave   *)
(* the free list at its head and the list of blocks in use from anywhere,  *)
(* join either at its head, and are on at most one of the two, once.       *)
(***************************************************************************)
EXTENDS Naturals, Sequences, SequencesExt

CONSTANT Blocks
VARIABLES free, inuse

vars == <<free, inuse>>

Listed == ToSet(free) \cup ToSet(inuse)

Init == /\ inuse = <<>>
        /\ free \in Seq(Blocks) /\ IsInjective(free)

(* A block leaves its list, and belongs to the call that took it off. *)
TakeFree == free # <<>> /\ free' = Tail(free) /\ UNCHANGED inuse
TakeInUse(b) ==
  /\ \E k \in DOMAIN inuse : inuse[k] = b /\ inuse' = RemoveAt(inuse, k)
  /\ UNCHANGED free

(* A block that is on neither list, also one new from the pools, joins. *)
PutFree(b) == b \notin Listed /\ free' = <<b>> \o free /\ UNCHANGED inuse
PutInUse(b) == b \notin Listed /\ inuse' = <<b>> \o inuse /\ UNCHANGED free

Next == \/ TakeFree
        \/ \E b \in Blocks : TakeInUse(b) \/ PutFree(b) \/ PutInUse(b)

Spec == Init /\ [][Next]_vars
===============================================================================
