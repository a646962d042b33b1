------------------------------ MODULE DelayQueue ------------------------------
(***************************************************************************)
(* What the delayed free list promises, whatever holds it: freed blocks    *)
(* wait in the order they were freed, the oldest one becomes available     *)
(* again only while at least Hold younger ones keep waiting, and no more   *)
(* than Capacity blocks ever wait.                                         *)
(***************************************************************************)
EXTENDS Naturals, Sequences

CONSTANTS
  Blocks,     \* the memory blocks of one slot
  Hold,       \* how many younger blocks a released one leaves behind
  Capacity    \* the most blocks that may wait

VARIABLES
  held,       \* the waiting blocks, oldest first
  available   \* the blocks the allocator may hand out

vars == <<held, available>>

Waiting == {held[i] : i \in 1 .. Len(held)}

Init == held = <<>> /\ available = Blocks

(* The allocator hands a block to the client. *)
Reuse(b) ==
  /\ b \in available
  /\ available' = available \ {b}
  /\ UNCHANGED held

(* The client has freed a block: it waits behind the others. *)
Quarantine(b) ==
  /\ b \in Blocks \ (available \cup Waiting)
  /\ Len(held) < Capacity
  /\ held' = Append(held, b)
  /\ UNCHANGED available

(* The block that has waited longest becomes available again. *)
Release ==
  /\ Len(held) > Hold
  /\ available' = available \cup {Head(held)}
  /\ held' = Tail(held)

Next == \/ \E b \in Blocks : Reuse(b) \/ Quarantine(b)
        \/ Release

Spec == Init /\ [][Next]_vars
===============================================================================
