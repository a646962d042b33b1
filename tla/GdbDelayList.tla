----------------------------- MODULE GdbDelayList -----------------------------
(***************************************************************************)
(* grgdb.py, gr-find-delay-list: the search of a slot's delayed free list  *)
(* in a stopped process.  It reads the ring of DelayFree and changes       *)
(* nothing, so that its result is a function of the ring's state.          *)
(***************************************************************************)
EXTENDS DelayFree

delayListCount == IF head > tail THEN head - tail ELSE MaxDelayElms - (tail - head)

(* The search walks back from head, with as many steps as blocks wait. *)
Cursor(ct) == (head - ct) % MaxDelayElms

(* A null entry cannot be dereferenced, and the line that reports another  *)
(* magic than MAGIC_FREE formats a string as a number: at either the       *)
(* command ends with an error.  Between two calls the magic of a block in  *)
(* use is MAGIC_INUSE and that of any other is MAGIC_FREE.                 *)
Readable(b) == b # NoBlock /\ b \notin InUse

Examined == {elms[Cursor(ct)] : ct \in
               {n \in 0 .. delayListCount - 1 :
                  \A m \in 0 .. n : Readable(elms[Cursor(m)])}}

(* "Search Guard Rails delayed free list for a given address": between two *)
(* calls the search comes to every block that waits.                       *)
FindsDelayed == pc = "idle" => Delayed \subseteq Examined
===============================================================================
