------------------------------- MODULE DelayFree ------------------------------
(***************************************************************************)
(* DelayFree.c: the delayed free list of one slot, a ring of               *)
(* MAX_DELAY_ELMS pointers.  Every step below runs under the slot's lock   *)
(* (delayPut asserts it), so the list is a sequential component: getBuf    *)
(* takes a block from a bin, and free, through putBuf, calls delayPut,     *)
(* whose loop over delayFreeBatch is one step per iteration.  An assertion *)
(* of the code is a guard here: where it fails abort() ends the process,   *)
(* and AssertionsHold says that this never happens.                        *)
(*                                                                         *)
(* A block's bytes are abstracted to two pages, 0 for the page of its      *)
(* header and 1 for all the others, which only a block above PAGE_SIZE     *)
(* has.  The links of the free lists are left out (a bin is a set).        *)
(***************************************************************************)
EXTENDS Integers, Sequences, FiniteSets, FiniteSetsExt

CONSTANTS
  MaxDelayElms,   \* MAX_DELAY_ELMS, the size of the ring
  Blocks,         \* the blocks carved for this slot
  NoBlock,        \* the null pointer
  BinNum,         \* the bin of each block: it spans 2^BinNum[b] bytes
  PageBin         \* log2 of PAGE_SIZE

ASSUME DelayAssumption ==
  /\ MaxDelayElms \in Nat /\ MaxDelayElms >= 3
  /\ IsFiniteSet(Blocks) /\ NoBlock \notin Blocks
  /\ PageBin \in Nat
  /\ BinNum \in [Blocks -> {n \in Nat : n >= PageBin}]

VARIABLES
  head,           \* where the next block goes
  tail,           \* the oldest block
  numDelayed,     \* how many blocks wait
  bytesDelayed,   \* how many bytes they span
  elms,           \* the ring itself
  headFree,       \* the free list of each bin, as a set
  numFree,        \* its length as the code counts it
  noAccess,       \* the pages of each block that are mapped PROT_NONE
  pc,             \* where delayPut is: "idle" (not called), "batch" or "put"
  hdr             \* the block delayPut was called with

vars == <<head, tail, numDelayed, bytesDelayed, elms, headFree, numFree,
          noAccess, pc, hdr>>
ring == <<head, tail, numDelayed, bytesDelayed, elms>>

Index == 0 .. MaxDelayElms - 1
Bins == {BinNum[b] : b \in Blocks}
ElmSize(b) == 2 ^ BinNum[b]

(* The provers know no more of a power of two than that it is an integer. *)
ASSUME PowersAssumption == \A b \in Blocks : ElmSize(b) \in Nat

ElmPages(b) == IF BinNum[b] > PageBin THEN {0, 1} ELSE {0}

(***************************************************************************)
(* The ring.                                                               *)
(***************************************************************************)
NextIndex(i) == (i + 1) % MaxDelayElms

circEmpty == head = tail
circFull == NextIndex(head) = tail

(* circCount's own count and what it asserts about it. *)
Span == IF head > tail THEN head - tail ELSE MaxDelayElms - (tail - head)
CountAsserted == circEmpty \/ Span = numDelayed
circCount == IF circEmpty THEN 0 ELSE numDelayed

(* A mutant: the bytes of the block are not added. *)
circPutUncounted(b) ==
  /\ ~circFull
  /\ elms' = [elms EXCEPT ![head] = b]
  /\ head' = NextIndex(head)
  /\ numDelayed' = numDelayed + 1
  /\ UNCHANGED <<tail, bytesDelayed>>

circPut(b) ==
  /\ ~circFull
  /\ elms' = [elms EXCEPT ![head] = b]
  /\ head' = NextIndex(head)
  /\ numDelayed' = numDelayed + 1
  /\ bytesDelayed' = bytesDelayed + ElmSize(b)
  /\ UNCHANGED tail

(* A mutant: the bytes of the block are not given back. *)
circGetKeepsBytes ==
  /\ ~circEmpty
  /\ tail' = NextIndex(tail)
  /\ numDelayed' = numDelayed - 1
  /\ UNCHANGED <<head, elms, bytesDelayed>>

(* The caller reads the block from elms[tail] and unprotects it. *)
circGet ==
  /\ ~circEmpty
  /\ numDelayed > 0
  /\ tail' = NextIndex(tail)
  /\ numDelayed' = numDelayed - 1
  /\ bytesDelayed' = bytesDelayed - ElmSize(elms[tail])
  /\ UNCHANGED <<head, elms>>

(***************************************************************************)
(* Where a block is.  The ring keeps stale pointers outside tail..head.    *)
(***************************************************************************)
Wrap(i) == IF i < MaxDelayElms THEN i ELSE i - MaxDelayElms
Length == IF head >= tail THEN head - tail ELSE MaxDelayElms - (tail - head)
Held == [i \in 1 .. Length |-> elms[Wrap(tail + i - 1)]]
Delayed == {elms[Wrap(tail + i)] : i \in 0 .. Length - 1}
Available == UNION {headFree[n] : n \in Bins}
InUse == Blocks \ (Delayed \cup Available)

Init ==
  /\ head = 0 /\ tail = 0
  /\ numDelayed = 0 /\ bytesDelayed = 0
  /\ elms = [i \in Index |-> NoBlock]
  /\ headFree = [n \in Bins |-> {b \in Blocks : BinNum[b] = n}]
  /\ numFree = [n \in Bins |-> Cardinality({b \in Blocks : BinNum[b] = n})]
  /\ noAccess = [b \in Blocks |-> {}]
  /\ pc = "idle" /\ hdr = NoBlock

(* getBuf takes a block off the free list of a bin. *)
Alloc(b) ==
  /\ pc = "idle"
  /\ b \in headFree[BinNum[b]]
  /\ headFree' = [headFree EXCEPT ![BinNum[b]] = @ \ {b}]
  /\ numFree' = [numFree EXCEPT ![BinNum[b]] = @ - 1]
  /\ UNCHANGED <<ring, noAccess, pc, hdr>>

(* delayPut starts a batch when more than half of the ring is waiting. *)
BatchNeededWhenFull == circCount > MaxDelayElms                  \* a mutant
BatchNeeded == circCount > MaxDelayElms \div 2

DelayPut(b) ==
  /\ pc = "idle"
  /\ b \in InUse
  /\ CountAsserted
  /\ hdr' = b
  /\ pc' = IF BatchNeeded THEN "batch" ELSE "put"
  /\ UNCHANGED <<ring, headFree, numFree, noAccess>>

BatchGoesOnUntilEmpty == circCount > 0                           \* a mutant
BatchGoesOn == circCount > MaxDelayElms \div 4

(* circGet opens the header page of the block, delayFreeBatch the others. *)
OpenedPagesLate(b) == {0} \cup (IF BinNum[b] > PageBin + 1 THEN {1} ELSE {})
OpenedPages(b) == {0} \cup (IF BinNum[b] > PageBin THEN {1} ELSE {})

(* A mutant: the block returns to its bin and is not counted. *)
ToBinUncounted(b) ==
  /\ headFree' = [headFree EXCEPT ![BinNum[b]] = @ \cup {b}]
  /\ UNCHANGED numFree

ToBin(b) ==
  /\ headFree' = [headFree EXCEPT ![BinNum[b]] = @ \cup {b}]
  /\ numFree' = [numFree EXCEPT ![BinNum[b]] = @ + 1]

(* One iteration of delayFreeBatch. *)
delayFreeBatch ==
  /\ pc = "batch"
  /\ CountAsserted
  /\ BatchGoesOn
  /\ circGet
  /\ LET b == elms[tail]
     IN  /\ noAccess' = [noAccess EXCEPT ![b] = @ \ OpenedPages(b)]
         /\ ToBin(b)
  /\ UNCHANGED <<pc, hdr>>

EndBatch ==
  /\ pc = "batch"
  /\ CountAsserted
  /\ ~BatchGoesOn
  /\ pc' = "put"
  /\ UNCHANGED <<ring, headFree, numFree, noAccess, hdr>>

(* The block joins the ring and all its pages become inaccessible. *)
Put ==
  /\ pc = "put"
  /\ circPut(hdr)
  /\ noAccess' = [noAccess EXCEPT ![hdr] = ElmPages(hdr)]
  /\ pc' = "idle"
  /\ hdr' = NoBlock
  /\ UNCHANGED <<headFree, numFree>>

Next == \/ \E b \in Blocks : Alloc(b) \/ DelayPut(b)
        \/ delayFreeBatch
        \/ EndBatch
        \/ Put

Spec == Init /\ [][Next]_vars

(***************************************************************************)
(* Properties.                                                             *)
(***************************************************************************)
(* Every variable keeps its type.  The counters are unsigned in the code:  *)
(* none of them ever goes below zero, however a batch's circGet and        *)
(* getBuf's takings are mixed with the puts that they undo.                *)
TypeOK ==
  /\ head \in Index /\ tail \in Index
  /\ numDelayed \in Nat /\ bytesDelayed \in Nat
  /\ elms \in [Index -> Blocks \cup {NoBlock}]
  /\ headFree \in [Bins -> SUBSET Blocks]
  /\ numFree \in [Bins -> Nat]
  /\ noAccess \in [Blocks -> SUBSET {0, 1}]
  /\ pc \in {"idle", "batch", "put"}
  /\ hdr \in Blocks \cup {NoBlock}

(* No assertion of DelayFree.c fails: circCount's count of the ring agrees *)
(* with numDelayed whenever it is taken, circGet never finds the ring      *)
(* empty and circPut never finds it full, because delayPut drains it at    *)
(* half its size.                                                          *)
AssertionsHold ==
  /\ pc \in {"idle", "batch"} => CountAsserted
  /\ (pc = "batch" /\ BatchGoesOn) => ~circEmpty /\ numDelayed > 0
  /\ pc = "put" => ~circFull

(* A block is inaccessible exactly while it waits in the ring: no page of  *)
(* a delayed block can be touched without a fault (use-after-free), and a  *)
(* block that left the ring is usable to its last page, be it in a bin or  *)
(* in the client's hands.                                                  *)
Protection ==
  \A b \in Blocks : noAccess[b] = IF b \in Delayed THEN ElmPages(b) ELSE {}

(* bytesDelayed is the memory the ring really holds, over any sequence of  *)
(* puts and batches of blocks of several sizes.                            *)
BytesExact ==
  bytesDelayed = SumFunctionOnSet([b \in Blocks |-> ElmSize(b)], Delayed)

(* A block returns to the bin it came from, is in it once, and the bin's   *)
(* count is the length of its list: replenishBin decides by that count.    *)
BinsExact ==
  \A n \in Bins : /\ \A b \in headFree[n] : BinNum[b] = n /\ b \notin Delayed
                  /\ numFree[n] = Cardinality(headFree[n])

(* The ring implements the abstract queue: first freed first recycled, a   *)
(* block is recycled only while at least a quarter of the ring, all freed  *)
(* after it, keeps waiting, and at most half the ring and one block wait.  *)
Queue == INSTANCE DelayQueue WITH
           Hold <- MaxDelayElms \div 4,
           Capacity <- MaxDelayElms \div 2 + 1,
           held <- Held,
           available <- Available
ImplementsQueue == Queue!Spec
===============================================================================
