------------------------------- MODULE SlotHeap -------------------------------
(***************************************************************************)
(* GuardRails.c: the heap proper, called by several threads at once.       *)
(* Memory is divided between slots; a slot has a lock, one pair of lists   *)
(* (free, in use) per bin, and a delayed free list.  malloc, realloc and   *)
(* free (memalignInt, getBuf, replenishBin, putBuf) are sequences of steps *)
(* of the calling thread; a step ends where the code takes or gives back a *)
(* lock, or writes a block's header without one.  getFromPool's section    *)
(* under gMutex is one step, except that the dump of option -a happens     *)
(* inside it.  An assertion of the code is no guard here: AssertionsHold   *)
(* says that none fails.                                                   *)
(*                                                                         *)
(* Abstractions: a free list is a set (which free block getBuf takes does  *)
(* not matter to any property), the delayed list is the sequence that      *)
(* DelayFree.tla refines, memory not carved yet is a set of blocks, and a  *)
(* block's contents are left to its header.                                *)
(***************************************************************************)
EXTENDS Integers, Sequences, FiniteSets, Functions

CONSTANTS
  Threads, NoThread,
  Blocks, NoBlock,
  NumSlots,           \* -s
  BinNums,            \* log2 of the block sizes
  Sizes,              \* the sizes that callers request (usrSize)
  BinOf,              \* the bin that getBuf picks for each size
  MaxFloating,        \* MAX_FLOATING_SIZE
  LowWater, HighWater,\* of each bin
  UseDelay,           \* -d
  MaxDelayElms,       \* MAX_DELAY_ELMS
  DumpInterval,       \* -D
  MaxRequestedBytes,  \* -M
  AbortOnOOM,         \* -a
  AbortOnNull,        \* -A
  RequestBound        \* a bound of the model: no request takes a slot beyond it

Slots == 0 .. NumSlots - 1
MemBins == Slots \X BinNums
NoBin == <<>>

ASSUME HeapAssumption ==
  /\ NoThread \notin Threads /\ NoBlock \notin Blocks
  /\ IsFiniteSet(Blocks)
  /\ NumSlots \in Nat \ {0}
  /\ Sizes \subseteq Nat /\ BinOf \in [Sizes -> BinNums]
  /\ LowWater \in [BinNums -> Nat] /\ HighWater \in [BinNums -> Nat]
  /\ MaxDelayElms \in Nat /\ MaxDelayElms >= 3
  /\ {UseDelay, AbortOnOOM, AbortOnNull} \subseteq BOOLEAN
  /\ {MaxFloating, DumpInterval, MaxRequestedBytes} \subseteq Nat

VARIABLES
  (* the header of each block *)
  home,         \* the bin it was carved for (slotNum, binNum)
  magic,        \* "free", "inuse", or "zero" before it is carved
  usrDataSize,
  (* each bin *)
  headFree, headInUse, numFree, allocs, frees,
  (* each slot *)
  delay, requested, freed, hwm, lastDump, histoAllocs, histoFrees,
  lock,         \* the thread that holds the slot's lock
  (* the process *)
  fresh,        \* memory that the pools can still provide
  gMutex,       \* the thread that holds gMutex across a dump
  live,         \* the blocks in callers' hands
  aborted,
  (* the call each thread is in *)
  pc,
  bin,          \* the bin it works on
  size,         \* the size it requests
  blk,          \* the block it is about to return
  old,          \* the block it frees
  dumpAt,       \* the next slot that onExitHelper visits
  after         \* where it returns to

header == <<home, magic, usrDataSize>>
freeLists == <<headFree, numFree>>
binStats == <<allocs, frees>>
slotStats == <<requested, freed, hwm, lastDump, histoAllocs, histoFrees>>
request == <<bin, size, blk, old>>
dumping == <<dumpAt, after>>
vars == <<header, freeLists, headInUse, binStats, delay, slotStats, lock, fresh,
          gMutex, live, aborted, pc, request, dumping>>

UsrBin(n) == IF n = 0 THEN 0 ELSE CHOOSE k \in 0 .. n : 2 ^ k >= n /\ 2 ^ k < 2 * n
UsrBins == {UsrBin(n) : n \in Sizes}
Histo == Slots \X UsrBins
MaxOf(m, n) == IF m > n THEN m ELSE n

(* The constructor has filled every bin to its high water mark. *)
Init ==
  /\ \E h \in [Blocks -> MemBins \cup {NoBin}] :
       /\ \A i \in MemBins : Cardinality({b \in Blocks : h[b] = i}) = HighWater[i[2]]
       /\ home = h
  /\ magic = [b \in Blocks |-> IF home[b] = NoBin THEN "zero" ELSE "free"]
  /\ usrDataSize = [b \in Blocks |-> 0]
  /\ headFree = [i \in MemBins |-> {b \in Blocks : home[b] = i}]
  /\ numFree = [i \in MemBins |-> HighWater[i[2]]]
  /\ headInUse = [i \in MemBins |-> {}]
  /\ allocs = [i \in MemBins |-> 0] /\ frees = [i \in MemBins |-> 0]
  /\ delay = [s \in Slots |-> <<>>]
  /\ requested = [s \in Slots |-> 0] /\ freed = [s \in Slots |-> 0]
  /\ hwm = [s \in Slots |-> 0] /\ lastDump = [s \in Slots |-> 0]
  /\ histoAllocs = [h \in Histo |-> 0] /\ histoFrees = [h \in Histo |-> 0]
  /\ lock = [s \in Slots |-> NoThread]
  /\ fresh = {b \in Blocks : home[b] = NoBin}
  /\ gMutex = NoThread
  /\ live = {} /\ aborted = FALSE
  /\ pc = [t \in Threads |-> "idle"]
  /\ bin = [t \in Threads |-> NoBin] /\ size = [t \in Threads |-> 0]
  /\ blk = [t \in Threads |-> NoBlock] /\ old = [t \in Threads |-> NoBlock]
  /\ dumpAt = [t \in Threads |-> 0] /\ after = [t \in Threads |-> "idle"]

(***************************************************************************)
(* Calls begin and end.                                                    *)
(***************************************************************************)
SlotOf(t) == bin[t][1]
At(t, label) == ~aborted /\ pc[t] = label
GoTo(t, label) == pc' = [pc EXCEPT ![t] = label]

(* getBuf's choice of a slot: racySlotRr is read and written without a lock*)
(* on purpose, so that any slot may come out for a floating size.          *)
PickSlot(n) == IF n < MaxFloating THEN Slots ELSE {0}

Request(t, n, s) ==
  /\ At(t, "idle")
  /\ requested[s] + n <= RequestBound
  /\ GoTo(t, "lock")
  /\ bin' = [bin EXCEPT ![t] = <<s, BinOf[n]>>]
  /\ size' = [size EXCEPT ![t] = n]

(* malloc, calloc, memalign and posix_memalign. *)
Malloc(t, n) ==
  /\ \E s \in PickSlot(n) : Request(t, n, s)
  /\ UNCHANGED <<header, freeLists, headInUse, binStats, delay, slotStats, lock,
                 fresh, gMutex, live, aborted, blk, old, dumping>>

(* The caller gives b up with the call: only realloc may touch it now. *)
Realloc(t, b, n) ==
  /\ b \in live
  /\ \E s \in PickSlot(n) : Request(t, n, s)
  /\ old' = [old EXCEPT ![t] = b]
  /\ live' = live \ {b}
  /\ UNCHANGED <<header, freeLists, headInUse, binStats, delay, slotStats, lock,
                 fresh, gMutex, aborted, blk, dumping>>

Free(t, b) ==
  /\ At(t, "idle")
  /\ b \in live
  /\ GoTo(t, "mark")
  /\ old' = [old EXCEPT ![t] = b]
  /\ live' = live \ {b}
  /\ UNCHANGED <<header, freeLists, headInUse, binStats, delay, slotStats, lock,
                 fresh, gMutex, aborted, bin, size, blk, dumping>>

(* The destructor or the signal SIGUSR2 runs onExit in a thread that is in *)
(* no other call.                                                          *)
Report(t) ==
  /\ At(t, "idle")
  /\ GoTo(t, "dump")
  /\ dumpAt' = [dumpAt EXCEPT ![t] = 0]
  /\ after' = [after EXCEPT ![t] = "idle"]
  /\ UNCHANGED <<header, freeLists, headInUse, binStats, delay, slotStats, lock,
                 fresh, gMutex, live, aborted, request>>

(* The call returns and its locals are gone; back is what the caller owns. *)
Return(t, back) ==
  /\ GoTo(t, "idle")
  /\ live' = live \cup (back \ {NoBlock})
  /\ bin' = [bin EXCEPT ![t] = NoBin]
  /\ size' = [size EXCEPT ![t] = 0]
  /\ blk' = [blk EXCEPT ![t] = NoBlock]
  /\ old' = [old EXCEPT ![t] = NoBlock]

(***************************************************************************)
(* getBuf, under the slot's lock.                                          *)
(***************************************************************************)
AcquireUnlocked(s, t) == lock' = [lock EXCEPT ![s] = t]           \* a mutant
Acquire(s, t) ==
  /\ lock[s] = NoThread
  /\ lock' = [lock EXCEPT ![s] = t]
Unlock(s) == lock' = [lock EXCEPT ![s] = NoThread]

(* replenishBin's entry test. *)
NeedsBlocks(i) == headFree[i] = {} \/ numFree[i] < LowWater[i[2]]

LockSlot(t) ==
  /\ At(t, "lock")
  /\ Acquire(SlotOf(t), t)
  /\ GoTo(t, IF NeedsBlocks(bin[t]) THEN "carve" ELSE "take")
  /\ UNCHANGED <<header, freeLists, headInUse, binStats, delay, slotStats, fresh,
                 gMutex, live, aborted, request, dumping>>

(* A mutant: replenishBin forgets to count the block. *)
CarveUncounted(t) ==
  /\ At(t, "carve")
  /\ gMutex = NoThread
  /\ \E b \in fresh :
       /\ fresh' = fresh \ {b}
       /\ home' = [home EXCEPT ![b] = bin[t]]
       /\ magic' = [magic EXCEPT ![b] = "free"]
       /\ headFree' = [headFree EXCEPT ![bin[t]] = @ \cup {b}]
  /\ GoTo(t, IF numFree[bin[t]] < HighWater[bin[t][2]] THEN "carve" ELSE "take")
  /\ UNCHANGED <<usrDataSize, numFree, headInUse, binStats, delay, slotStats, lock,
                 gMutex, live, aborted, request, dumping>>

(* One iteration of replenishBin: a block from getFromPool enters the bin. *)
Carve(t) ==
  /\ At(t, "carve")
  /\ gMutex = NoThread
  /\ \E b \in fresh :
       /\ fresh' = fresh \ {b}
       /\ home' = [home EXCEPT ![b] = bin[t]]
       /\ magic' = [magic EXCEPT ![b] = "free"]
       /\ headFree' = [headFree EXCEPT ![bin[t]] = @ \cup {b}]
  /\ numFree' = [numFree EXCEPT ![bin[t]] = @ + 1]
  /\ GoTo(t, IF numFree[bin[t]] + 1 < HighWater[bin[t][2]] THEN "carve" ELSE "take")
  /\ UNCHANGED <<usrDataSize, headInUse, binStats, delay, slotStats, lock, gMutex,
                 live, aborted, request, dumping>>

(* A mutant: realloc frees its block and still returns NULL. *)
CarveFailsAndFrees(t) ==
  /\ At(t, "carve")
  /\ gMutex = NoThread
  /\ Unlock(SlotOf(t))
  /\ IF old[t] = NoBlock
     THEN Return(t, {})
     ELSE GoTo(t, "mark") /\ live' = live \cup {old[t]} /\ UNCHANGED request
  /\ UNCHANGED <<header, freeLists, headInUse, binStats, delay, slotStats, fresh,
                 gMutex, aborted, dumping>>

(* mmap fails, which it may for this block and not for a later, smaller    *)
(* one: the call returns NULL, even if an earlier iteration added a block, *)
(* and realloc leaves its block with the caller.  With -A a NULL aborts.   *)
CarveFails(t) ==
  /\ At(t, "carve")
  /\ gMutex = NoThread
  /\ Unlock(SlotOf(t))
  /\ aborted' = (AbortOnNull /\ size[t] > 0)
  /\ Return(t, {old[t]})
  /\ UNCHANGED <<header, freeLists, headInUse, binStats, delay, slotStats, fresh,
                 gMutex, dumping>>

(* mmap fails with -a, for a pool below the limit of the address space: a  *)
(* dump and abort() follow, under the slot's lock and gMutex.              *)
CarveAborts(t) ==
  /\ At(t, "carve")
  /\ gMutex = NoThread
  /\ AbortOnOOM
  /\ gMutex' = t
  /\ GoTo(t, "dump")
  /\ dumpAt' = [dumpAt EXCEPT ![t] = 0]
  /\ after' = [after EXCEPT ![t] = "abort"]
  /\ UNCHANGED <<header, freeLists, headInUse, binStats, delay, slotStats, lock,
                 fresh, live, aborted, request>>

(* The bytes a slot has handed out and not got back, and their maximum. *)
Account(s, n) ==
  /\ requested' = [requested EXCEPT ![s] = @ + n]
  /\ hwm' = [hwm EXCEPT ![s] = MaxOf(@, requested[s] + n - freed[s])]
  /\ histoAllocs' = [histoAllocs EXCEPT ![<<s, UsrBin(n)>>] = @ + 1]

MustDump(s) == hwm'[s] > lastDump[s] + DumpInterval

(* A mutant: the block stays on the free list. *)
TakeKept(t) ==
  /\ At(t, "take")
  /\ \E b \in headFree[bin[t]] :
       /\ headInUse' = [headInUse EXCEPT ![bin[t]] = @ \cup {b}]
       /\ blk' = [blk EXCEPT ![t] = b]
  /\ numFree' = [numFree EXCEPT ![bin[t]] = @ - 1]
  /\ allocs' = [allocs EXCEPT ![bin[t]] = @ + 1]
  /\ Account(SlotOf(t), size[t])
  /\ GoTo(t, "check")
  /\ UNCHANGED <<header, headFree, frees, delay, freed, lastDump, histoFrees,
                 lock, fresh, gMutex, live, aborted, bin, size, old, dumping>>

Take(t) ==
  /\ At(t, "take")
  /\ \E b \in headFree[bin[t]] :
       /\ headFree' = [headFree EXCEPT ![bin[t]] = @ \ {b}]
       /\ headInUse' = [headInUse EXCEPT ![bin[t]] = @ \cup {b}]
       /\ blk' = [blk EXCEPT ![t] = b]
  /\ numFree' = [numFree EXCEPT ![bin[t]] = @ - 1]
  /\ allocs' = [allocs EXCEPT ![bin[t]] = @ + 1]
  /\ Account(SlotOf(t), size[t])
  /\ IF MustDump(SlotOf(t))
     THEN /\ lastDump' = [lastDump EXCEPT ![SlotOf(t)] = hwm'[SlotOf(t)]]
          /\ GoTo(t, "dump")
          /\ dumpAt' = [dumpAt EXCEPT ![t] = 0]
          /\ after' = [after EXCEPT ![t] = "check"]
     ELSE GoTo(t, "check") /\ UNCHANGED <<lastDump, dumping>>
  /\ UNCHANGED <<header, frees, delay, freed, histoFrees, lock, fresh, gMutex,
                 live, aborted, bin, size, old>>

(* -M, and the end of the section under the lock. *)
Check(t) ==
  /\ At(t, "check")
  /\ IF requested[SlotOf(t)] > MaxRequestedBytes
     THEN /\ GoTo(t, "dump")
          /\ dumpAt' = [dumpAt EXCEPT ![t] = 0]
          /\ after' = [after EXCEPT ![t] = "abort"]
          /\ UNCHANGED lock
     ELSE /\ GoTo(t, "publish")
          /\ Unlock(SlotOf(t))
          /\ UNCHANGED dumping
  /\ UNCHANGED <<header, freeLists, headInUse, binStats, delay, slotStats, fresh,
                 gMutex, live, aborted, request>>

(* A mutant: the size is not written. *)
PublishUnsized(t) ==
  /\ At(t, "publish")
  /\ magic' = [magic EXCEPT ![blk[t]] = "inuse"]
  /\ IF old[t] = NoBlock
     THEN Return(t, {blk[t]})
     ELSE GoTo(t, "mark") /\ UNCHANGED <<live, request>>
  /\ UNCHANGED <<home, usrDataSize, freeLists, headInUse, binStats, delay,
                 slotStats, lock, fresh, gMutex, aborted, dumping>>

(* A mutant: a block that is used again keeps the size of its first use. *)
PublishStale(t) ==
  /\ At(t, "publish")
  /\ magic' = [magic EXCEPT ![blk[t]] = "inuse"]
  /\ usrDataSize' = [usrDataSize EXCEPT ![blk[t]] = IF @ = 0 THEN size[t] ELSE @]
  /\ IF old[t] = NoBlock
     THEN Return(t, {blk[t]})
     ELSE GoTo(t, "mark") /\ UNCHANGED <<live, request>>
  /\ UNCHANGED <<home, freeLists, headInUse, binStats, delay, slotStats, lock,
                 fresh, gMutex, aborted, dumping>>

(* memalignInt fills the header in after getBuf has released the lock.     *)
(* realloc then frees its block, the other calls return.                   *)
Publish(t) ==
  /\ At(t, "publish")
  /\ magic' = [magic EXCEPT ![blk[t]] = "inuse"]
  /\ usrDataSize' = [usrDataSize EXCEPT ![blk[t]] = size[t]]
  /\ IF old[t] = NoBlock
     THEN Return(t, {blk[t]})
     ELSE GoTo(t, "mark") /\ UNCHANGED <<live, request>>
  /\ UNCHANGED <<home, freeLists, headInUse, binStats, delay, slotStats, lock,
                 fresh, gMutex, aborted, dumping>>

(***************************************************************************)
(* free: putBuf, and delayPut of DelayFree.c.                              *)
(***************************************************************************)
(* The magic is changed before the lock is taken. *)
Mark(t) ==
  /\ At(t, "mark")
  /\ magic' = [magic EXCEPT ![old[t]] = "free"]
  /\ bin' = [bin EXCEPT ![t] = home[old[t]]]
  /\ GoTo(t, "lockFree")
  /\ UNCHANGED <<home, usrDataSize, freeLists, headInUse, binStats, delay,
                 slotStats, lock, fresh, gMutex, live, aborted, size, blk, old,
                 dumping>>

LockFree(t) ==
  /\ At(t, "lockFree")
  /\ Acquire(SlotOf(t), t)
  /\ GoTo(t, "put")
  /\ UNCHANGED <<header, freeLists, headInUse, binStats, delay, slotStats, fresh,
                 gMutex, live, aborted, request, dumping>>

(* The block leaves the list of blocks in use, and its bytes are freed. *)
Discount(s, b) ==
  /\ freed' = [freed EXCEPT ![s] = @ + usrDataSize[b]]
  /\ histoFrees' = [histoFrees EXCEPT ![<<s, UsrBin(usrDataSize[b])>>] = @ + 1]
  /\ UNCHANGED <<requested, hwm, lastDump, histoAllocs>>

ToFreeUncounted(b) ==                                             \* a mutant
  /\ headFree' = [headFree EXCEPT ![home[b]] = @ \cup {b}]
  /\ UNCHANGED numFree

ToFree(b) ==
  /\ headFree' = [headFree EXCEPT ![home[b]] = @ \cup {b}]
  /\ numFree' = [numFree EXCEPT ![home[b]] = @ + 1]

(* Without -d the block is free at once. *)
PutFree(t) ==
  /\ At(t, "put") /\ ~UseDelay
  /\ Discount(SlotOf(t), old[t])
  /\ headInUse' = [headInUse EXCEPT ![bin[t]] = @ \ {old[t]}]
  /\ ToFree(old[t])
  /\ frees' = [frees EXCEPT ![bin[t]] = @ + 1]
  /\ Unlock(SlotOf(t))
  /\ Return(t, {blk[t]})
  /\ UNCHANGED <<header, allocs, delay, fresh, gMutex, aborted, dumping>>

(* With -d delayPut decides whether the list needs a batch. *)
PutDelay(t) ==
  /\ At(t, "put") /\ UseDelay
  /\ Discount(SlotOf(t), old[t])
  /\ headInUse' = [headInUse EXCEPT ![bin[t]] = @ \ {old[t]}]
  /\ GoTo(t, IF Len(delay[SlotOf(t)]) > MaxDelayElms \div 2
             THEN "batch" ELSE "delay")
  /\ UNCHANGED <<header, freeLists, binStats, delay, lock, fresh, gMutex, live,
                 aborted, request, dumping>>

(* A mutant: the batch drains the list. *)
BatchUntilEmpty(t) ==
  /\ At(t, "batch")
  /\ IF Len(delay[SlotOf(t)]) > 0
     THEN /\ ToFree(Head(delay[SlotOf(t)]))
          /\ delay' = [delay EXCEPT ![SlotOf(t)] = Tail(@)]
          /\ UNCHANGED pc
     ELSE GoTo(t, "delay") /\ UNCHANGED <<freeLists, delay>>
  /\ UNCHANGED <<header, headInUse, binStats, slotStats, lock, fresh, gMutex,
                 live, aborted, request, dumping>>

(* One iteration of delayFreeBatch, or the end of its loop. *)
Batch(t) ==
  /\ At(t, "batch")
  /\ IF Len(delay[SlotOf(t)]) > MaxDelayElms \div 4
     THEN /\ ToFree(Head(delay[SlotOf(t)]))
          /\ delay' = [delay EXCEPT ![SlotOf(t)] = Tail(@)]
          /\ UNCHANGED pc
     ELSE GoTo(t, "delay") /\ UNCHANGED <<freeLists, delay>>
  /\ UNCHANGED <<header, headInUse, binStats, slotStats, lock, fresh, gMutex,
                 live, aborted, request, dumping>>

(* circPut, and the rest of putBuf. *)
Delay(t) ==
  /\ At(t, "delay")
  /\ delay' = [delay EXCEPT ![SlotOf(t)] = Append(@, old[t])]
  /\ frees' = [frees EXCEPT ![bin[t]] = @ + 1]
  /\ Unlock(SlotOf(t))
  /\ Return(t, {blk[t]})
  /\ UNCHANGED <<header, freeLists, headInUse, allocs, slotStats, fresh, gMutex,
                 aborted, dumping>>

(***************************************************************************)
(* onExitHelper: each slot's lock is taken and given back in turn; the     *)
(* locks are recursive, so a thread passes the one it holds.               *)
(***************************************************************************)
DumpSlotNotRecursive(t) ==                                        \* a mutant
  /\ At(t, "dump")
  /\ dumpAt[t] < NumSlots
  /\ lock[dumpAt[t]] = NoThread
  /\ dumpAt' = [dumpAt EXCEPT ![t] = @ + 1]
  /\ UNCHANGED <<header, freeLists, headInUse, binStats, delay, slotStats, lock,
                 fresh, gMutex, live, aborted, pc, request, after>>

DumpSlot(t) ==
  /\ At(t, "dump")
  /\ dumpAt[t] < NumSlots
  /\ lock[dumpAt[t]] \in {NoThread, t}
  /\ dumpAt' = [dumpAt EXCEPT ![t] = @ + 1]
  /\ UNCHANGED <<header, freeLists, headInUse, binStats, delay, slotStats, lock,
                 fresh, gMutex, live, aborted, pc, request, after>>

DumpDone(t) ==
  /\ At(t, "dump")
  /\ dumpAt[t] = NumSlots
  /\ IF after[t] = "abort"
     THEN aborted' = TRUE /\ UNCHANGED <<pc, dumping>>
     ELSE /\ GoTo(t, after[t])
          /\ dumpAt' = [dumpAt EXCEPT ![t] = 0]
          /\ after' = [after EXCEPT ![t] = "idle"]
          /\ UNCHANGED aborted
  /\ UNCHANGED <<header, freeLists, headInUse, binStats, delay, slotStats, lock,
                 fresh, gMutex, live, request>>

Call(t) == \/ \E n \in Sizes : Malloc(t, n) \/ \E b \in live : Realloc(t, b, n)
           \/ \E b \in live : Free(t, b)
           \/ Report(t)

Step(t) == \/ LockSlot(t) \/ Carve(t) \/ CarveFails(t) \/ CarveAborts(t)
           \/ Take(t) \/ Check(t) \/ Publish(t)
           \/ Mark(t) \/ LockFree(t) \/ PutFree(t) \/ PutDelay(t) \/ Batch(t)
           \/ Delay(t) \/ DumpSlot(t) \/ DumpDone(t)

(* The process is gone after abort(). *)
Gone == aborted /\ UNCHANGED vars

Next == \/ \E t \in Threads : Call(t) \/ Step(t)
        \/ Gone

Spec == Init /\ [][Next]_vars

(* A thread that has been called and is not blocked gets to run. *)
Fairness == \A t \in Threads : WF_vars(Step(t))
FairSpec == Spec /\ Fairness

(***************************************************************************)
(* Where a block is and who owns it.                                       *)
(***************************************************************************)
Delayed(s) == {delay[s][k] : k \in 1 .. Len(delay[s])}
InHand(t) == IF pc[t] \in {"batch", "delay"} THEN {old[t]} ELSE {}

Kinds(b) ==
  {k \in {"fresh", "free", "inuse", "delayed", "inhand"} :
     \/ k = "fresh" /\ b \in fresh
     \/ k = "free" /\ \E i \in MemBins : b \in headFree[i]
     \/ k = "inuse" /\ \E i \in MemBins : b \in headInUse[i]
     \/ k = "delayed" /\ \E s \in Slots : b \in Delayed(s)
     \/ k = "inhand" /\ \E t \in Threads : b \in InHand(t)}

(* The caller (NoThread) or the threads whose call works on b. *)
Owners(b) == {NoThread : l \in {b} \cap live}
             \cup {t \in Threads : blk[t] = b \/ old[t] = b}

(* Where t holds the lock of the slot it works on. *)
Holds(t) == \/ pc[t] \in {"carve", "take", "check", "put", "batch", "delay"}
            \/ pc[t] = "dump" /\ after[t] # "idle"

(* The size a block in use was allocated with, even before Publish. *)
AllocSize(b) ==
  LET Allocating == {t \in Threads : blk[t] = b /\ pc[t] \in {"dump", "check", "publish"}}
  IN  IF Allocating = {} THEN usrDataSize[b] ELSE size[CHOOSE t \in Allocating : TRUE]
InUseOf(s) == UNION {headInUse[<<s, n>>] : n \in BinNums}

(***************************************************************************)
(* Properties.                                                             *)
(***************************************************************************)
Labels == {"idle", "lock", "carve", "take", "dump", "check", "publish",
           "mark", "lockFree", "put", "batch", "delay"}

(* Every variable keeps its type.  The counters are unsigned in the code:  *)
(* numFree, which goes up in replenishBin and in a batch and down in       *)
(* getBuf, never goes below zero.                                          *)
TypeOK ==
  /\ home \in [Blocks -> MemBins \cup {NoBin}]
  /\ magic \in [Blocks -> {"zero", "free", "inuse"}]
  /\ usrDataSize \in [Blocks -> Nat]
  /\ headFree \in [MemBins -> SUBSET Blocks] /\ headInUse \in [MemBins -> SUBSET Blocks]
  /\ numFree \in [MemBins -> Nat]
  /\ allocs \in [MemBins -> Nat] /\ frees \in [MemBins -> Nat]
  /\ delay \in [Slots -> Seq(Blocks)]
  /\ requested \in [Slots -> Nat] /\ freed \in [Slots -> Nat]
  /\ hwm \in [Slots -> Nat] /\ lastDump \in [Slots -> Nat]
  /\ histoAllocs \in [Histo -> Nat] /\ histoFrees \in [Histo -> Nat]
  /\ lock \in [Slots -> Threads \cup {NoThread}]
  /\ fresh \subseteq Blocks /\ live \subseteq Blocks
  /\ gMutex \in Threads \cup {NoThread} /\ aborted \in BOOLEAN
  /\ pc \in [Threads -> Labels]
  /\ bin \in [Threads -> MemBins \cup {NoBin}] /\ size \in [Threads -> Nat]
  /\ blk \in [Threads -> Blocks \cup {NoBlock}]
  /\ old \in [Threads -> Blocks \cup {NoBlock}]
  /\ dumpAt \in [Threads -> 0 .. NumSlots]
  /\ after \in [Threads -> {"idle", "check", "abort"}]

(* No memory is lost or doubled: at any moment a block is in exactly one   *)
(* place, and on no list but those of the bin whose number its header      *)
(* holds, where free() looks for it.                                       *)
OnePlace ==
  /\ \A b \in Blocks : \E k \in Kinds(b) : Kinds(b) = {k}
  /\ \A i \in MemBins : \A b \in headFree[i] \cup headInUse[i] : home[b] = i
  /\ \A s \in Slots : \A b \in Delayed(s) : home[b][1] = s

(* malloc never returns memory that somebody owns: a block in use has one  *)
(* owner, the caller or one call in progress, and any other block none.    *)
Exclusive ==
  \A b \in Blocks :
    /\ \A x, y \in Owners(b) : x = y
    /\ Owners(b) # {} <=> Kinds(b) \subseteq {"inuse", "inhand"}
    /\ \A t \in Threads : blk[t] = b => old[t] # b

(* No assertion of getBuf, memalignInt, putBuf or free fails, and getBuf   *)
(* never follows a null headFree: the magic checks are made without the    *)
(* lock, after other threads may have had the slot.                        *)
AssertionsHold ==
  /\ \A b \in live : magic[b] = "inuse"
  /\ \A t \in Threads :
       /\ pc[t] = "take" => headFree[bin[t]] # {}
       /\ pc[t] = "publish" => magic[blk[t]] = "free"
       /\ pc[t] = "mark" => magic[old[t]] = "inuse"
       /\ Holds(t) => lock[SlotOf(t)] = t

(* The bins' counters are what the lists hold: replenishBin decides by     *)
(* numFree, and the report prints allocs - frees as the leaked blocks.     *)
BinCounters ==
  \A i \in MemBins :
    /\ numFree[i] = Cardinality(headFree[i])
    /\ allocs[i] - frees[i] = Cardinality(headInUse[i])
                              + Cardinality({t \in Threads : InHand(t) # {} /\ bin[t] = i})

(* A slot's leaked bytes (requested - freed) and its histogram describe    *)
(* the blocks in use, although the size is added before the header holds   *)
(* it and subtracted from the header; the high water mark covers them.     *)
SlotCounters ==
  \A s \in Slots :
    /\ requested[s] - freed[s] = SumFunctionOnSet([b \in Blocks |-> AllocSize(b)], InUseOf(s))
    /\ hwm[s] >= requested[s] - freed[s]
    /\ \A n \in UsrBins :
         histoAllocs[<<s, n>>] - histoFrees[<<s, n>>]
           = Cardinality({b \in InUseOf(s) : UsrBin(AllocSize(b)) = n})

(* The heap writes no header of a block that its caller keeps. *)
HeaderUntouched ==
  [][\A b \in live \cap live' :
       home'[b] = home[b] /\ magic'[b] = magic[b] /\ usrDataSize'[b] = usrDataSize[b]]_vars

(* Each slot's delayed list is the quarantine that DelayQueue describes,   *)
(* whatever the threads and the other slots do.                            *)
Quarantine(s) == INSTANCE DelayQueue WITH
  Hold <- MaxDelayElms \div 4,
  Capacity <- MaxDelayElms \div 2 + 1,
  held <- delay[s],
  available <- Blocks \ (Delayed(s) \cup InUseOf(s)
                         \cup UNION {InHand(t) : t \in {u \in Threads : bin[u] # NoBin /\ SlotOf(u) = s}})
EverySlotQuarantines ==
  /\ \A s \in Slots : Quarantine(s)!Init
  /\ [][\A s \in Slots : Quarantine(s)!Next \/ UNCHANGED <<delay[s], Quarantine(s)!vars>>]_vars

(* Once callers stop calling, every call in progress returns: no thread is *)
(* left waiting for a slot's lock or for gMutex.                           *)
NewCall == \E t \in Threads : pc[t] = "idle" /\ pc'[t] # "idle"
CallsReturn == <>[][~NewCall]_vars => <>[](aborted \/ \A t \in Threads : pc[t] = "idle")

(***************************************************************************)
(* What the documents say and the code does not do.                        *)
(***************************************************************************)
(* README.md, -D: "Dump state every time memory high water mark increases  *)
(* by this interval": a dump that begins is written to its end.            *)
DumpEnds ==
  \A t \in Threads : pc[t] = "dump" ~> (pc[t] # "dump" \/ aborted)
===============================================================================
