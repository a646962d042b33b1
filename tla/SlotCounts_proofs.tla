--------------------------- MODULE SlotCounts_proofs ---------------------------
(***************************************************************************)
(* The counters of the heap: what getBuf, putBuf and the delayed list add  *)
(* to and take from them is what the lists hold; and, at the end, that the *)
(* delayed list of each slot is a quarantine.                              *)
(***************************************************************************)
EXTENDS SlotHeap_proofs, Sums

(***************************************************************************)
(* The counters of a bin.                                                  *)
(***************************************************************************)
HandsOf(i) == {t \in Threads : InHand(t) # {} /\ bin[t] = i}
BinCount(i) ==
  /\ numFree[i] = Cardinality(headFree[i])
  /\ allocs[i] - frees[i] = Cardinality(headInUse[i]) + Cardinality(HandsOf(i))

LEMMA InHandMeans == \A t : InHand(t) # {} <=> pc[t] \in InHandPc
BY DEF InHand, InHandPc

(* Only the thread that holds a bin's slot has a block of it in hand. *)
LEMMA HandsAlone ==
  ASSUME LockInv, NEW t \in Threads, Holds(t)
  PROVE  HandsOf(bin[t]) \subseteq {t}
<1> SUFFICES ASSUME NEW u \in HandsOf(bin[t]) PROVE u = t
  OBVIOUS
<1>1. u \in Threads /\ pc[u] \in InHandPc /\ bin[u] = bin[t]
  BY InHandMeans DEF HandsOf
<1>2. Holds(u) /\ SlotOf(u) = SlotOf(t)
  BY <1>1 DEF Holds, InHandPc, SlotOf
<1>3. QED
  BY <1>1, <1>2, Alone

(* The bin lists are finite, and so is what adding or taking one does. *)
LEMMA CardAdd ==
  ASSUME NEW S \in SUBSET Blocks, NEW b
  PROVE  /\ Cardinality(S) \in Nat
         /\ b \notin S => Cardinality(S \cup {b}) = Cardinality(S) + 1
         /\ b \in S => Cardinality(S \ {b}) = Cardinality(S) - 1
<1>1. IsFiniteSet(S)
  BY HeapAssumption, FS_Subset
<1>2. QED
  BY <1>1, FS_CardinalityType, FS_AddElement, FS_RemoveElement

(* A step that moves no block of the bin and counts nothing. *)
LEMMA SameCount ==
  ASSUME NEW i, BinCount(i), HandsOf(i)' = HandsOf(i),
         /\ headFree'[i] = headFree[i] /\ numFree'[i] = numFree[i]
         /\ headInUse'[i] = headInUse[i]
         /\ allocs'[i] = allocs[i] /\ frees'[i] = frees[i]
  PROVE  BinCount(i)'
BY DEF BinCount

LEMMA HandsKept ==
  ASSUME NEW t \in Threads, NEW i, OthersSame(t),
         /\ pc'[t] \in InHandPc <=> pc[t] \in InHandPc
         /\ pc[t] \in InHandPc => bin'[t] = bin[t]
  PROVE  HandsOf(i)' = HandsOf(i)
<1>1. ASSUME NEW u \in Threads
      PROVE  pc'[u] \in InHandPc /\ bin'[u] = i <=> pc[u] \in InHandPc /\ bin[u] = i
  BY DEF OthersSame
<1>2. HandsOf(i) = {u \in Threads : pc[u] \in InHandPc /\ bin[u] = i}
  BY InHandMeans DEF HandsOf
<1>3. HandsOf(i)' = {u \in Threads : pc'[u] \in InHandPc /\ bin'[u] = i}
  BY DEF HandsOf, InHand, InHandPc
<1>4. QED
  BY <1>1, <1>2, <1>3

(* getFromPool's block comes to the free list. *)
LEMMA CarveCounts ==
  ASSUME Inv, NEW t \in Threads, OthersSame(t), Carve(t), NEW i \in MemBins, BinCount(i)
  PROVE  BinCount(i)'
<1>1. PICK b \in fresh : headFree' = [headFree EXCEPT ![bin[t]] = @ \cup {b}]
  BY DEF Carve
<1>2. /\ numFree' = [numFree EXCEPT ![bin[t]] = @ + 1]
      /\ UNCHANGED <<headInUse, allocs, frees, bin>>
      /\ pc[t] = "carve" /\ pc'[t] \in {"carve", "take"}
  BY DEF Carve, binStats, request, At, GoTo, Inv, TypeInv
<1>3. /\ headFree \in [MemBins -> SUBSET Blocks] /\ numFree \in [MemBins -> Int]
      /\ b \in Blocks /\ home[b] = NoBin
      /\ bin[t] \in MemBins
  BY <1>1, <1>2 DEF Inv, TypeInv, BlockInv, GoodBlock, PlaceOf, PcInv, PcOf, UsesBin
<1>4. b \notin headFree[bin[t]]
  BY <1>3, BinShape DEF Inv, BlockInv, GoodBlock, PlaceOf
<1>5. HandsOf(i)' = HandsOf(i)
  BY <1>2, HandsKept DEF InHandPc
<1>6. CASE i # bin[t]
  BY <1>1, <1>2, <1>3, <1>5, <1>6, SameCount
<1>7. CASE i = bin[t]
  <2>1. headFree'[i] = headFree[i] \cup {b} /\ numFree'[i] = numFree[i] + 1
    BY <1>1, <1>2, <1>3, <1>7
  <2>2. Cardinality(headFree'[i]) = Cardinality(headFree[i]) + 1
    BY <1>3, <1>4, <1>7, <2>1, CardAdd
  <2>3. QED
    BY <1>2, <1>5, <2>1, <2>2 DEF BinCount
<1>8. QED
  BY <1>6, <1>7

(* getBuf moves a block from the free list to the list in use. *)
LEMMA TakeCounts ==
  ASSUME Inv, NEW t \in Threads, OthersSame(t), Take(t), NEW i \in MemBins, BinCount(i)
  PROVE  BinCount(i)'
<1>1. PICK b \in headFree[bin[t]] :
        /\ headFree' = [headFree EXCEPT ![bin[t]] = @ \ {b}]
        /\ headInUse' = [headInUse EXCEPT ![bin[t]] = @ \cup {b}]
  BY DEF Take
<1>2. /\ numFree' = [numFree EXCEPT ![bin[t]] = @ - 1]
      /\ allocs' = [allocs EXCEPT ![bin[t]] = @ + 1]
      /\ UNCHANGED <<frees, bin>>
  BY DEF Take
<1>3. pc[t] = "take" /\ pc'[t] \in {"dump", "check"}
  BY DEF Take, At, GoTo, Inv, TypeInv
<1>4. /\ headFree \in [MemBins -> SUBSET Blocks] /\ numFree \in [MemBins -> Int]
      /\ headInUse \in [MemBins -> SUBSET Blocks]
      /\ allocs \in [MemBins -> Int] /\ frees \in [MemBins -> Int]
      /\ bin[t] \in MemBins
  BY <1>3 DEF Inv, TypeInv, PcInv, PcOf, UsesBin
<1>5. b \notin headInUse[bin[t]]
  BY <1>4 DEF Inv, BlockInv, GoodBlock, PlaceOf
<1>6. HandsOf(i)' = HandsOf(i)
  BY <1>2, <1>3, HandsKept DEF InHandPc
<1>7. CASE i # bin[t]
  BY <1>1, <1>2, <1>4, <1>6, <1>7, SameCount
<1>8. CASE i = bin[t]
  <2>1. /\ headFree'[i] = headFree[i] \ {b} /\ numFree'[i] = numFree[i] - 1
        /\ headInUse'[i] = headInUse[i] \cup {b}
        /\ allocs'[i] = allocs[i] + 1 /\ frees'[i] = frees[i]
    BY <1>1, <1>2, <1>4, <1>8
  <2>2. /\ Cardinality(headFree'[i]) = Cardinality(headFree[i]) - 1
        /\ Cardinality(headInUse'[i]) = Cardinality(headInUse[i]) + 1
        /\ Cardinality(headInUse[i]) \in Nat
    <3>1. headFree[i] \in SUBSET Blocks /\ headInUse[i] \in SUBSET Blocks
      BY <1>4
    <3>2. b \in headFree[i] /\ b \notin headInUse[i]
      BY <1>5, <1>8
    <3>3. QED
      BY <2>1, <3>1, <3>2, CardAdd
  <2>3. HandsOf(i) = {}
    <3>1. Holds(t) /\ t \notin HandsOf(i)
      BY <1>3, InHandMeans DEF Holds, HandsOf, InHandPc
    <3>2. QED
      BY <1>8, <3>1, HandsAlone DEF Inv
  <2>4. Cardinality(HandsOf(i)) = 0
    BY <2>3, FS_EmptySet
  <2>5. QED
    BY <1>4, <1>6, <2>1, <2>2, <2>4 DEF BinCount
<1>9. QED
  BY <1>7, <1>8

(* The block that putBuf frees, as the invariant knows it. *)
LEMMA PutBlock ==
  ASSUME Inv, NEW t \in Threads, pc[t] \in {"put", "batch", "delay"}
  PROVE  /\ old[t] \in Blocks /\ bin[t] \in MemBins /\ home[old[t]] = bin[t]
         /\ pc[t] = "put" => old[t] \in headInUse[bin[t]]
         /\ \A i \in MemBins : old[t] \notin headFree[i]
         /\ \A i \in MemBins : i # bin[t] => old[t] \notin headInUse[i]
         /\ \A u \in Threads : blk[u] # old[t]
<1>1. /\ old[t] \in Blocks /\ bin[t] \in MemBins /\ home[old[t]] = bin[t]
      /\ GoodBlock(old[t])
  BY DEF Inv, PcInv, PcOf, UsesBin, Freeing, BlockInv
<1>2. QED
  BY <1>1 DEF GoodBlock, PlaceOf, OwnOf, InHandPc

(* putBuf without -d: from the list in use to the free list. *)
LEMMA PutFreeCounts ==
  ASSUME Inv, NEW t \in Threads, OthersSame(t), PutFree(t), NEW i \in MemBins, BinCount(i)
  PROVE  BinCount(i)'
<1> DEFINE b == old[t]
<1>1. /\ headInUse' = [headInUse EXCEPT ![bin[t]] = @ \ {b}]
      /\ headFree' = [headFree EXCEPT ![home[b]] = @ \cup {b}]
      /\ numFree' = [numFree EXCEPT ![home[b]] = @ + 1]
      /\ frees' = [frees EXCEPT ![bin[t]] = @ + 1]
      /\ UNCHANGED allocs
  BY DEF PutFree, ToFree
<1>2. pc[t] = "put" /\ pc'[t] = "idle"
  BY DEF PutFree, At, Return, GoTo, Inv, TypeInv
<1>3. /\ b \in Blocks /\ bin[t] \in MemBins /\ home[b] = bin[t]
      /\ b \in headInUse[bin[t]] /\ b \notin headFree[bin[t]]
  BY <1>2, PutBlock
<1>4. /\ headFree \in [MemBins -> SUBSET Blocks] /\ numFree \in [MemBins -> Int]
      /\ headInUse \in [MemBins -> SUBSET Blocks]
      /\ allocs \in [MemBins -> Int] /\ frees \in [MemBins -> Int]
  BY DEF Inv, TypeInv
<1>5. HandsOf(i)' = HandsOf(i)
  BY <1>2, HandsKept DEF InHandPc
<1>6. CASE i # bin[t]
  BY <1>1, <1>3, <1>4, <1>5, <1>6, SameCount
<1>7. CASE i = bin[t]
  <2>1. /\ headFree'[i] = headFree[i] \cup {b} /\ numFree'[i] = numFree[i] + 1
        /\ headInUse'[i] = headInUse[i] \ {b}
        /\ allocs'[i] = allocs[i] /\ frees'[i] = frees[i] + 1
    BY <1>1, <1>3, <1>4, <1>7
  <2>2. /\ Cardinality(headFree'[i]) = Cardinality(headFree[i]) + 1
        /\ Cardinality(headInUse'[i]) = Cardinality(headInUse[i]) - 1
        /\ Cardinality(headInUse[i]) \in Nat
    <3>1. headFree[i] \in SUBSET Blocks /\ headInUse[i] \in SUBSET Blocks
      BY <1>4
    <3>2. b \notin headFree[i] /\ b \in headInUse[i]
      BY <1>3, <1>7
    <3>3. QED
      BY <2>1, <3>1, <3>2, CardAdd
  <2>3. HandsOf(i) = {}
    <3>1. Holds(t) /\ t \notin HandsOf(i)
      BY <1>2, InHandMeans DEF Holds, HandsOf, InHandPc
    <3>2. QED
      BY <1>7, <3>1, HandsAlone DEF Inv
  <2>4. Cardinality(HandsOf(i)) = 0
    BY <2>3, FS_EmptySet
  <2>5. QED
    BY <1>4, <1>5, <2>1, <2>2, <2>4 DEF BinCount
<1>8. QED
  BY <1>6, <1>7

(* putBuf with -d: the block leaves the list in use and is in t's hand. *)
LEMMA PutDelayCounts ==
  ASSUME Inv, NEW t \in Threads, OthersSame(t), PutDelay(t), NEW i \in MemBins, BinCount(i)
  PROVE  BinCount(i)'
<1> DEFINE b == old[t]
<1>1. /\ headInUse' = [headInUse EXCEPT ![bin[t]] = @ \ {b}]
      /\ UNCHANGED <<headFree, numFree, allocs, frees, bin>>
  BY DEF PutDelay, freeLists, binStats, request
<1>2. pc[t] = "put" /\ pc'[t] \in InHandPc
  BY DEF PutDelay, At, GoTo, Inv, TypeInv, InHandPc
<1>3. b \in Blocks /\ bin[t] \in MemBins /\ b \in headInUse[bin[t]]
  BY <1>2, PutBlock
<1>4. /\ headInUse \in [MemBins -> SUBSET Blocks]
      /\ allocs \in [MemBins -> Int] /\ frees \in [MemBins -> Int]
  BY DEF Inv, TypeInv
<1>5. /\ HandsOf(i)' = {u \in Threads : pc'[u] \in InHandPc /\ bin'[u] = i}
      /\ HandsOf(i) = {u \in Threads : pc[u] \in InHandPc /\ bin[u] = i}
  BY InHandMeans DEF HandsOf, InHand, InHandPc
<1>6. CASE i # bin[t]
  <2>1. HandsOf(i)' = HandsOf(i)
    BY <1>1, <1>5, <1>6 DEF OthersSame
  <2>2. QED
    BY <1>1, <1>3, <1>4, <1>6, <2>1, SameCount
<1>7. CASE i = bin[t]
  <2>1. headInUse'[i] = headInUse[i] \ {b}
    BY <1>1, <1>3, <1>4, <1>7
  <2>2. /\ Cardinality(headInUse'[i]) = Cardinality(headInUse[i]) - 1
        /\ Cardinality(headInUse[i]) \in Nat
    BY <1>3, <1>4, <1>7, <2>1, CardAdd
  <2>3. HandsOf(i) = {} /\ HandsOf(i)' = {t}
    <3>1. Holds(t) /\ t \notin HandsOf(i)
      BY <1>2, <1>5 DEF Holds, InHandPc
    <3>2. HandsOf(i) = {}
      BY <1>7, <3>1, HandsAlone DEF Inv
    <3>3. QED
      BY <1>1, <1>2, <1>5, <1>7, <3>2 DEF OthersSame
  <2>4. Cardinality(HandsOf(i)) = 0 /\ Cardinality(HandsOf(i)') = 1
    BY <2>3, FS_EmptySet, FS_Singleton
  <2>5. QED
    BY <1>1, <1>4, <1>7, <2>2, <2>4 DEF BinCount
<1>8. QED
  BY <1>6, <1>7

(* The oldest block of a delayed list is on no list of its bin. *)
LEMMA OldestBlock ==
  ASSUME Inv, NEW s \in Slots, Len(delay[s]) > 0
  PROVE  /\ Head(delay[s]) \in Blocks /\ home[Head(delay[s])] \in MemBins
         /\ Head(delay[s]) \notin headFree[home[Head(delay[s])]]
<1> DEFINE b == Head(delay[s])
<1>1. delay[s] \in Seq(Blocks) /\ \A j, k \in 1 .. Len(delay[s]) : j # k => delay[s][j] # delay[s][k]
  BY DEF Inv, TypeInv, BlockInv, OnceInv
<1>2. b \in Blocks /\ b \in Delayed(s)
  BY <1>1, TailDelayed DEF Delayed
<1>3. PlaceOf(b)
  BY <1>2 DEF Inv, BlockInv, GoodBlock
<1> HIDE DEF b
<1>4. home[b] \in MemBins /\ b \notin headFree[home[b]]
  BY <1>2, <1>3 DEF PlaceOf
<1>5. QED
  BY <1>2, <1>4 DEF b

(* delayFreeBatch gives the oldest block back to its bin. *)
LEMMA BatchCounts ==
  ASSUME Inv, NEW t \in Threads, OthersSame(t), Batch(t), NEW i \in MemBins, BinCount(i)
  PROVE  BinCount(i)'
<1> DEFINE s == SlotOf(t)
           b == Head(delay[s])
<1>1. /\ pc[t] = "batch" /\ pc'[t] \in InHandPc
      /\ UNCHANGED <<headInUse, allocs, frees, bin>>
  BY DEF Batch, At, GoTo, Inv, TypeInv, InHandPc, binStats, request
<1>2. HandsOf(i)' = HandsOf(i)
  BY <1>1, HandsKept DEF InHandPc
<1>3. CASE UNCHANGED freeLists
  BY <1>1, <1>2, <1>3, SameCount DEF freeLists
<1>4. CASE Len(delay[s]) > MaxDelayElms \div 4 /\ ToFree(b)
  <2>1. /\ headFree \in [MemBins -> SUBSET Blocks] /\ numFree \in [MemBins -> Int]
        /\ bin[t] \in MemBins /\ delay \in [Slots -> Seq(Blocks)]
    BY <1>1 DEF Inv, TypeInv, PcInv, PcOf, UsesBin
  <2>2. s \in Slots
    BY <2>1, BinShape DEF SlotOf
  <2>3. Len(delay[s]) > 0
    BY <1>4, <2>1, <2>2, HeapAssumption
  <2>4. home[b] \in MemBins /\ b \notin headFree[home[b]]
    BY <2>2, <2>3, OldestBlock
  <2>5. /\ headFree' = [headFree EXCEPT ![home[b]] = @ \cup {b}]
        /\ numFree' = [numFree EXCEPT ![home[b]] = @ + 1]
    BY <1>4 DEF ToFree
  <2>6. CASE i # home[b]
    BY <1>1, <1>2, <2>1, <2>4, <2>5, <2>6, SameCount
  <2>7. CASE i = home[b]
    <3>1. headFree'[i] = headFree[i] \cup {b} /\ numFree'[i] = numFree[i] + 1
      BY <2>1, <2>4, <2>5, <2>7
    <3>2. headFree[i] \in SUBSET Blocks /\ b \notin headFree[i]
      BY <2>1, <2>4, <2>7
    <3>3. Cardinality(headFree'[i]) = Cardinality(headFree[i]) + 1
      BY <3>1, <3>2, CardAdd
    <3>4. QED
      BY <1>1, <1>2, <3>1, <3>3 DEF BinCount
  <2>8. QED
    BY <2>6, <2>7
<1>5. QED
  BY <1>3, <1>4 DEF Batch

(* circPut takes the block out of t's hand, and it counts as freed. *)
LEMMA DelayCounts ==
  ASSUME Inv, NEW t \in Threads, OthersSame(t), Delay(t), NEW i \in MemBins, BinCount(i)
  PROVE  BinCount(i)'
<1>1. /\ frees' = [frees EXCEPT ![bin[t]] = @ + 1]
      /\ UNCHANGED <<headFree, numFree, headInUse, allocs>>
      /\ pc[t] = "delay" /\ pc'[t] = "idle"
  BY DEF Delay, freeLists, At, Return, GoTo, Inv, TypeInv
<1>2. bin[t] \in MemBins
  BY <1>1, PutBlock
<1>3. /\ headInUse \in [MemBins -> SUBSET Blocks]
      /\ allocs \in [MemBins -> Int] /\ frees \in [MemBins -> Int]
  BY DEF Inv, TypeInv
<1>4. /\ HandsOf(i)' = {u \in Threads : pc'[u] \in InHandPc /\ bin'[u] = i}
      /\ HandsOf(i) = {u \in Threads : pc[u] \in InHandPc /\ bin[u] = i}
  BY InHandMeans DEF HandsOf, InHand, InHandPc
<1>5. CASE i # bin[t]
  <2>1. HandsOf(i)' = HandsOf(i)
    BY <1>1, <1>4, <1>5 DEF OthersSame, InHandPc
  <2>2. QED
    BY <1>1, <1>2, <1>3, <1>5, <2>1, SameCount
<1>6. CASE i = bin[t]
  <2>1. HandsOf(i) = {t} /\ HandsOf(i)' = {}
    <3>1. Holds(t) /\ t \in HandsOf(i)
      BY <1>1, <1>4, <1>6 DEF Holds, InHandPc
    <3>2. HandsOf(i) = {t}
      BY <1>6, <3>1, HandsAlone DEF Inv
    <3>3. QED
      BY <1>1, <1>4, <3>2 DEF OthersSame, InHandPc
  <2>2. Cardinality(HandsOf(i)) = 1 /\ Cardinality(HandsOf(i)') = 0
    BY <2>1, FS_EmptySet, FS_Singleton
  <2>3. Cardinality(headInUse[i]) \in Nat
    BY <1>3, CardAdd
  <2>4. frees'[i] = frees[i] + 1
    BY <1>1, <1>3, <1>6
  <2>5. QED
    BY <1>1, <1>3, <2>2, <2>3, <2>4 DEF BinCount
<1>7. QED
  BY <1>5, <1>6

(* The steps outside putBuf take no block in hand. *)
LEMMA QuietHands ==
  ASSUME Inv, NEW t \in Threads,
         \/ Call(t) \/ LockSlot(t) \/ Carve(t) \/ CarveFails(t) \/ CarveAborts(t)
         \/ Take(t) \/ Check(t) \/ Publish(t) \/ Mark(t) \/ LockFree(t)
         \/ DumpSlot(t) \/ DumpDone(t)
  PROVE  pc[t] \notin InHandPc /\ pc'[t] \notin InHandPc
<1>1. pc \in [Threads -> Labels] /\ after \in [Threads -> {"idle", "check", "abort"}]
  BY DEF Inv, TypeInv
<1>2. pc[t] \notin InHandPc
  BY DEF Call, Malloc, Realloc, Request, Free, Report, LockSlot, Carve, CarveFails,
         CarveAborts, Take, Check, Publish, Mark, LockFree, DumpSlot, DumpDone, At, InHandPc
<1>3. CASE UNCHANGED pc
  BY <1>2, <1>3
<1>4. ASSUME NEW l, GoTo(t, l), l \notin InHandPc PROVE pc'[t] \notin InHandPc
  BY <1>1, <1>4 DEF GoTo
<1>5. CASE Call(t)
  BY <1>2, <1>4, <1>5 DEF Call, Malloc, Realloc, Request, Free, Report, InHandPc
<1>6. CASE LockSlot(t) \/ LockFree(t) \/ CarveAborts(t) \/ Mark(t) \/ Carve(t)
  BY <1>2, <1>4, <1>6 DEF LockSlot, LockFree, CarveAborts, Mark, Carve, InHandPc
<1>7. CASE CarveFails(t) \/ Check(t) \/ Publish(t)
  BY <1>2, <1>4, <1>7 DEF CarveFails, Check, Publish, Return, InHandPc
<1>8. CASE Take(t)
  BY <1>2, <1>4, <1>8 DEF Take, InHandPc
<1>9. CASE DumpSlot(t)
  BY <1>3, <1>9 DEF DumpSlot
<1>10. CASE DumpDone(t)
  <2>1. after[t] \notin InHandPc
    BY <1>1 DEF InHandPc
  <2>2. QED
    BY <1>2, <1>3, <1>4, <1>10, <2>1 DEF DumpDone
<1>11. QED
  BY <1>5, <1>6, <1>7, <1>8, <1>9, <1>10

(* The other steps move no block and count nothing. *)
LEMMA OtherCounts ==
  ASSUME Inv, NEW t \in Threads, OthersSame(t), NEW i \in MemBins, BinCount(i),
         \/ Call(t) \/ LockSlot(t) \/ CarveFails(t) \/ CarveAborts(t) \/ Check(t)
         \/ Publish(t) \/ Mark(t) \/ LockFree(t) \/ DumpSlot(t) \/ DumpDone(t)
  PROVE  BinCount(i)'
<1>1. UNCHANGED <<headFree, numFree, headInUse, allocs, frees>>
  BY DEF Call, Malloc, Realloc, Free, Report, LockSlot, CarveFails, CarveAborts, Check,
         Publish, Mark, LockFree, DumpSlot, DumpDone, freeLists, binStats
<1>2. pc[t] \notin InHandPc /\ pc'[t] \notin InHandPc
  BY QuietHands
<1>3. HandsOf(i)' = HandsOf(i)
  BY <1>2, HandsKept
<1>4. QED
  BY <1>1, <1>3, SameCount

LEMMA InitCounts == Init => \A i \in MemBins : BinCount(i)
<1> SUFFICES ASSUME Init, NEW i \in MemBins PROVE BinCount(i)
  OBVIOUS
<1>1. /\ headInUse[i] = {} /\ allocs[i] = 0 /\ frees[i] = 0
      /\ numFree[i] = HighWater[i[2]]
      /\ pc = [t \in Threads |-> "idle"]
  BY DEF Init
<1>2. headFree[i] = {b \in Blocks : home[b] = i}
  BY DEF Init
<1>3. Cardinality({b \in Blocks : home[b] = i}) = HighWater[i[2]]
  BY DEF Init
<1>4. HandsOf(i) = {}
  BY <1>1, InHandMeans DEF HandsOf, InHandPc
<1>5. QED
  BY <1>1, <1>2, <1>3, <1>4, FS_EmptySet DEF BinCount

LEMMA StepCounts ==
  ASSUME Inv, NEW t \in Threads, Call(t) \/ Step(t), NEW i \in MemBins, BinCount(i)
  PROVE  BinCount(i)'
<1>1. OthersSame(t)
  BY StepIsLocal DEF Inv
<1>2. QED
  BY <1>1, CarveCounts, TakeCounts, PutFreeCounts, PutDelayCounts, BatchCounts, DelayCounts,
     OtherCounts DEF Step

(* numFree, by which replenishBin decides, is the length of the free list, *)
(* and allocs - frees, which the report prints as leaked, is the number of *)
(* blocks in use: in every bin, at every step, for any number of threads.  *)
THEOREM BinsAreCounted == Spec => []BinCounters
<1>1. (\A i \in MemBins : BinCount(i)) => BinCounters
  BY DEF BinCount, HandsOf, BinCounters
<1>2. Inv /\ (\A i \in MemBins : BinCount(i)) /\ [Next]_vars => (\A i \in MemBins : BinCount(i))'
  <2> SUFFICES ASSUME Inv, \A i \in MemBins : BinCount(i), [Next]_vars, NEW i \in MemBins
               PROVE  BinCount(i)'
    OBVIOUS
  <2>1. CASE UNCHANGED vars
    <3>1. UNCHANGED <<headFree, numFree, headInUse, allocs, frees, pc, bin, old>>
      BY <2>1 DEF vars, freeLists, binStats, request
    <3>2. QED
      BY <3>1 DEF BinCount, HandsOf, InHand
  <2>2. QED
    BY <2>1, StepCounts DEF Next, Gone
<1>3. Spec => [](\A i \in MemBins : BinCount(i))
  BY <1>2, InitCounts, Invariant, PTL DEF Spec
<1>4. QED
  BY <1>1, <1>3, PTL

(* Every variable keeps its type, whatever the threads, slots, bins and    *)
(* blocks: getBuf never takes numFree, a size_t, below zero, because it is *)
(* the length of a list that getBuf has not found empty.                   *)
THEOREM TypeCorrect == Spec => []TypeOK
<1>1. ASSUME Inv, BinCounters PROVE TypeOK
  <2>1. ASSUME NEW i \in MemBins PROVE numFree[i] \in Nat
    <3>1. IsFiniteSet(headFree[i])
      BY <1>1, HeapAssumption, FS_Subset DEF Inv, TypeInv
    <3>2. QED
      BY <1>1, <3>1, FS_CardinalityType DEF BinCounters
  <2>2. numFree \in [MemBins -> Nat]
    BY <1>1, <2>1 DEF Inv, TypeInv
  <2>3. QED
    BY <1>1, <2>2 DEF Inv, TypeInv, TypeOK
<1>2. QED
  BY <1>1, Invariant, BinsAreCounted, PTL

(***************************************************************************)
(* The counters of a slot.                                                 *)
(***************************************************************************)
AllocPc == {"dump", "check", "publish"}
AllocSizes == [b \in Blocks |-> AllocSize(b)]
UsedOf(s, n) == {b \in InUseOf(s) : UsrBin(AllocSize(b)) = n}
SlotCount(s) ==
  /\ requested[s] - freed[s] = SumFunctionOnSet(AllocSizes, InUseOf(s))
  /\ hwm[s] >= requested[s] - freed[s]
  /\ \A n \in UsrBins :
       histoAllocs[<<s, n>>] - histoFrees[<<s, n>>] = Cardinality(UsedOf(s, n))

(* The size of a block: its call's until the header holds it. *)
LEMMA AllocSizeIs ==
  ASSUME Inv, NEW b \in Blocks
  PROVE  /\ \A t \in Threads : blk[t] = b /\ pc[t] \in AllocPc => AllocSize(b) = size[t]
         /\ (\A t \in Threads : blk[t] = b => pc[t] \notin AllocPc)
              => AllocSize(b) = usrDataSize[b]
         /\ AllocSize(b) \in Nat
<1> DEFINE Allocating == {t \in Threads : blk[t] = b /\ pc[t] \in AllocPc}
<1>1. AllocSize(b) = IF Allocating = {} THEN usrDataSize[b]
                     ELSE size[CHOOSE t \in Allocating : TRUE]
  BY DEF AllocSize, AllocPc
<1>2. \A t, u \in Allocating : t = u
  BY DEF Inv, BlockInv, GoodBlock, OwnOf
<1>3. usrDataSize[b] \in Nat /\ \A t \in Threads : size[t] \in Nat
  BY DEF Inv, TypeInv
<1>4. ASSUME NEW t \in Threads, blk[t] = b, pc[t] \in AllocPc PROVE AllocSize(b) = size[t]
  <2>1. t \in Allocating
    BY <1>4
  <2>2. (CHOOSE u \in Allocating : TRUE) = t
    BY <1>2, <2>1
  <2>3. QED
    BY <1>1, <2>1, <2>2
<1>5. CASE Allocating = {}
  BY <1>1, <1>3, <1>4, <1>5
<1>6. CASE Allocating # {}
  BY <1>1, <1>3, <1>4, <1>6
<1>7. QED
  BY <1>5, <1>6

(* The same where the size is that of the next state. *)
LEMMA AllocSizeIsNext ==
  ASSUME Inv', NEW b \in Blocks
  PROVE  /\ \A t \in Threads : blk'[t] = b /\ pc'[t] \in AllocPc => AllocSize(b)' = size'[t]
         /\ (\A t \in Threads : blk'[t] = b => pc'[t] \notin AllocPc)
              => AllocSize(b)' = usrDataSize'[b]
         /\ AllocSize(b)' \in Nat
<1> DEFINE Allocating == {t \in Threads : blk'[t] = b /\ pc'[t] \in AllocPc}
<1>1. AllocSize(b)' = IF Allocating = {} THEN usrDataSize'[b]
                      ELSE size'[CHOOSE t \in Allocating : TRUE]
  BY DEF AllocSize, AllocPc
<1>2. \A t, u \in Allocating : t = u
  BY DEF Inv, BlockInv, GoodBlock, OwnOf
<1>3. usrDataSize'[b] \in Nat /\ \A t \in Threads : size'[t] \in Nat
  BY DEF Inv, TypeInv
<1>4. ASSUME NEW t \in Threads, blk'[t] = b, pc'[t] \in AllocPc PROVE AllocSize(b)' = size'[t]
  <2>1. t \in Allocating
    BY <1>4
  <2>2. (CHOOSE u \in Allocating : TRUE) = t
    BY <1>2, <2>1
  <2>3. QED
    BY <1>1, <2>1, <2>2
<1>5. CASE Allocating = {}
  BY <1>1, <1>3, <1>4, <1>5
<1>6. CASE Allocating # {}
  BY <1>1, <1>3, <1>4, <1>6
<1>7. QED
  BY <1>5, <1>6

(* A slot's blocks in use are those of its bins' lists. *)
LEMMA UsedShape ==
  ASSUME Inv, NEW s \in Slots
  PROVE  /\ \A b : b \in InUseOf(s) <=>
                     b \in Blocks /\ home[b] \in MemBins /\ home[b][1] = s
                     /\ b \in headInUse[home[b]]
         /\ InUseOf(s) \subseteq Blocks /\ IsFiniteSet(InUseOf(s))
<1>1. \A b : b \in InUseOf(s) <=> \E n \in BinNums : b \in headInUse[<<s, n>>]
  BY DEF InUseOf
<1>2. headInUse \in [MemBins -> SUBSET Blocks] /\ \A n \in BinNums : <<s, n>> \in MemBins
  BY DEF Inv, TypeInv, MemBins
<1>3. \A b \in Blocks : \A i \in MemBins : b \in headInUse[i] => home[b] = i
  BY DEF Inv, BlockInv, GoodBlock, PlaceOf
<1>4. ASSUME NEW b, b \in InUseOf(s)
      PROVE  b \in Blocks /\ home[b] \in MemBins /\ home[b][1] = s /\ b \in headInUse[home[b]]
  <2>1. PICK n \in BinNums : b \in headInUse[<<s, n>>]
    BY <1>1, <1>4
  <2>2. b \in Blocks
    BY <1>2, <2>1
  <2>3. home[b] = <<s, n>>
    BY <1>2, <1>3, <2>1, <2>2
  <2>4. QED
    BY <1>2, <2>1, <2>2, <2>3
<1>5. ASSUME NEW b \in Blocks, home[b] \in MemBins, home[b][1] = s, b \in headInUse[home[b]]
      PROVE  b \in InUseOf(s)
  <2>1. PICK n \in BinNums : home[b] = <<s, n>>
    BY <1>5 DEF MemBins
  <2>2. QED
    BY <1>1, <1>5, <2>1
<1>6. InUseOf(s) \subseteq Blocks
  BY <1>4
<1>7. QED
  BY <1>4, <1>5, <1>6, HeapAssumption, FS_Subset

(* What a step does to the sizes that t's call has not yet published. *)
LEMMA AllocEffect ==
  ASSUME Inv, NEW t \in Threads, Call(t) \/ Step(t), ~Take(t), ~Publish(t)
  PROVE  /\ usrDataSize' = usrDataSize
         /\ blk[t] \in Blocks /\ pc[t] \in AllocPc =>
              blk'[t] = blk[t] /\ size'[t] = size[t] /\ pc'[t] \in AllocPc
         /\ blk'[t] \in Blocks /\ pc'[t] \in AllocPc =>
              blk'[t] = blk[t] /\ pc[t] \in AllocPc
<1> DEFINE Effect == /\ blk[t] \in Blocks /\ pc[t] \in AllocPc =>
                          blk'[t] = blk[t] /\ size'[t] = size[t] /\ pc'[t] \in AllocPc
                     /\ blk'[t] \in Blocks /\ pc'[t] \in AllocPc =>
                          blk'[t] = blk[t] /\ pc[t] \in AllocPc
<1>1. /\ pc \in [Threads -> Labels] /\ blk \in [Threads -> Blocks \cup {NoBlock}]
      /\ after \in [Threads -> {"idle", "check", "abort"}] /\ PcOf(t)
      /\ NoBlock \notin Blocks
  BY HeapAssumption DEF Inv, TypeInv, PcInv
<1>2. usrDataSize' = usrDataSize
  BY DEF Call, Malloc, Realloc, Free, Report, Step, LockSlot, Carve, CarveFails, CarveAborts,
         Check, Mark, LockFree, PutFree, PutDelay, Batch, Delay, DumpSlot, DumpDone, header
<1> SUFFICES Effect
  BY <1>2
<1>3. ASSUME pc[t] \notin AllocPc, pc'[t] \notin AllocPc PROVE Effect
  BY <1>3
<1>4. ASSUME blk'[t] = NoBlock, pc[t] \notin AllocPc PROVE Effect
  BY <1>1, <1>4
<1>5. ASSUME blk'[t] = blk[t], size'[t] = size[t], pc[t] \in AllocPc,
             blk[t] \in Blocks => pc'[t] \in AllocPc
      PROVE  Effect
  BY <1>5
<1> HIDE DEF Effect
<1>6. CASE Call(t)
  <2>1. pc[t] = "idle"
    BY <1>6 DEF Call, Malloc, Realloc, Request, Free, Report, At
  <2>2. CASE Report(t)
    <3>1. blk'[t] = NoBlock
      BY <1>1, <2>1, <2>2 DEF Report, request, PcOf
    <3>2. QED
      BY <1>4, <2>1, <3>1 DEF AllocPc
  <2>3. CASE ~Report(t)
    <3>1. pc'[t] \in {"lock", "mark"}
      BY <1>1, <1>6, <2>3 DEF Call, Malloc, Realloc, Request, Free, GoTo
    <3>2. QED
      BY <1>3, <2>1, <3>1 DEF AllocPc
  <2>4. QED
    BY <2>2, <2>3
<1>7. CASE LockSlot(t) \/ LockFree(t) \/ Mark(t) \/ Carve(t) \/ Batch(t)
  <2>1. pc[t] \in {"lock", "lockFree", "mark", "carve", "batch"}
    BY <1>7 DEF LockSlot, LockFree, Mark, Carve, Batch, At
  <2>2. pc'[t] \in {"carve", "take", "put", "lockFree", "batch", "delay"}
    <3>1. CASE LockSlot(t) \/ LockFree(t) \/ Mark(t)
      BY <1>1, <3>1 DEF LockSlot, LockFree, Mark, GoTo
    <3>2. CASE Carve(t)
      BY <1>1, <3>2 DEF Carve, GoTo
    <3>3. CASE Batch(t)
      BY <1>1, <3>3 DEF Batch, GoTo, At
    <3>4. QED
      BY <1>7, <3>1, <3>2, <3>3
  <2>3. QED
    BY <1>3, <2>1, <2>2 DEF AllocPc
<1>8. CASE CarveFails(t) \/ PutFree(t) \/ Delay(t)
  <2>1. pc[t] \in {"carve", "put", "delay"}
    BY <1>8 DEF CarveFails, PutFree, Delay, At
  <2>2. blk'[t] = NoBlock
    BY <1>1, <1>8 DEF CarveFails, PutFree, Delay, Return
  <2>3. QED
    BY <1>4, <2>1, <2>2 DEF AllocPc
<1>9. CASE PutDelay(t)
  <2>1. pc[t] = "put" /\ pc'[t] \in {"batch", "delay"}
    BY <1>1, <1>9 DEF PutDelay, At, GoTo
  <2>2. QED
    BY <1>3, <2>1 DEF AllocPc
<1>10. CASE CarveAborts(t)
  <2>1. blk'[t] = NoBlock /\ pc[t] = "carve"
    BY <1>1, <1>10 DEF CarveAborts, request, At, PcOf
  <2>2. QED
    BY <1>4, <2>1 DEF AllocPc
<1>11. CASE Check(t) \/ DumpSlot(t) \/ DumpDone(t)
  <2>1. blk' = blk /\ size' = size /\ pc[t] \in AllocPc
    BY <1>11 DEF Check, DumpSlot, DumpDone, At, request, AllocPc
  <2>2. CASE Check(t)
    <3>1. pc'[t] \in {"dump", "publish"}
      BY <1>1, <2>2 DEF Check, GoTo
    <3>2. QED
      BY <1>5, <2>1, <3>1 DEF AllocPc
  <2>3. CASE DumpSlot(t)
    <3>1. pc' = pc
      BY <2>3 DEF DumpSlot
    <3>2. QED
      BY <1>5, <2>1, <3>1
  <2>4. CASE DumpDone(t)
    <3>1. /\ pc[t] = "dump"
          /\ pc'[t] = pc[t] \/ (after[t] # "abort" /\ pc'[t] = after[t])
      BY <1>1, <2>4 DEF DumpDone, At, GoTo
    <3>2. after[t] = "idle" => blk[t] = NoBlock
      BY <1>1, <3>1 DEF PcOf
    <3>3. blk[t] \in Blocks => pc'[t] \in AllocPc
      BY <1>1, <3>1, <3>2 DEF AllocPc
    <3>4. QED
      BY <1>5, <2>1, <3>3
  <2>5. QED
    BY <1>11, <2>2, <2>3, <2>4
<1>12. QED
  BY <1>6, <1>7, <1>8, <1>9, <1>10, <1>11 DEF Step

(* Only Take gives a block another size: Publish writes to the header what *)
(* has been counted.                                                       *)
LEMMA SizesKept ==
  ASSUME Inv, Inv', NEW t \in Threads, Call(t) \/ Step(t), ~Take(t), NEW b \in Blocks
  PROVE  AllocSize(b)' = AllocSize(b)
<1>1. OthersSame(t)
  BY StepIsLocal DEF Inv
<1>2. \A u, v \in Threads : blk[u] = b /\ blk[v] = b => u = v
  BY DEF Inv, BlockInv, GoodBlock, OwnOf
<1>3. CASE Publish(t)
  <2>1. /\ usrDataSize' = [usrDataSize EXCEPT ![blk[t]] = size[t]]
        /\ pc[t] = "publish"
    BY <1>3 DEF Publish, At
  <2>2. pc'[t] \notin AllocPc
    BY <1>3 DEF Publish, Return, GoTo, AllocPc, Inv, TypeInv
  <2>3. CASE blk[t] = b
    <3>1. AllocSize(b) = size[t]
      BY <2>1, <2>3, AllocSizeIs DEF AllocPc
    <3>2. \A u \in Threads : blk'[u] = b => pc'[u] \notin AllocPc
      BY <1>1, <1>2, <2>2, <2>3 DEF OthersSame
    <3>3. AllocSize(b)' = usrDataSize'[b]
      BY <3>2, AllocSizeIsNext
    <3>4. usrDataSize'[b] = size[t]
      BY <2>1, <2>3 DEF Inv, TypeInv
    <3>5. QED
      BY <3>1, <3>3, <3>4
  <2>4. CASE blk[t] # b
    <3>1. usrDataSize'[b] = usrDataSize[b]
      BY <2>1, <2>4 DEF Inv, TypeInv
    <3>2. CASE \E u \in Threads : blk[u] = b /\ pc[u] \in AllocPc
      <4>1. PICK u \in Threads : blk[u] = b /\ pc[u] \in AllocPc
        BY <3>2
      <4>2. blk'[u] = b /\ pc'[u] \in AllocPc /\ size'[u] = size[u]
        BY <1>1, <2>4, <4>1 DEF OthersSame
      <4>3. QED
        BY <4>1, <4>2, AllocSizeIs, AllocSizeIsNext
    <3>3. CASE \A u \in Threads : blk[u] = b => pc[u] \notin AllocPc
      <4>1. \A u \in Threads : blk'[u] = b => pc'[u] \notin AllocPc
        BY <1>1, <2>2, <3>3 DEF OthersSame
      <4>2. AllocSize(b) = usrDataSize[b]
        BY <3>3, AllocSizeIs
      <4>3. AllocSize(b)' = usrDataSize'[b]
        BY <4>1, AllocSizeIsNext
      <4>4. QED
        BY <3>1, <4>2, <4>3
    <3>4. QED
      BY <3>2, <3>3
  <2>5. QED
    BY <2>3, <2>4
<1>4. CASE ~Publish(t)
  <2>1. /\ usrDataSize' = usrDataSize
        /\ blk[t] \in Blocks /\ pc[t] \in AllocPc =>
             blk'[t] = blk[t] /\ size'[t] = size[t] /\ pc'[t] \in AllocPc
        /\ blk'[t] \in Blocks /\ pc'[t] \in AllocPc =>
             blk'[t] = blk[t] /\ pc[t] \in AllocPc
    BY <1>4, AllocEffect
  <2>2. CASE \E u \in Threads : blk[u] = b /\ pc[u] \in AllocPc
    <3>1. PICK u \in Threads : blk[u] = b /\ pc[u] \in AllocPc
      BY <2>2
    <3>2. blk'[u] = b /\ pc'[u] \in AllocPc /\ size'[u] = size[u]
      BY <1>1, <2>1, <3>1 DEF OthersSame
    <3>3. AllocSize(b) = size[u]
      BY <3>1, AllocSizeIs
    <3>4. AllocSize(b)' = size'[u]
      BY <3>2, AllocSizeIsNext
    <3>5. QED
      BY <3>2, <3>3, <3>4
  <2>3. CASE \A u \in Threads : blk[u] = b => pc[u] \notin AllocPc
    <3>1. \A u \in Threads : blk'[u] = b => pc'[u] \notin AllocPc
      BY <1>1, <2>1, <2>3 DEF OthersSame
    <3>2. AllocSize(b) = usrDataSize[b]
      BY <2>3, AllocSizeIs
    <3>3. AllocSize(b)' = usrDataSize'[b]
      BY <3>1, AllocSizeIsNext
    <3>4. QED
      BY <2>1, <3>2, <3>3
  <2>4. QED
    BY <2>2, <2>3
<1>5. QED
  BY <1>3, <1>4

(* One block more or less on the list in use of bin i. *)
LEMMA UsedAdd ==
  ASSUME headInUse \in [MemBins -> SUBSET Blocks], NEW i \in MemBins, NEW b, NEW s \in Slots,
         headInUse' = [headInUse EXCEPT ![i] = @ \cup {b}]
  PROVE  /\ s = i[1] => InUseOf(s)' = InUseOf(s) \cup {b}
         /\ s # i[1] => InUseOf(s)' = InUseOf(s)
<1>1. PICK n0 \in BinNums : i = <<i[1], n0>>
  BY DEF MemBins
<1>2. \A n \in BinNums : <<s, n>> \in MemBins
  BY DEF MemBins
<1>3. /\ \A x : x \in InUseOf(s) <=> \E n \in BinNums : x \in headInUse[<<s, n>>]
      /\ \A x : x \in InUseOf(s)' <=> \E n \in BinNums : x \in headInUse'[<<s, n>>]
  BY DEF InUseOf
<1>4. CASE s = i[1]
  <2>1. /\ \A n \in BinNums : n # n0 => headInUse'[<<s, n>>] = headInUse[<<s, n>>]
        /\ headInUse'[<<s, n0>>] = headInUse[<<s, n0>>] \cup {b}
    BY <1>1, <1>2, <1>4
  <2>2. \A x : x \in InUseOf(s)' <=> x \in InUseOf(s) \cup {b}
    <3>1. ASSUME NEW x, NEW n \in BinNums, x \in headInUse'[<<s, n>>]
          PROVE  x \in InUseOf(s) \cup {b}
      BY <1>1, <1>3, <2>1, <3>1
    <3>2. ASSUME NEW x, NEW n \in BinNums, x \in headInUse[<<s, n>>]
          PROVE  x \in InUseOf(s)'
      BY <1>1, <1>3, <2>1, <3>2
    <3>3. b \in InUseOf(s)'
      BY <1>1, <1>3, <2>1
    <3>4. QED
      BY <1>3, <3>1, <3>2, <3>3
  <2>3. QED
    BY <1>4, <2>2
<1>5. CASE s # i[1]
  <2>1. \A n \in BinNums : headInUse'[<<s, n>>] = headInUse[<<s, n>>]
    BY <1>1, <1>2, <1>5
  <2>2. QED
    BY <1>5, <2>1 DEF InUseOf
<1>6. QED
  BY <1>4, <1>5

LEMMA UsedDrop ==
  ASSUME headInUse \in [MemBins -> SUBSET Blocks], NEW i \in MemBins, NEW b, NEW s \in Slots,
         \A j \in MemBins : j # i => b \notin headInUse[j],
         headInUse' = [headInUse EXCEPT ![i] = @ \ {b}]
  PROVE  /\ s = i[1] => InUseOf(s)' = InUseOf(s) \ {b}
         /\ s # i[1] => InUseOf(s)' = InUseOf(s)
<1>1. PICK n0 \in BinNums : i = <<i[1], n0>>
  BY DEF MemBins
<1>2. \A n \in BinNums : <<s, n>> \in MemBins
  BY DEF MemBins
<1>3. /\ \A x : x \in InUseOf(s) <=> \E n \in BinNums : x \in headInUse[<<s, n>>]
      /\ \A x : x \in InUseOf(s)' <=> \E n \in BinNums : x \in headInUse'[<<s, n>>]
  BY DEF InUseOf
<1>4. CASE s = i[1]
  <2>1. \A n \in BinNums : headInUse'[<<s, n>>] = headInUse[<<s, n>>] \ {b}
    BY <1>1, <1>2, <1>4
  <2>2. \A x : x \in InUseOf(s)' <=> x \in InUseOf(s) \ {b}
    <3>1. ASSUME NEW x, NEW n \in BinNums, x \in headInUse'[<<s, n>>]
          PROVE  x \in InUseOf(s) \ {b}
      BY <1>3, <2>1, <3>1
    <3>2. ASSUME NEW x, x # b, NEW n \in BinNums, x \in headInUse[<<s, n>>]
          PROVE  x \in InUseOf(s)'
      BY <1>3, <2>1, <3>2
    <3>3. QED
      BY <1>3, <3>1, <3>2
  <2>3. QED
    BY <1>4, <2>2
<1>5. CASE s # i[1]
  <2>1. \A n \in BinNums : headInUse'[<<s, n>>] = headInUse[<<s, n>>]
    BY <1>1, <1>2, <1>5
  <2>2. QED
    BY <1>5, <2>1 DEF InUseOf
<1>6. QED
  BY <1>4, <1>5

(* A step of which the slot's counters see nothing. *)
LEMMA SameSlot ==
  ASSUME Inv, Inv', NEW s \in Slots, SlotCount(s), InUseOf(s)' = InUseOf(s),
         \A b \in InUseOf(s) : AllocSize(b)' = AllocSize(b),
         requested'[s] = requested[s], freed'[s] = freed[s], hwm'[s] = hwm[s],
         \A n \in UsrBins : /\ histoAllocs'[<<s, n>>] = histoAllocs[<<s, n>>]
                            /\ histoFrees'[<<s, n>>] = histoFrees[<<s, n>>]
  PROVE  SlotCount(s)'
<1>1. InUseOf(s) \subseteq Blocks /\ IsFiniteSet(InUseOf(s))
  BY UsedShape
<1>2. AllocSizes' = [b \in Blocks |-> AllocSize(b)']
  BY DEF AllocSizes
<1>3. \A b \in InUseOf(s) : AllocSizes'[b] = AllocSizes[b]
  BY <1>1, <1>2 DEF AllocSizes
<1>4. SumFunctionOnSet(AllocSizes', InUseOf(s)) = SumFunctionOnSet(AllocSizes, InUseOf(s))
  BY <1>1, <1>3, SumSame
<1>5. ASSUME NEW n \in UsrBins PROVE UsedOf(s, n)' = UsedOf(s, n)
  BY DEF UsedOf
<1>6. QED
  BY <1>4, <1>5 DEF SlotCount

(* A block in use more, in the sum of the sizes and in the histogram. *)
LEMMA SlotGains ==
  ASSUME Inv, Inv', NEW s \in Slots, NEW b \in Blocks, b \notin InUseOf(s), SlotCount(s),
         InUseOf(s)' = InUseOf(s) \cup {b},
         \A c \in InUseOf(s) : AllocSize(c)' = AllocSize(c),
         Account(s, AllocSize(b)'), freed' = freed, histoFrees' = histoFrees
  PROVE  SlotCount(s)'
<1> DEFINE n0 == AllocSize(b)'
<1>1. InUseOf(s) \subseteq Blocks /\ IsFiniteSet(InUseOf(s)) /\ n0 \in Nat
  BY UsedShape, AllocSizeIsNext
<1>2. /\ requested'[s] = requested[s] + n0
      /\ hwm'[s] = MaxOf(hwm[s], requested[s] + n0 - freed[s])
      /\ requested[s] \in Int /\ freed[s] \in Int /\ hwm[s] \in Int
  BY DEF Account, Inv, TypeInv
<1>3. AllocSizes' = [c \in Blocks |-> AllocSize(c)']
  BY DEF AllocSizes
<1>4. \A c \in InUseOf(s) : AllocSizes'[c] = AllocSizes[c]
  BY <1>1, <1>3 DEF AllocSizes
<1>5. \A c \in InUseOf(s) \cup {b} : AllocSizes'[c] \in Int
  BY <1>1, <1>3, AllocSizeIsNext
<1>6. SumFunctionOnSet(AllocSizes', InUseOf(s)') = SumFunctionOnSet(AllocSizes, InUseOf(s)) + n0
  <2>1. SumFunctionOnSet(AllocSizes', InUseOf(s)) = SumFunctionOnSet(AllocSizes, InUseOf(s))
    BY <1>1, <1>4, SumSame
  <2>2. SumFunctionOnSet(AllocSizes', InUseOf(s) \cup {b})
          = SumFunctionOnSet(AllocSizes', InUseOf(s)) + AllocSizes'[b]
    BY <1>1, <1>5, SumAdd
  <2>3. AllocSizes'[b] = n0
    BY <1>3
  <2>4. QED
    BY <2>1, <2>2, <2>3
<1> HIDE DEF n0
<1>7. requested'[s] - freed'[s] = SumFunctionOnSet(AllocSizes, InUseOf(s))'
  BY <1>2, <1>6, <1>1 DEF SlotCount
<1>8. hwm'[s] >= requested'[s] - freed'[s]
  BY <1>1, <1>2 DEF SlotCount, MaxOf
<1>9. ASSUME NEW n \in UsrBins
      PROVE  histoAllocs'[<<s, n>>] - histoFrees'[<<s, n>>] = Cardinality(UsedOf(s, n)')
  <2>1. /\ histoAllocs \in [Histo -> Nat] /\ histoFrees \in [Histo -> Nat]
        /\ <<s, n>> \in Histo
    BY DEF Inv, TypeInv, Histo
  <2>2. histoAllocs' = [histoAllocs EXCEPT ![<<s, UsrBin(n0)>>] = @ + 1]
    BY DEF Account, n0
  <2>3. UsedOf(s, n) \in SUBSET Blocks /\ b \notin UsedOf(s, n)
    BY <1>1 DEF UsedOf
  <2>4. \A c \in InUseOf(s) : c # b
    OBVIOUS
  <2>5. CASE UsrBin(n0) = n
    <3>1. UsedOf(s, n)' = UsedOf(s, n) \cup {b}
      BY <2>5 DEF UsedOf, n0
    <3>2. Cardinality(UsedOf(s, n)') = Cardinality(UsedOf(s, n)) + 1
          /\ Cardinality(UsedOf(s, n)) \in Nat
      BY <2>3, <3>1, CardAdd
    <3>3. histoAllocs'[<<s, n>>] = histoAllocs[<<s, n>>] + 1
      BY <2>1, <2>2, <2>5
    <3>4. QED
      BY <2>1, <3>2, <3>3 DEF SlotCount
  <2>6. CASE UsrBin(n0) # n
    <3>1. UsedOf(s, n)' = UsedOf(s, n)
      BY <2>6 DEF UsedOf, n0
    <3>2. histoAllocs'[<<s, n>>] = histoAllocs[<<s, n>>]
      BY <2>1, <2>2, <2>6
    <3>3. QED
      BY <3>1, <3>2 DEF SlotCount
  <2>7. QED
    BY <2>5, <2>6
<1>10. QED
  BY <1>7, <1>8, <1>9 DEF SlotCount

LEMMA SlotLoses ==
  ASSUME Inv, Inv', NEW s \in Slots, NEW b \in InUseOf(s), SlotCount(s),
         InUseOf(s)' = InUseOf(s) \ {b}, usrDataSize[b] = AllocSize(b),
         \A c \in Blocks : AllocSize(c)' = AllocSize(c),
         Discount(s, b)
  PROVE  SlotCount(s)'
<1> DEFINE n0 == AllocSize(b)
<1>1. InUseOf(s) \subseteq Blocks /\ IsFiniteSet(InUseOf(s)) /\ b \in Blocks
  BY UsedShape
<1>2. n0 \in Nat
  BY <1>1, AllocSizeIs
<1>3. /\ freed'[s] = freed[s] + n0 /\ requested' = requested /\ hwm' = hwm
      /\ requested[s] \in Int /\ freed[s] \in Int /\ hwm[s] \in Int
  BY DEF Discount, Inv, TypeInv
<1>4. AllocSizes' = AllocSizes
  BY DEF AllocSizes
<1>5. \A c \in InUseOf(s) : AllocSizes[c] \in Int
  BY <1>1, AllocSizeIs DEF AllocSizes
<1>6. SumFunctionOnSet(AllocSizes', InUseOf(s)') = SumFunctionOnSet(AllocSizes, InUseOf(s)) - n0
  <2>1. SumFunctionOnSet(AllocSizes, InUseOf(s) \ {b})
          = SumFunctionOnSet(AllocSizes, InUseOf(s)) - AllocSizes[b]
    BY <1>1, <1>5, SumRemove
  <2>2. AllocSizes[b] = n0
    BY <1>1 DEF AllocSizes
  <2>3. QED
    BY <1>4, <2>1, <2>2
<1> HIDE DEF n0
<1>7. requested'[s] - freed'[s] = SumFunctionOnSet(AllocSizes, InUseOf(s))'
  BY <1>2, <1>3, <1>6 DEF SlotCount
<1>8. hwm'[s] >= requested'[s] - freed'[s]
  BY <1>2, <1>3 DEF SlotCount
<1>9. ASSUME NEW n \in UsrBins
      PROVE  histoAllocs'[<<s, n>>] - histoFrees'[<<s, n>>] = Cardinality(UsedOf(s, n)')
  <2>1. /\ histoAllocs \in [Histo -> Nat] /\ histoFrees \in [Histo -> Nat]
        /\ <<s, n>> \in Histo /\ histoAllocs' = histoAllocs
    BY DEF Inv, TypeInv, Histo, Discount
  <2>2. histoFrees' = [histoFrees EXCEPT ![<<s, UsrBin(n0)>>] = @ + 1]
    BY DEF Discount, n0
  <2>3. UsedOf(s, n) \in SUBSET Blocks
    BY <1>1 DEF UsedOf
  <2>4. CASE UsrBin(n0) = n
    <3>1. UsedOf(s, n)' = UsedOf(s, n) \ {b} /\ b \in UsedOf(s, n)
      BY <1>1, <2>4 DEF UsedOf, n0
    <3>2. Cardinality(UsedOf(s, n)') = Cardinality(UsedOf(s, n)) - 1
          /\ Cardinality(UsedOf(s, n)) \in Nat
      BY <2>3, <3>1, CardAdd
    <3>3. histoFrees'[<<s, n>>] = histoFrees[<<s, n>>] + 1
      BY <2>1, <2>2, <2>4
    <3>4. QED
      BY <2>1, <3>2, <3>3 DEF SlotCount
  <2>5. CASE UsrBin(n0) # n
    <3>1. UsedOf(s, n)' = UsedOf(s, n)
      BY <1>1, <2>5 DEF UsedOf, n0
    <3>2. histoFrees'[<<s, n>>] = histoFrees[<<s, n>>]
      BY <2>1, <2>2, <2>5
    <3>3. QED
      BY <2>1, <3>1, <3>2 DEF SlotCount
  <2>6. QED
    BY <2>4, <2>5
<1>10. QED
  BY <1>7, <1>8, <1>9 DEF SlotCount

LEMMA TakeKeepsSlots ==
  ASSUME Inv, Inv', NEW t \in Threads, OthersSame(t), Take(t), NEW s \in Slots, SlotCount(s)
  PROVE  SlotCount(s)'
<1>1. PICK b \in headFree[bin[t]] :
        /\ headInUse' = [headInUse EXCEPT ![bin[t]] = @ \cup {b}]
        /\ blk' = [blk EXCEPT ![t] = b]
  BY DEF Take
<1>2. /\ Account(SlotOf(t), size[t])
      /\ UNCHANGED <<freed, histoFrees, usrDataSize, size>>
      /\ pc[t] = "take" /\ pc'[t] \in AllocPc
  BY DEF Take, header, At, GoTo, Inv, TypeInv, AllocPc
<1>3. /\ bin[t] \in MemBins /\ blk[t] = NoBlock /\ NoBlock \notin Blocks
      /\ headFree \in [MemBins -> SUBSET Blocks] /\ headInUse \in [MemBins -> SUBSET Blocks]
      /\ blk'[t] = b
  BY <1>1, <1>2, HeapAssumption DEF Inv, TypeInv, PcInv, PcOf, UsesBin
<1>4. /\ b \in Blocks /\ home[b] = bin[t] /\ b \notin headInUse[home[b]]
      /\ \A u \in Threads : blk[u] # b
  <2>1. b \in Blocks /\ GoodBlock(b)
    BY <1>3 DEF Inv, BlockInv
  <2>2. home[b] = bin[t] /\ b \notin headInUse[home[b]]
    BY <1>3, <2>1 DEF GoodBlock, PlaceOf
  <2>3. QED
    BY <2>1, <2>2 DEF GoodBlock, OwnOf
<1>5. \A r \in Slots : b \notin InUseOf(r)
  BY <1>4, UsedShape
<1>6. AllocSize(b)' = size[t]
  BY <1>2, <1>3, <1>4, AllocSizeIsNext
<1>7. ASSUME NEW c \in Blocks, c # b PROVE AllocSize(c)' = AllocSize(c)
  <2>1. CASE \E u \in Threads : blk[u] = c /\ pc[u] \in AllocPc
    <3>1. PICK u \in Threads : blk[u] = c /\ pc[u] \in AllocPc
      BY <2>1
    <3>2. blk'[u] = c /\ pc'[u] \in AllocPc /\ size'[u] = size[u]
      BY <1>3, <3>1 DEF OthersSame
    <3>3. AllocSize(c) = size[u]
      BY <3>1, AllocSizeIs
    <3>4. AllocSize(c)' = size'[u]
      BY <3>2, AllocSizeIsNext
    <3>5. QED
      BY <3>2, <3>3, <3>4
  <2>2. CASE \A u \in Threads : blk[u] = c => pc[u] \notin AllocPc
    <3>1. \A u \in Threads : blk'[u] = c => pc'[u] \notin AllocPc
      BY <1>3, <1>7, <2>2 DEF OthersSame
    <3>2. AllocSize(c) = usrDataSize[c]
      BY <2>2, AllocSizeIs
    <3>3. AllocSize(c)' = usrDataSize'[c]
      BY <3>1, AllocSizeIsNext
    <3>4. QED
      BY <1>2, <3>2, <3>3
  <2>3. QED
    BY <2>1, <2>2
<1>8. InUseOf(s) \subseteq Blocks
  BY UsedShape
<1>9. CASE s = SlotOf(t)
  <2>1. InUseOf(s)' = InUseOf(s) \cup {b}
    BY <1>1, <1>3, <1>9, UsedAdd DEF SlotOf
  <2>2. \A c \in InUseOf(s) : AllocSize(c)' = AllocSize(c)
    BY <1>5, <1>7, <1>8
  <2>3. Account(s, AllocSize(b)')
    BY <1>2, <1>6, <1>9 DEF Account
  <2>4. QED
    BY <1>2, <1>4, <1>5, <2>1, <2>2, <2>3, SlotGains
<1>10. CASE s # SlotOf(t)
  <2>1. InUseOf(s)' = InUseOf(s)
    BY <1>1, <1>3, <1>10, UsedAdd DEF SlotOf
  <2>2. \A c \in InUseOf(s) : AllocSize(c)' = AllocSize(c)
    BY <1>5, <1>7, <1>8
  <2>3. /\ requested'[s] = requested[s] /\ freed'[s] = freed[s] /\ hwm'[s] = hwm[s]
        /\ \A n \in UsrBins : /\ histoAllocs'[<<s, n>>] = histoAllocs[<<s, n>>]
                              /\ histoFrees'[<<s, n>>] = histoFrees[<<s, n>>]
    BY <1>2, <1>10 DEF Account, Inv, TypeInv, Histo
  <2>4. QED
    BY <2>1, <2>2, <2>3, SameSlot
<1>11. QED
  BY <1>9, <1>10

LEMMA PutKeepsSlots ==
  ASSUME Inv, Inv', NEW t \in Threads, PutFree(t) \/ PutDelay(t), NEW s \in Slots, SlotCount(s)
  PROVE  SlotCount(s)'
<1> DEFINE b == old[t]
<1>1. /\ headInUse' = [headInUse EXCEPT ![bin[t]] = @ \ {b}]
      /\ Discount(SlotOf(t), b) /\ pc[t] = "put"
  BY DEF PutFree, PutDelay, At
<1>2. /\ b \in Blocks /\ bin[t] \in MemBins /\ home[b] = bin[t] /\ b \in headInUse[bin[t]]
      /\ \A i \in MemBins : i # bin[t] => b \notin headInUse[i]
      /\ \A u \in Threads : blk[u] # b
  BY <1>1, PutBlock
<1>3. headInUse \in [MemBins -> SUBSET Blocks]
  BY DEF Inv, TypeInv
<1>4. \A c \in Blocks : AllocSize(c)' = AllocSize(c)
  <2>1. Step(t) /\ ~Take(t)
    BY <1>1 DEF Step, Take, At
  <2>2. QED
    BY <2>1, SizesKept
<1>5. AllocSize(b) = usrDataSize[b]
  BY <1>2, AllocSizeIs
<1> HIDE DEF b
<1>6. CASE s = SlotOf(t)
  <2>1. InUseOf(s)' = InUseOf(s) \ {b}
    BY <1>1, <1>2, <1>3, <1>6, UsedDrop DEF SlotOf
  <2>2. b \in InUseOf(s)
    BY <1>2, <1>6, UsedShape DEF SlotOf
  <2>3. Discount(s, b)
    BY <1>1, <1>6
  <2>4. QED
    BY <1>4, <1>5, <2>1, <2>2, <2>3, SlotLoses
<1>7. CASE s # SlotOf(t)
  <2>1. InUseOf(s)' = InUseOf(s)
    BY <1>1, <1>2, <1>3, <1>7, UsedDrop DEF SlotOf
  <2>2. \A c \in InUseOf(s) : AllocSize(c)' = AllocSize(c)
    BY <1>4, UsedShape
  <2>3. /\ requested'[s] = requested[s] /\ freed'[s] = freed[s] /\ hwm'[s] = hwm[s]
        /\ \A n \in UsrBins : /\ histoAllocs'[<<s, n>>] = histoAllocs[<<s, n>>]
                              /\ histoFrees'[<<s, n>>] = histoFrees[<<s, n>>]
    BY <1>1, <1>7 DEF Discount, Inv, TypeInv, Histo
  <2>4. QED
    BY <2>1, <2>2, <2>3, SameSlot
<1>8. QED
  BY <1>6, <1>7

LEMMA StepKeepsSlots ==
  ASSUME Inv, Inv', NEW t \in Threads, Call(t) \/ Step(t), NEW s \in Slots, SlotCount(s)
  PROVE  SlotCount(s)'
<1>1. CASE Take(t)
  BY <1>1, TakeKeepsSlots, StepIsLocal DEF Inv
<1>2. CASE PutFree(t) \/ PutDelay(t)
  BY <1>2, PutKeepsSlots
<1>3. CASE ~Take(t) /\ ~PutFree(t) /\ ~PutDelay(t)
  <2>1. UNCHANGED <<headInUse, requested, freed, hwm, histoAllocs, histoFrees>>
    BY <1>3 DEF Call, Malloc, Realloc, Free, Report, Step, LockSlot, Carve, CarveFails,
       CarveAborts, Check, Publish, Mark, LockFree, Batch, Delay, DumpSlot, DumpDone, slotStats
  <2>2. \A c \in Blocks : AllocSize(c)' = AllocSize(c)
    BY <1>3, SizesKept
  <2>3. InUseOf(s)' = InUseOf(s)
    BY <2>1 DEF InUseOf
  <2>4. \A c \in InUseOf(s) : AllocSize(c)' = AllocSize(c)
    BY <2>2, UsedShape
  <2>5. QED
    BY <2>1, <2>3, <2>4, SameSlot
<1>4. QED
  BY <1>1, <1>2, <1>3

LEMMA InitSlots == Init => \A s \in Slots : SlotCount(s)
<1> SUFFICES ASSUME Init, NEW s \in Slots PROVE SlotCount(s)
  OBVIOUS
<1>1. /\ requested[s] = 0 /\ freed[s] = 0 /\ hwm[s] = 0
      /\ \A n \in UsrBins : histoAllocs[<<s, n>>] = 0 /\ histoFrees[<<s, n>>] = 0
  BY DEF Init, Histo
<1>2. InUseOf(s) = {}
  BY DEF Init, InUseOf, MemBins
<1>3. \A n : UsedOf(s, n) = {}
  BY <1>2 DEF UsedOf
<1>4. QED
  BY <1>1, <1>2, <1>3, SumEmpty, FS_EmptySet DEF SlotCount

(* A slot's leaked bytes and its histogram describe the blocks in use, at  *)
(* every step of every thread: the size added under the lock is the one    *)
(* that the header will hold, and the one subtracted when it is freed.     *)
THEOREM SlotsAreCounted == Spec => []SlotCounters
<1>1. (\A s \in Slots : SlotCount(s)) => SlotCounters
  BY DEF SlotCount, UsedOf, AllocSizes, SlotCounters
<1>2. Inv /\ Inv' /\ (\A s \in Slots : SlotCount(s)) /\ [Next]_vars
        => (\A s \in Slots : SlotCount(s))'
  <2> SUFFICES ASSUME Inv, Inv', \A s \in Slots : SlotCount(s), [Next]_vars, NEW s \in Slots
               PROVE  SlotCount(s)'
    OBVIOUS
  <2>1. CASE UNCHANGED vars
    <3>1. UNCHANGED <<headInUse, requested, freed, hwm, histoAllocs, histoFrees,
                      usrDataSize, size, pc, blk>>
      BY <2>1 DEF vars, header, slotStats, request
    <3>2. InUseOf(s)' = InUseOf(s) /\ \A b : AllocSize(b)' = AllocSize(b)
      BY <3>1 DEF InUseOf, AllocSize
    <3>3. QED
      BY <3>1, <3>2, SameSlot
  <2>2. QED
    BY <2>1, StepKeepsSlots DEF Next, Gone
<1>3. Spec => [](\A s \in Slots : SlotCount(s))
  BY <1>2, InitSlots, Invariant, PTL DEF Spec
<1>4. QED
  BY <1>1, <1>3, PTL

(***************************************************************************)
(* With -d the delayed list of each slot is the quarantine of DelayQueue,  *)
(* whatever the threads do: the heap implements the same promise that the  *)
(* ring of DelayFree.c keeps for one thread.                               *)
(***************************************************************************)

(***************************************************************************)
(* The list has room when a block is put: delayPut has batched before.     *)
(***************************************************************************)
RoomOf(t) == pc[t] = "delay" => Len(delay[SlotOf(t)]) <= MaxDelayElms \div 2
RoomInv == \A t \in Threads : RoomOf(t)

(* Which steps change a delayed list: those of the thread with the lock. *)
LEMMA DelayEffect ==
  ASSUME NEW t \in Threads, Call(t) \/ Step(t), ~Batch(t), ~Delay(t)
  PROVE  UNCHANGED delay
BY DEF Call, Malloc, Realloc, Free, Report, Step, LockSlot, Carve, CarveFails, CarveAborts,
       Take, Check, Publish, Mark, LockFree, PutFree, PutDelay, DumpSlot, DumpDone

LEMMA DelayOfSlot ==
  ASSUME Inv, NEW t \in Threads, Call(t) \/ Step(t), NEW s \in Slots,
         Holds(t) => s # SlotOf(t)
  PROVE  delay'[s] = delay[s]
<1>1. delay \in [Slots -> Seq(Blocks)]
  BY DEF Inv, TypeInv
<1>2. CASE ~Batch(t) /\ ~Delay(t)
  BY <1>2, DelayEffect
<1>3. CASE Batch(t)
  <2>1. /\ pc[t] = "batch"
        /\ delay' = [delay EXCEPT ![SlotOf(t)] = Tail(@)] \/ UNCHANGED delay
    BY <1>3 DEF Batch, At
  <2>2. s # SlotOf(t)
    BY <2>1 DEF Holds
  <2>3. QED
    BY <1>1, <2>1, <2>2
<1>4. CASE Delay(t)
  <2>1. /\ pc[t] = "delay"
        /\ delay' = [delay EXCEPT ![SlotOf(t)] = Append(@, old[t])]
    BY <1>4 DEF Delay, At
  <2>2. s # SlotOf(t)
    BY <2>1 DEF Holds
  <2>3. QED
    BY <1>1, <2>1, <2>2
<1>5. QED
  BY <1>2, <1>3, <1>4

LEMMA RoomStep ==
  ASSUME Inv, RoomInv, NEW t \in Threads, Call(t) \/ Step(t)
  PROVE  RoomInv'
<1>1. OthersSame(t)
  BY StepIsLocal DEF Inv
<1>2. \A u \in Threads : pc[u] = "delay" => Holds(u) /\ SlotOf(u) \in Slots
  BY BinShape DEF Holds, Inv, PcInv, PcOf, UsesBin, SlotOf
<1>3. ASSUME NEW u \in Threads \ {t} PROVE RoomOf(u)'
  <2> SUFFICES ASSUME pc'[u] = "delay"
               PROVE  Len(delay'[SlotOf(u)']) <= MaxDelayElms \div 2
    BY DEF RoomOf
  <2>1. pc[u] = "delay" /\ SlotOf(u)' = SlotOf(u)
    BY <1>1 DEF OthersSame, SlotOf
  <2>2. Holds(t) => SlotOf(u) # SlotOf(t)
    BY <1>2, <2>1, Alone DEF Inv
  <2>3. delay'[SlotOf(u)] = delay[SlotOf(u)]
    BY <1>2, <2>1, <2>2, DelayOfSlot
  <2>4. QED
    BY <2>1, <2>3 DEF RoomInv, RoomOf
<1>4. RoomOf(t)'
  <2> SUFFICES ASSUME pc'[t] = "delay"
               PROVE  Len(delay'[SlotOf(t)']) <= MaxDelayElms \div 2
    BY DEF RoomOf
  <2>1. /\ pc \in [Threads -> Labels] /\ delay \in [Slots -> Seq(Blocks)]
        /\ after \in [Threads -> {"idle", "check", "abort"}]
    BY DEF Inv, TypeInv
  <2>2. PutDelay(t) \/ Batch(t)
    <3>1. CASE Call(t)
      BY <2>1, <3>1 DEF Call, Malloc, Realloc, Request, Free, Report, GoTo
    <3>2. CASE LockSlot(t) \/ LockFree(t) \/ Carve(t) \/ CarveAborts(t) \/ Mark(t)
      BY <2>1, <3>2 DEF LockSlot, LockFree, Carve, CarveAborts, Mark, GoTo
    <3>3. CASE CarveFails(t) \/ PutFree(t) \/ Delay(t)
      BY <2>1, <3>3 DEF CarveFails, PutFree, Delay, Return, GoTo
    <3>4. CASE Take(t) \/ Check(t)
      BY <2>1, <3>4 DEF Take, Check, GoTo
    <3>5. CASE Publish(t)
      BY <2>1, <3>5 DEF Publish, Return, GoTo
    <3>6. CASE DumpSlot(t) \/ DumpDone(t)
      BY <2>1, <3>6 DEF DumpSlot, DumpDone, GoTo, At
    <3>7. QED
      BY <3>1, <3>2, <3>3, <3>4, <3>5, <3>6 DEF Step
  <2>3. SlotOf(t)' = SlotOf(t)
    BY <2>2 DEF PutDelay, Batch, request, SlotOf
  <2>4. SlotOf(t) \in Slots
    BY <2>2, BinShape DEF PutDelay, Batch, At, Inv, PcInv, PcOf, UsesBin, SlotOf
  <2>5. Len(delay[SlotOf(t)]) \in Nat /\ MaxDelayElms \in Nat
    BY <2>1, <2>4, HeapAssumption
  <2>6. CASE PutDelay(t)
    <3>1. UNCHANGED delay /\ ~(Len(delay[SlotOf(t)]) > MaxDelayElms \div 2)
      BY <2>1, <2>6 DEF PutDelay, GoTo
    <3>2. QED
      BY <2>3, <2>5, <3>1
  <2>7. CASE Batch(t)
    <3>1. UNCHANGED delay /\ ~(Len(delay[SlotOf(t)]) > MaxDelayElms \div 4)
      BY <2>7 DEF Batch, At
    <3>2. QED
      BY <2>3, <2>5, <3>1
  <2>8. QED
    BY <2>2, <2>6, <2>7
<1>5. QED
  BY <1>3, <1>4 DEF RoomInv

LEMMA Room == Spec => []RoomInv
<1>1. Init => RoomInv
  BY DEF Init, RoomInv, RoomOf
<1>2. Inv /\ RoomInv /\ [Next]_vars => RoomInv'
  <2> SUFFICES ASSUME Inv, RoomInv, [Next]_vars PROVE RoomInv'
    OBVIOUS
  <2>1. CASE UNCHANGED vars
    BY <2>1 DEF vars, request, RoomInv, RoomOf, SlotOf
  <2>2. QED
    BY <2>1, RoomStep DEF Next, Gone
<1>3. QED
  BY <1>1, <1>2, Invariant, PTL DEF Spec

(***************************************************************************)
(* What the allocator may hand out, in the words of the heap.              *)
(***************************************************************************)
HandOf(s) == UNION {InHand(t) : t \in {u \in Threads : bin[u] # NoBin /\ SlotOf(u) = s}}
Avail(s) == Blocks \ (Delayed(s) \cup InUseOf(s) \cup HandOf(s))
QueueStep(s) == Quarantine(s)!Next \/ UNCHANGED <<delay[s], Quarantine(s)!vars>>

LEMMA HandShape ==
  ASSUME NEW s
  PROVE  /\ \A b : b \in HandOf(s) <=> \E u \in Threads :
                     bin[u] # NoBin /\ SlotOf(u) = s /\ pc[u] \in InHandPc /\ old[u] = b
         /\ \A b : b \in HandOf(s)' <=> \E u \in Threads :
                     bin'[u] # NoBin /\ SlotOf(u)' = s /\ pc'[u] \in InHandPc /\ old'[u] = b
<1>1. /\ \A u, b : b \in InHand(u) <=> pc[u] \in InHandPc /\ old[u] = b
      /\ \A u, b : b \in InHand(u)' <=> pc'[u] \in InHandPc /\ old'[u] = b
  BY DEF InHand, InHandPc
<1>2. \A b : b \in HandOf(s) <=> \E u \in Threads :
               bin[u] # NoBin /\ SlotOf(u) = s /\ b \in InHand(u)
  BY DEF HandOf
<1>3. \A b : b \in HandOf(s)' <=> \E u \in Threads :
               bin'[u] # NoBin /\ SlotOf(u)' = s /\ b \in InHand(u)'
  BY DEF HandOf
<1>4. QED
  BY <1>1, <1>2, <1>3

(* The hand of a slot changes with the thread that is in putBuf. *)
LEMMA HandSame ==
  ASSUME NEW t \in Threads, OthersSame(t), NEW s,
         ~(pc[t] \in InHandPc /\ SlotOf(t) = s), ~(pc'[t] \in InHandPc /\ SlotOf(t)' = s)
  PROVE  HandOf(s)' = HandOf(s)
<1>1. ASSUME NEW u \in Threads
      PROVE  bin'[u] # NoBin /\ SlotOf(u)' = s /\ pc'[u] \in InHandPc
               <=> bin[u] # NoBin /\ SlotOf(u) = s /\ pc[u] \in InHandPc
  BY DEF OthersSame, SlotOf
<1>2. ASSUME NEW u \in Threads, SlotOf(u) = s /\ pc[u] \in InHandPc PROVE old'[u] = old[u]
  BY <1>2 DEF OthersSame
<1>3. \A b : b \in HandOf(s)' <=> b \in HandOf(s)
  BY <1>1, <1>2, HandShape
<1>4. QED
  BY <1>3

(* A step that leaves the slot's lists alone is none of the queue's. *)
LEMMA QueueStutters ==
  ASSUME NEW s \in Slots, delay'[s] = delay[s], Avail(s)' = Avail(s)
  PROVE  QueueStep(s)
BY DEF QueueStep, Quarantine!vars, Avail, HandOf

(* Steps that neither free nor take a block. *)
LEMMA QuietQueue ==
  ASSUME Inv, NEW t \in Threads, NEW s \in Slots,
         \/ Call(t) \/ LockSlot(t) \/ Carve(t) \/ CarveFails(t) \/ CarveAborts(t)
         \/ Check(t) \/ Publish(t) \/ Mark(t) \/ LockFree(t) \/ DumpSlot(t) \/ DumpDone(t)
  PROVE  QueueStep(s)
<1>1. UNCHANGED <<delay, headInUse>>
  BY DEF Call, Malloc, Realloc, Free, Report, LockSlot, Carve, CarveFails, CarveAborts,
         Check, Publish, Mark, LockFree, DumpSlot, DumpDone
<1>2. HandOf(s)' = HandOf(s)
  <2>1. OthersSame(t)
    BY StepIsLocal DEF Inv, Step
  <2>2. QED
    BY <2>1, QuietHands, HandSame
<1>3. Avail(s)' = Avail(s)
  BY <1>1, <1>2 DEF Avail, Delayed, InUseOf
<1>4. QED
  BY <1>1, <1>3, QueueStutters

(* A step under another slot's lock. *)
LEMMA OtherQueue ==
  ASSUME Inv, NEW t \in Threads, Call(t) \/ Step(t), NEW s \in Slots, s # SlotOf(t),
         Take(t) \/ PutFree(t) \/ PutDelay(t) \/ Batch(t) \/ Delay(t)
  PROVE  QueueStep(s)
<1>1. delay'[s] = delay[s]
  BY DelayOfSlot
<1>2. InUseOf(s)' = InUseOf(s)
  <2>1. headInUse \in [MemBins -> SUBSET Blocks]
    BY DEF Inv, TypeInv
  <2>2. CASE Take(t)
    <3>1. PICK b \in headFree[bin[t]] : headInUse' = [headInUse EXCEPT ![bin[t]] = @ \cup {b}]
      BY <2>2 DEF Take
    <3>2. bin[t] \in MemBins
      BY <2>2 DEF Take, At, Inv, PcInv, PcOf, UsesBin
    <3>3. QED
      BY <2>1, <3>1, <3>2, UsedAdd DEF SlotOf
  <2>3. CASE PutFree(t) \/ PutDelay(t)
    <3>1. /\ headInUse' = [headInUse EXCEPT ![bin[t]] = @ \ {old[t]}]
          /\ pc[t] = "put"
      BY <2>3 DEF PutFree, PutDelay, At
    <3>2. bin[t] \in MemBins /\ \A i \in MemBins : i # bin[t] => old[t] \notin headInUse[i]
      BY <3>1, PutBlock
    <3>3. QED
      BY <2>1, <3>1, <3>2, UsedDrop DEF SlotOf
  <2>4. CASE Batch(t) \/ Delay(t)
    BY <2>4 DEF Batch, Delay, InUseOf
  <2>5. QED
    BY <2>2, <2>3, <2>4
<1>3. HandOf(s)' = HandOf(s)
  <2>1. OthersSame(t)
    BY StepIsLocal DEF Inv
  <2>2. SlotOf(t)' = SlotOf(t) \/ pc'[t] \notin InHandPc
    <3>1. CASE Take(t) \/ PutDelay(t) \/ Batch(t)
      BY <3>1 DEF Take, PutDelay, Batch, request, SlotOf
    <3>2. CASE PutFree(t) \/ Delay(t)
      BY <3>2 DEF PutFree, Delay, Return, GoTo, InHandPc, Inv, TypeInv
    <3>3. QED
      BY <3>1, <3>2
  <2>3. QED
    BY <2>1, <2>2, HandSame
<1>4. Avail(s)' = Avail(s)
  BY <1>1, <1>2, <1>3 DEF Avail, Delayed
<1>5. QED
  BY <1>1, <1>4, QueueStutters

(* getBuf: the queue hands a block out. *)
LEMMA TakeQueue ==
  ASSUME Inv, NEW t \in Threads, Take(t), NEW s \in Slots, s = SlotOf(t)
  PROVE  QueueStep(s)
<1>1. PICK b \in headFree[bin[t]] : headInUse' = [headInUse EXCEPT ![bin[t]] = @ \cup {b}]
  BY DEF Take
<1>2. UNCHANGED delay /\ pc[t] = "take"
  BY DEF Take, At
<1>3. /\ bin[t] \in MemBins /\ headInUse \in [MemBins -> SUBSET Blocks]
      /\ headFree \in [MemBins -> SUBSET Blocks]
  BY <1>2 DEF Inv, TypeInv, PcInv, PcOf, UsesBin
<1>4. /\ b \in Blocks /\ b \notin Delayed(s) /\ b \notin InUseOf(s) /\ b \notin HandOf(s)
  <2>1. b \in Blocks /\ PlaceOf(b)
    BY <1>3 DEF Inv, BlockInv, GoodBlock
  <2>2. home[b] = bin[t] /\ b \notin headInUse[home[b]] /\ b \notin Delayed(s)
    BY <1>3, <2>1 DEF PlaceOf
  <2>3. b \notin InUseOf(s)
    BY <2>2, UsedShape
  <2>4. b \notin HandOf(s)
    BY <1>3, <2>1, <2>2, HandShape DEF PlaceOf
  <2>5. QED
    BY <2>1, <2>2, <2>3, <2>4
<1>5. HandOf(s)' = HandOf(s)
  <2>1. OthersSame(t)
    BY StepIsLocal DEF Inv, Step
  <2>2. QED
    BY <2>1, QuietHands, HandSame
<1>6. InUseOf(s)' = InUseOf(s) \cup {b}
  BY <1>1, <1>3, UsedAdd DEF SlotOf
<1>7. b \in Avail(s) /\ Avail(s)' = Avail(s) \ {b}
  BY <1>2, <1>4, <1>5, <1>6 DEF Avail, Delayed
<1>8. Quarantine(s)!Reuse(b)
  BY <1>2, <1>7 DEF Quarantine!Reuse, Avail, HandOf
<1>9. QED
  BY <1>4, <1>8 DEF QueueStep, Quarantine!Next

(* putBuf: the block goes from the list in use into t's hand. *)
LEMMA PutDelayQueue ==
  ASSUME Inv, NEW t \in Threads, PutDelay(t), NEW s \in Slots, s = SlotOf(t)
  PROVE  QueueStep(s)
<1> DEFINE b == old[t]
<1>1. /\ headInUse' = [headInUse EXCEPT ![bin[t]] = @ \ {b}]
      /\ UNCHANGED <<delay, bin, old>> /\ pc[t] = "put"
  BY DEF PutDelay, At, request
<1>2. pc'[t] \in InHandPc /\ OthersSame(t)
  BY StepIsLocal DEF PutDelay, GoTo, InHandPc, Inv, TypeInv, Step
<1>3. /\ b \in Blocks /\ bin[t] \in MemBins /\ home[b] = bin[t] /\ b \in headInUse[bin[t]]
      /\ \A i \in MemBins : i # bin[t] => b \notin headInUse[i]
  BY <1>1, PutBlock
<1>4. InUseOf(s)' = InUseOf(s) \ {b} /\ b \in InUseOf(s)
  <2> HIDE DEF b
  <2>1. headInUse \in [MemBins -> SUBSET Blocks]
    BY DEF Inv, TypeInv
  <2>2. InUseOf(s)' = InUseOf(s) \ {b}
    BY <1>1, <1>3, <2>1, UsedDrop DEF SlotOf
  <2>3. home[b] \in MemBins /\ home[b][1] = s /\ b \in headInUse[home[b]]
    BY <1>3 DEF SlotOf
  <2>4. b \in InUseOf(s)
    BY <1>3, <2>3, UsedShape
  <2>5. QED
    BY <2>2, <2>4
<1>5. HandOf(s)' = HandOf(s) \cup {b}
  <2>1. \A u \in Threads \ {t} : /\ pc'[u] = pc[u] /\ bin'[u] = bin[u] /\ old'[u] = old[u]
                                 /\ SlotOf(u)' = SlotOf(u)
    BY <1>2 DEF OthersSame, SlotOf
  <2>2. bin'[t] # NoBin /\ SlotOf(t)' = s /\ old'[t] = b /\ pc[t] \notin InHandPc
    BY <1>1, <1>3, BinShape DEF SlotOf, InHandPc
  <2>3. \A c : c \in HandOf(s)' <=> c \in HandOf(s) \cup {b}
    <3>1. ASSUME NEW c, c \in HandOf(s)' PROVE c \in HandOf(s) \cup {b}
      BY <2>1, <2>2, <3>1, HandShape
    <3>2. ASSUME NEW c, c \in HandOf(s) PROVE c \in HandOf(s)'
      BY <2>1, <2>2, <3>2, HandShape
    <3>3. b \in HandOf(s)'
      BY <1>2, <2>2, HandShape
    <3>4. QED
      BY <3>1, <3>2, <3>3
  <2>4. QED
    BY <2>3
<1>6. Avail(s)' = Avail(s)
  BY <1>1, <1>4, <1>5 DEF Avail, Delayed
<1>7. QED
  BY <1>1, <1>6, QueueStutters

(* delayFreeBatch: the block that has waited longest is free again. *)
LEMMA BatchQueue ==
  ASSUME Inv, NEW t \in Threads, Batch(t), NEW s \in Slots, s = SlotOf(t)
  PROVE  QueueStep(s)
<1> DEFINE q == delay[s]
           b == Head(q)
<1>1. /\ UNCHANGED <<headInUse, bin, old>> /\ pc[t] = "batch"
      /\ \/ Len(q) > MaxDelayElms \div 4 /\ delay' = [delay EXCEPT ![s] = Tail(@)]
         \/ UNCHANGED delay
  BY DEF Batch, At, request
<1>2. pc'[t] \in InHandPc /\ OthersSame(t)
  BY <1>1, StepIsLocal DEF Batch, GoTo, InHandPc, Inv, TypeInv, Step
<1>3. HandOf(s)' = HandOf(s)
  <2>1. ASSUME NEW u \in Threads
        PROVE  /\ bin'[u] = bin[u] /\ old'[u] = old[u] /\ SlotOf(u)' = SlotOf(u)
               /\ pc'[u] \in InHandPc <=> pc[u] \in InHandPc
    BY <1>1, <1>2 DEF OthersSame, InHandPc, SlotOf
  <2>2. \A c : c \in HandOf(s)' <=> c \in HandOf(s)
    BY <2>1, HandShape
  <2>3. QED
    BY <2>2
<1>4. InUseOf(s)' = InUseOf(s)
  BY <1>1 DEF InUseOf
<1>5. CASE UNCHANGED delay
  <2>1. Avail(s)' = Avail(s)
    BY <1>3, <1>4, <1>5 DEF Avail, Delayed
  <2>2. QED
    BY <1>5, <2>1, QueueStutters
<1>6. CASE Len(q) > MaxDelayElms \div 4 /\ delay' = [delay EXCEPT ![s] = Tail(@)]
  <2>1. /\ delay \in [Slots -> Seq(Blocks)] /\ q \in Seq(Blocks)
        /\ \A j, k \in 1 .. Len(q) : j # k => q[j] # q[k]
    BY DEF Inv, TypeInv, BlockInv, OnceInv
  <2>2. Len(q) > 0
    BY <1>6, <2>1, HeapAssumption
  <2>3. delay'[s] = Tail(q)
    BY <1>6, <2>1
  <2>4. /\ b \in Blocks /\ b \in Delayed(s)
        /\ {Tail(q)[k] : k \in 1 .. Len(Tail(q))} = Delayed(s) \ {b}
    BY <2>1, <2>2, TailDelayed DEF Delayed
  <2> HIDE DEF b
  <2>5. Delayed(s)' = Delayed(s) \ {b}
    BY <2>3, <2>4 DEF Delayed
  <2>6. b \notin InUseOf(s) /\ b \notin HandOf(s)
    <3>1. PlaceOf(b)
      BY <2>4 DEF Inv, BlockInv, GoodBlock
    <3>2. home[b] \in MemBins /\ home[b][1] = s /\ b \notin headInUse[home[b]]
      BY <2>4, <3>1 DEF PlaceOf
    <3>3. b \notin InUseOf(s)
      BY <3>2, UsedShape
    <3>4. b \notin HandOf(s)
      BY <2>4, <3>1, <3>2, HandShape DEF PlaceOf
    <3>5. QED
      BY <3>3, <3>4
  <2>7. Avail(s)' = Avail(s) \cup {b}
    BY <1>3, <1>4, <2>4, <2>5, <2>6 DEF Avail
  <2>8. Quarantine(s)!Release
    BY <1>6, <2>3, <2>7 DEF Quarantine!Release, Avail, HandOf, b
  <2>9. QED
    BY <2>8 DEF QueueStep, Quarantine!Next
<1>7. QED
  BY <1>1, <1>5, <1>6

(* circPut: the block waits behind the others, and there is room for it. *)
LEMMA DelayQueueStep ==
  ASSUME Inv, RoomInv, NEW t \in Threads, Delay(t), NEW s \in Slots, s = SlotOf(t)
  PROVE  QueueStep(s)
<1> DEFINE q == delay[s]
           b == old[t]
<1>1. /\ UNCHANGED headInUse /\ pc[t] = "delay"
      /\ delay' = [delay EXCEPT ![s] = Append(@, b)]
  BY DEF Delay, At
<1>2. pc'[t] = "idle" /\ OthersSame(t)
  BY StepIsLocal DEF Delay, Return, GoTo, Inv, TypeInv, Step
<1>3. /\ b \in Blocks /\ bin[t] \in MemBins /\ home[b] = bin[t] /\ GoodBlock(b)
      /\ bin[t] # NoBin /\ home[b][1] = s
  BY <1>1, PutBlock, BinShape DEF Inv, BlockInv, SlotOf
<1>4. /\ b \notin InUseOf(s) /\ b \notin Delayed(s)
      /\ \A u \in Threads : old[u] = b => u = t
  <2>1. b \notin headInUse[home[b]] /\ b \notin Delayed(home[b][1])
    BY <1>1, <1>3 DEF GoodBlock, PlaceOf, InHandPc
  <2>2. b \notin InUseOf(s)
    BY <1>3, <2>1, UsedShape
  <2>3. \A u \in Threads : old[u] = b => u = t
    BY <1>3 DEF GoodBlock, OwnOf
  <2>4. QED
    BY <1>3, <2>1, <2>2, <2>3
<1>5. HandOf(s)' = HandOf(s) \ {b} /\ b \in HandOf(s)
  <2>1. \A u \in Threads \ {t} : /\ pc'[u] = pc[u] /\ bin'[u] = bin[u] /\ old'[u] = old[u]
                                 /\ SlotOf(u)' = SlotOf(u)
    BY <1>2 DEF OthersSame, SlotOf
  <2>2. pc'[t] \notin InHandPc /\ pc[t] \in InHandPc
    BY <1>1, <1>2 DEF InHandPc
  <2>3. ASSUME NEW c, c \in HandOf(s)' PROVE c \in HandOf(s) \ {b}
    BY <1>4, <2>1, <2>2, <2>3, HandShape
  <2>4. ASSUME NEW c, c \in HandOf(s), c # b PROVE c \in HandOf(s)'
    BY <2>1, <2>4, HandShape
  <2>5. b \in HandOf(s)
    BY <1>3, <2>2, HandShape
  <2>6. \A c : c \in HandOf(s)' <=> c \in HandOf(s) \ {b}
    BY <2>3, <2>4
  <2>7. QED
    BY <2>5, <2>6
<1>6. InUseOf(s)' = InUseOf(s)
  BY <1>1 DEF InUseOf
<1>7. delay \in [Slots -> Seq(Blocks)] /\ q \in Seq(Blocks)
  BY DEF Inv, TypeInv
<1>8. delay'[s] = Append(q, b)
  BY <1>1, <1>7
<1>9. Delayed(s)' = Delayed(s) \cup {b}
  BY <1>3, <1>7, <1>8, AppendDelayed DEF Delayed
<1>10. Avail(s)' = Avail(s)
  BY <1>5, <1>6, <1>9 DEF Avail
<1>11. b \notin Avail(s)
  BY <1>5 DEF Avail
<1>12. Len(q) < MaxDelayElms \div 2 + 1
  <2>1. Len(q) <= MaxDelayElms \div 2 /\ Len(q) \in Nat
    BY <1>1, <1>7 DEF RoomInv, RoomOf
  <2>2. MaxDelayElms \div 2 \in Nat
    BY HeapAssumption
  <2>3. QED
    BY <2>1, <2>2
<1>13. Quarantine(s)!Quarantine(b)
  BY <1>3, <1>4, <1>8, <1>10, <1>11, <1>12
     DEF Quarantine!Quarantine, Quarantine!Waiting, Avail, HandOf, Delayed
<1>14. QED
  BY <1>3, <1>13 DEF QueueStep, Quarantine!Next

LEMMA InitQueue == Init => \A s \in Slots : Quarantine(s)!Init
<1> SUFFICES ASSUME Init, NEW s \in Slots PROVE Quarantine(s)!Init
  OBVIOUS
<1>1. delay[s] = <<>> /\ pc = [t \in Threads |-> "idle"]
  BY DEF Init
<1>2. InUseOf(s) = {}
  BY DEF Init, InUseOf, MemBins
<1>3. Delayed(s) = {}
  BY <1>1 DEF Delayed
<1>4. HandOf(s) = {}
  BY <1>1, HandShape DEF InHandPc
<1>5. Avail(s) = Blocks
  BY <1>2, <1>3, <1>4 DEF Avail
<1>6. QED
  BY <1>1, <1>5 DEF Quarantine!Init, Avail, HandOf

LEMMA StepQueues ==
  ASSUME UseDelay, Inv, RoomInv, NEW t \in Threads, Call(t) \/ Step(t), NEW s \in Slots
  PROVE  QueueStep(s)
<1>1. ~PutFree(t)
  BY DEF PutFree
<1>2. QED
  BY <1>1, QuietQueue, OtherQueue, TakeQueue, PutDelayQueue, BatchQueue, DelayQueueStep DEF Step

(* With -d a freed block waits until MAX_DELAY_ELMS / 4 younger ones wait  *)
(* behind it, in every slot, in the order of the frees, however the calls  *)
(* of the threads mix, and the list never outgrows its bound.              *)
THEOREM SlotsQuarantine == UseDelay => (Spec => EverySlotQuarantines)
<1> SUFFICES ASSUME UseDelay PROVE Spec => EverySlotQuarantines
  OBVIOUS
<1>1. Inv /\ RoomInv /\ [Next]_vars =>
        [\A s \in Slots : Quarantine(s)!Next \/ UNCHANGED <<delay[s], Quarantine(s)!vars>>]_vars
  BY StepQueues DEF Next, Gone, QueueStep
<1>2. QED
  BY <1>1, InitQueue, Invariant, Room, PTL DEF Spec, EverySlotQuarantines
===============================================================================
