---------------------------- MODULE SlotHeap_proofs ---------------------------
(***************************************************************************)
(* The heap is correct for every number of threads, slots, bins and blocks.*)
(***************************************************************************)
EXTENDS SlotHeap, FiniteSetTheorems, SequenceTheorems, TLAPS

(***************************************************************************)
(* The inductive invariant, part by part.                                  *)
(***************************************************************************)
(* TypeOK, but for the sign of numFree, which follows in the end from what *)
(* it counts.                                                              *)
TypeInv ==
  /\ home \in [Blocks -> MemBins \cup {NoBin}]
  /\ magic \in [Blocks -> {"zero", "free", "inuse"}]
  /\ usrDataSize \in [Blocks -> Nat]
  /\ headFree \in [MemBins -> SUBSET Blocks] /\ headInUse \in [MemBins -> SUBSET Blocks]
  /\ numFree \in [MemBins -> Int]
  /\ allocs \in [MemBins -> Nat] /\ frees \in [MemBins -> Nat]
  /\ delay \in [Slots -> Seq(Blocks)]
  /\ requested \in [Slots -> Nat] /\ freed \in [Slots -> Nat]
  /\ hwm \in [Slots -> Nat] /\ lastDump \in [Slots -> Nat]
  /\ histoAllocs \in [Histo -> Nat] /\ histoFrees \in [Histo -> Nat]
  /\ lock \in [Slots -> Threads \cup {NoThread}]
  /\ fresh \subseteq Blocks /\ live \subseteq Blocks
  /\ gMutex \in Threads \cup {NoThread} /\ aborted \in BOOLEAN
  /\ pc \in [Threads -> Labels]
  /\ bin \in [Threads -> MemBins \cup {NoBin}] /\ size \in [Threads -> Nat]
  /\ blk \in [Threads -> Blocks \cup {NoBlock}]
  /\ old \in [Threads -> Blocks \cup {NoBlock}]
  /\ dumpAt \in [Threads -> 0 .. NumSlots]
  /\ after \in [Threads -> {"idle", "check", "abort"}]

(* What the locals of a call hold at each point of it. *)
UsesBin(t) ==
  \/ pc[t] \in {"lock", "carve", "take", "check", "publish",
                "lockFree", "put", "batch", "delay"}
  \/ pc[t] = "dump" /\ after[t] # "idle"
HasBlk(t) == \/ pc[t] \in {"check", "publish"}
             \/ pc[t] = "dump" /\ after[t] = "check"
Freeing(t) == pc[t] \in {"mark", "lockFree", "put", "batch", "delay"}

PcOf(t) ==
  /\ UsesBin(t) => bin[t] \in MemBins
  /\ pc[t] \in {"idle", "lock", "carve", "take"} => blk[t] = NoBlock
  /\ pc[t] = "idle" => old[t] = NoBlock
  /\ pc[t] = "dump" /\ after[t] = "idle" => blk[t] = NoBlock /\ old[t] = NoBlock
  /\ HasBlk(t) => blk[t] \in Blocks
  /\ Freeing(t) => old[t] \in Blocks
  /\ pc[t] \in {"lockFree", "put", "batch", "delay"} => bin[t] = home[old[t]]
PcInv == \A t \in Threads : PcOf(t)

(* Who holds a slot's lock. *)
LockOf(t) == Holds(t) => lock[SlotOf(t)] = t
LockInv == \A t \in Threads : LockOf(t)

(* Where block b is: in one place, on the lists of its own bin and slot. *)
InHandPc == {"batch", "delay"}
PlaceOf(b) ==
  /\ home[b] = NoBin <=> b \in fresh
  /\ \A i \in MemBins : b \in headFree[i] => home[b] = i /\ b \notin headInUse[i]
  /\ \A i \in MemBins : b \in headInUse[i] => home[b] = i
  /\ \A s \in Slots : b \in Delayed(s) =>
       /\ home[b] \in MemBins /\ home[b][1] = s
       /\ b \notin headFree[home[b]] /\ b \notin headInUse[home[b]]
  /\ \A t \in Threads : pc[t] \in InHandPc /\ old[t] = b =>
       /\ b \notin headFree[home[b]] /\ b \notin headInUse[home[b]]
       /\ b \notin Delayed(home[b][1])
  /\ b \notin fresh =>
       \/ b \in headFree[home[b]] \/ b \in headInUse[home[b]]
       \/ b \in Delayed(home[b][1])
       \/ \E t \in Threads : pc[t] \in InHandPc /\ old[t] = b

(* No block waits twice. *)
OnceInv == \A s \in Slots : \A j, k \in 1 .. Len(delay[s]) :
             j # k => delay[s][j] # delay[s][k]

(* Who owns block b: the caller, or one call as its new or its old block. *)
OwnOf(b) ==
  /\ b \in live =>
       /\ home[b] \in MemBins /\ b \in headInUse[home[b]]
       /\ \A u \in Threads : blk[u] # b /\ old[u] # b
  /\ \A t \in Threads : blk[t] = b =>
       /\ home[b] \in MemBins /\ b \in headInUse[home[b]]
       /\ \A u \in Threads : old[u] # b /\ (blk[u] = b => u = t)
  /\ \A t \in Threads : old[t] = b =>
       /\ home[b] \in MemBins
       /\ pc[t] \notin InHandPc => b \in headInUse[home[b]]
       /\ \A u \in Threads : old[u] = b => u = t
  /\ \A i \in MemBins : b \in headInUse[i] =>
       b \in live \/ \E t \in Threads : blk[t] = b \/ old[t] = b

(* What the magic word of block b says. *)
Marked == {"lockFree", "put", "batch", "delay"}
MagicOf(b) ==
  /\ b \in live => magic[b] = "inuse"
  /\ \A i \in MemBins : b \in headFree[i] => magic[b] = "free"
  /\ \A s \in Slots : b \in Delayed(s) => magic[b] = "free"
  /\ \A t \in Threads : blk[t] = b =>
       (HasBlk(t) => magic[b] = "free") /\ (Freeing(t) => magic[b] = "inuse")
  /\ \A t \in Threads : old[t] = b =>
       magic[b] = IF pc[t] \in Marked THEN "free" ELSE "inuse"

(* A bin found or made nonempty stays so until its block is taken. *)
TakeOf(t) == pc[t] = "take" => headFree[bin[t]] # {}
TakeInv == \A t \in Threads : TakeOf(t)

GoodBlock(b) == PlaceOf(b) /\ OwnOf(b) /\ MagicOf(b)
BlockInv == OnceInv /\ \A b \in Blocks : GoodBlock(b)
Inv == TypeInv /\ PcInv /\ LockInv /\ BlockInv /\ TakeInv

(***************************************************************************)
(* Lemmas about the data.                                                  *)
(***************************************************************************)
LEMMA BinShape ==
  /\ NoBin \notin MemBins
  /\ \A i \in MemBins : i[1] \in Slots
BY DEF NoBin, MemBins

(* Appending to a delayed list adds a block to it. *)
LEMMA AppendDelayed ==
  ASSUME NEW q \in Seq(Blocks), NEW b \in Blocks
  PROVE  /\ Append(q, b) \in Seq(Blocks)
         /\ {Append(q, b)[k] : k \in 1 .. Len(Append(q, b))}
              = {q[k] : k \in 1 .. Len(q)} \cup {b}
<1>1. /\ Len(q) \in Nat /\ Len(Append(q, b)) = Len(q) + 1
      /\ \A k \in 1 .. Len(q) : Append(q, b)[k] = q[k]
      /\ Append(q, b)[Len(q) + 1] = b
      /\ Append(q, b) \in Seq(Blocks)
  BY AppendProperties
<1>2. \A k \in 1 .. Len(q) : k \in 1 .. Len(q) + 1
  BY <1>1
<1>3. Len(q) + 1 \in 1 .. Len(q) + 1
  BY <1>1
<1>4. \A k \in 1 .. Len(q) + 1 : k = Len(q) + 1 \/ k \in 1 .. Len(q)
  BY <1>1
<1>5. QED
  BY <1>1, <1>2, <1>3, <1>4

LEMMA TailDelayed ==
  ASSUME NEW q \in Seq(Blocks), Len(q) > 0,
         \A j, k \in 1 .. Len(q) : j # k => q[j] # q[k]
  PROVE  /\ Tail(q) \in Seq(Blocks) /\ Head(q) \in Blocks
         /\ Head(q) \in {q[k] : k \in 1 .. Len(q)}
         /\ {Tail(q)[k] : k \in 1 .. Len(Tail(q))}
              = {q[k] : k \in 1 .. Len(q)} \ {Head(q)}
         /\ \A j, k \in 1 .. Len(Tail(q)) : j # k => Tail(q)[j] # Tail(q)[k]
<1>1. /\ Len(q) \in Nat /\ q # <<>> /\ Head(q) = q[1]
      /\ Tail(q) \in Seq(Blocks) /\ Len(Tail(q)) = Len(q) - 1
      /\ \A k \in 1 .. Len(Tail(q)) : Tail(q)[k] = q[k + 1]
  BY HeadTailProperties, EmptySeq
<1>2. \A k \in 1 .. Len(q) - 1 : k + 1 \in 1 .. Len(q) /\ k + 1 # 1
  BY <1>1
<1>3. \A k \in 1 .. Len(q) : k = 1 \/ (k - 1 \in 1 .. Len(q) - 1 /\ (k - 1) + 1 = k)
  BY <1>1
<1>4. 1 \in 1 .. Len(q)
  BY <1>1
<1>5. Head(q) \in Blocks /\ Head(q) \in {q[k] : k \in 1 .. Len(q)}
  BY <1>1, <1>4
<1>6. {Tail(q)[k] : k \in 1 .. Len(Tail(q))} = {q[k] : k \in 1 .. Len(q)} \ {Head(q)}
  BY <1>1, <1>2, <1>3, <1>4
<1>7. \A j, k \in 1 .. Len(Tail(q)) : j # k => Tail(q)[j] # Tail(q)[k]
  BY <1>1, <1>2
<1>8. QED
  BY <1>1, <1>5, <1>6, <1>7
(* The locals of every thread but t are as they were. *)
OthersSame(t) ==
  \A u \in Threads \ {t} :
    /\ pc'[u] = pc[u] /\ bin'[u] = bin[u] /\ size'[u] = size[u]
    /\ blk'[u] = blk[u] /\ old'[u] = old[u] /\ after'[u] = after[u]

(* A thread holds the lock of its slot alone. *)
LEMMA Alone ==
  ASSUME LockInv, NEW t \in Threads, NEW u \in Threads,
         Holds(t), Holds(u), SlotOf(t) = SlotOf(u)
  PROVE  t = u
BY DEF LockInv, LockOf

(* A step of t leaves the locals of the other threads alone. *)
LEMMA StepIsLocal ==
  ASSUME TypeInv, NEW t \in Threads, Call(t) \/ Step(t)
  PROVE  OthersSame(t)
<1>1. CASE Call(t)
  <2>1. ASSUME NEW n \in Sizes, Malloc(t, n) PROVE OthersSame(t)
    BY <2>1 DEF OthersSame, TypeInv, Malloc, Request, GoTo, dumping
  <2>2. ASSUME NEW n \in Sizes, NEW b \in live, Realloc(t, b, n) PROVE OthersSame(t)
    BY <2>2 DEF OthersSame, TypeInv, Realloc, Request, GoTo, dumping
  <2>3. ASSUME NEW b \in live, Free(t, b) PROVE OthersSame(t)
    BY <2>3 DEF OthersSame, TypeInv, Free, GoTo, dumping
  <2>4. CASE Report(t)
    BY <2>4 DEF OthersSame, TypeInv, Report, GoTo, request
  <2>5. QED
    BY <1>1, <2>1, <2>2, <2>3, <2>4 DEF Call
<1>2. CASE LockSlot(t) \/ LockFree(t)
  BY <1>2 DEF OthersSame, TypeInv, LockSlot, LockFree, GoTo, request, dumping
<1>3. CASE Carve(t) \/ PutDelay(t)
  BY <1>3 DEF OthersSame, TypeInv, Carve, PutDelay, GoTo, request, dumping
<1>4. CASE CarveFails(t)
  BY <1>4 DEF OthersSame, TypeInv, CarveFails, Return, GoTo, dumping
<1>5. CASE CarveAborts(t)
  BY <1>5 DEF OthersSame, TypeInv, CarveAborts, GoTo, request
<1>6. CASE Take(t)
  <2>1. /\ \/ GoTo(t, "dump") /\ after' = [after EXCEPT ![t] = "check"]
           \/ GoTo(t, "check") /\ UNCHANGED after
        /\ \E b : blk' = [blk EXCEPT ![t] = b]
        /\ UNCHANGED <<bin, size, old>>
    BY <1>6 DEF Take, dumping
  <2>2. QED
    BY <2>1 DEF OthersSame, TypeInv, GoTo
<1>7. CASE Check(t)
  BY <1>7 DEF OthersSame, TypeInv, Check, GoTo, request, dumping
<1>8. CASE Publish(t)
  BY <1>8 DEF OthersSame, TypeInv, Publish, Return, GoTo, request, dumping
<1>9. CASE Mark(t)
  BY <1>9 DEF OthersSame, TypeInv, Mark, GoTo, dumping
<1>10. CASE PutFree(t) \/ Delay(t)
  BY <1>10 DEF OthersSame, TypeInv, PutFree, Delay, Return, GoTo, dumping
<1>11. CASE Batch(t)
  BY <1>11 DEF OthersSame, TypeInv, Batch, GoTo, request, dumping
<1>12. CASE DumpSlot(t) \/ DumpDone(t)
  BY <1>12 DEF OthersSame, TypeInv, DumpSlot, DumpDone, GoTo, request, dumping
<1>13. QED
  BY <1>1, <1>2, <1>3, <1>4, <1>5, <1>6, <1>7, <1>8, <1>9, <1>10, <1>11, <1>12 DEF Step

(***************************************************************************)
(* Types.                                                                  *)
(***************************************************************************)
LEMMA UpdateType ==
  ASSUME NEW S, NEW T, NEW f \in [S -> T], NEW x, NEW v \in T
  PROVE  [f EXCEPT ![x] = v] \in [S -> T]
OBVIOUS

LEMMA SlotPicked ==
  ASSUME NEW n \in Sizes, NEW s \in PickSlot(n)
  PROVE  s \in Slots /\ <<s, BinOf[n]>> \in MemBins
<1>1. 0 \in Slots
  BY HeapAssumption DEF Slots
<1>2. s \in Slots
  BY <1>1 DEF PickSlot
<1>3. QED
  BY <1>2, HeapAssumption DEF MemBins

LEMMA GoToType ==
  ASSUME TypeInv, NEW t, NEW l \in Labels, GoTo(t, l)
  PROVE  pc' \in [Threads -> Labels]
<1>1. pc \in [Threads -> Labels]
  BY DEF TypeInv
<1>2. QED
  BY <1>1 DEF GoTo

LEMMA LockType ==
  ASSUME TypeInv, NEW s, NEW t \in Threads, Acquire(s, t) \/ Unlock(s)
  PROVE  lock' \in [Slots -> Threads \cup {NoThread}]
<1>1. lock \in [Slots -> Threads \cup {NoThread}]
  BY DEF TypeInv
<1>2. QED
  BY <1>1 DEF Acquire, Unlock

LEMMA DumpType ==
  ASSUME TypeInv, NEW t, NEW l \in {"idle", "check", "abort"},
         dumpAt' = [dumpAt EXCEPT ![t] = 0], after' = [after EXCEPT ![t] = l]
  PROVE  /\ dumpAt' \in [Threads -> 0 .. NumSlots]
         /\ after' \in [Threads -> {"idle", "check", "abort"}]
<1>1. 0 \in 0 .. NumSlots
  BY HeapAssumption
<1>2. /\ dumpAt \in [Threads -> 0 .. NumSlots]
      /\ after \in [Threads -> {"idle", "check", "abort"}]
  BY DEF TypeInv
<1>3. QED
  BY <1>1, <1>2

(* What a returned call leaves in its locals. *)
LEMMA ReturnType ==
  ASSUME TypeInv, NEW t \in Threads, NEW b \in Blocks \cup {NoBlock}, Return(t, {b})
  PROVE  /\ live' \subseteq Blocks
         /\ pc' \in [Threads -> Labels]
         /\ bin' \in [Threads -> MemBins \cup {NoBin}] /\ size' \in [Threads -> Nat]
         /\ blk' \in [Threads -> Blocks \cup {NoBlock}]
         /\ old' \in [Threads -> Blocks \cup {NoBlock}]
<1>1. pc' \in [Threads -> Labels]
  BY GoToType DEF Return, Labels
<1>2. /\ live \subseteq Blocks
      /\ bin \in [Threads -> MemBins \cup {NoBin}] /\ size \in [Threads -> Nat]
      /\ blk \in [Threads -> Blocks \cup {NoBlock}]
      /\ old \in [Threads -> Blocks \cup {NoBlock}]
  BY DEF TypeInv
<1>3. QED
  BY <1>1, <1>2 DEF Return

LEMMA RequestType ==
  ASSUME TypeInv, NEW t \in Threads, NEW n \in Sizes, NEW s \in PickSlot(n),
         Request(t, n, s)
  PROVE  /\ pc' \in [Threads -> Labels]
         /\ bin' \in [Threads -> MemBins \cup {NoBin}] /\ size' \in [Threads -> Nat]
<1>1. pc' \in [Threads -> Labels]
  BY GoToType DEF Request, Labels
<1>2. <<s, BinOf[n]>> \in MemBins /\ n \in Nat
  BY SlotPicked, HeapAssumption
<1>3. bin \in [Threads -> MemBins \cup {NoBin}] /\ size \in [Threads -> Nat]
  BY DEF TypeInv
<1>4. QED
  BY <1>1, <1>2, <1>3 DEF Request

LEMMA CallTypes ==
  ASSUME TypeInv, NEW t \in Threads, Call(t)
  PROVE  TypeInv'
<1>1. ASSUME NEW n \in Sizes, Malloc(t, n) PROVE TypeInv'
  <2>1. PICK s \in PickSlot(n) : Request(t, n, s)
    BY <1>1 DEF Malloc
  <2>2. QED
    BY <1>1, <2>1, RequestType
       DEF TypeInv, Malloc, header, freeLists, binStats, slotStats, dumping
<1>2. ASSUME NEW n \in Sizes, NEW b \in live, Realloc(t, b, n) PROVE TypeInv'
  <2>1. PICK s \in PickSlot(n) : Request(t, n, s)
    BY <1>2 DEF Realloc
  <2>2. live' \subseteq Blocks /\ old' \in [Threads -> Blocks \cup {NoBlock}]
    BY <1>2 DEF Realloc, TypeInv
  <2>3. QED
    BY <1>2, <2>1, <2>2, RequestType
       DEF TypeInv, Realloc, header, freeLists, binStats, slotStats, dumping
<1>3. ASSUME NEW b \in live, Free(t, b) PROVE TypeInv'
  <2>1. live' \subseteq Blocks /\ old' \in [Threads -> Blocks \cup {NoBlock}]
    BY <1>3 DEF Free, TypeInv
  <2>2. pc' \in [Threads -> Labels]
    BY <1>3, GoToType DEF Free, Labels
  <2>3. QED
    BY <1>3, <2>1, <2>2
       DEF TypeInv, Free, header, freeLists, binStats, slotStats, dumping
<1>4. CASE Report(t)
  <2>1. pc' \in [Threads -> Labels]
    BY <1>4, GoToType DEF Report, Labels
  <2>2. QED
    BY <1>4, <2>1, DumpType
       DEF TypeInv, Report, header, freeLists, binStats, slotStats, request
<1>5. QED
  BY <1>1, <1>2, <1>3, <1>4 DEF Call

(* The steps that change no list. *)
LEMMA ControlTypes ==
  ASSUME TypeInv, PcInv, NEW t \in Threads,
         \/ LockSlot(t) \/ CarveFails(t) \/ CarveAborts(t) \/ Check(t) \/ Publish(t)
         \/ Mark(t) \/ LockFree(t) \/ DumpSlot(t) \/ DumpDone(t)
  PROVE  TypeInv'
<1>1. CASE LockSlot(t) \/ LockFree(t)
  <2>1. PICK l \in {"carve", "take", "put"} : GoTo(t, l)
    BY <1>1 DEF LockSlot, LockFree
  <2>2. pc' \in [Threads -> Labels]
    BY <2>1, GoToType DEF Labels
  <2>3. lock' \in [Slots -> Threads \cup {NoThread}]
    BY <1>1, LockType DEF LockSlot, LockFree
  <2>4. QED
    BY <1>1, <2>2, <2>3 DEF TypeInv, LockSlot, LockFree, header, freeLists, binStats,
                            slotStats, request, dumping
<1>2. CASE CarveFails(t)
  <2>1. old[t] \in Blocks \cup {NoBlock} /\ Return(t, {old[t]})
    BY <1>2 DEF TypeInv, CarveFails
  <2>2. aborted' \in BOOLEAN /\ Unlock(SlotOf(t))
    BY <1>2 DEF CarveFails
  <2>3. QED
    BY <1>2, <2>1, <2>2, ReturnType, LockType
       DEF TypeInv, CarveFails, header, freeLists, binStats, slotStats, dumping
<1>3. CASE CarveAborts(t)
  <2>1. pc' \in [Threads -> Labels]
    BY <1>3, GoToType DEF CarveAborts, Labels
  <2>2. QED
    BY <1>3, <2>1, DumpType DEF TypeInv, CarveAborts, header, freeLists, binStats,
                                slotStats, request
<1>4. CASE Check(t)
  <2>1. PICK l \in {"dump", "publish"} : GoTo(t, l)
    BY <1>4 DEF Check
  <2>2. pc' \in [Threads -> Labels]
    BY <2>1, GoToType DEF Labels
  <2>3. /\ lock' \in [Slots -> Threads \cup {NoThread}]
        /\ dumpAt' \in [Threads -> 0 .. NumSlots]
        /\ after' \in [Threads -> {"idle", "check", "abort"}]
    <3>1. CASE requested[SlotOf(t)] > MaxRequestedBytes
      BY <1>4, <3>1, DumpType DEF Check, TypeInv
    <3>2. CASE ~(requested[SlotOf(t)] > MaxRequestedBytes)
      BY <1>4, <3>2, LockType DEF Check, TypeInv, dumping
    <3>3. QED
      BY <3>1, <3>2
  <2>4. QED
    BY <1>4, <2>2, <2>3 DEF TypeInv, Check, header, freeLists, binStats, slotStats,
                            request
<1>5. CASE Publish(t)
  <2>1. blk[t] \in Blocks /\ size[t] \in Nat
    BY <1>5 DEF Publish, At, PcInv, PcOf, HasBlk, TypeInv
  <2>2. /\ magic' \in [Blocks -> {"zero", "free", "inuse"}]
        /\ usrDataSize' \in [Blocks -> Nat]
    BY <1>5, <2>1 DEF TypeInv, Publish
  <2>3. /\ live' \subseteq Blocks
        /\ pc' \in [Threads -> Labels]
        /\ bin' \in [Threads -> MemBins \cup {NoBin}] /\ size' \in [Threads -> Nat]
        /\ blk' \in [Threads -> Blocks \cup {NoBlock}]
        /\ old' \in [Threads -> Blocks \cup {NoBlock}]
    <3>1. CASE old[t] = NoBlock
      BY <1>5, <2>1, <3>1, ReturnType DEF Publish
    <3>2. CASE old[t] # NoBlock
      <4>1. pc' \in [Threads -> Labels]
        BY <1>5, <3>2, GoToType DEF Publish, Labels
      <4>2. QED
        BY <1>5, <3>2, <4>1 DEF Publish, request, TypeInv
    <3>3. QED
      BY <3>1, <3>2
  <2>4. QED
    BY <1>5, <2>2, <2>3 DEF TypeInv, Publish, freeLists, binStats, slotStats, dumping
<1>6. CASE Mark(t)
  <2>1. old[t] \in Blocks
    BY <1>6 DEF Mark, At, PcInv, PcOf, Freeing
  <2>2. /\ magic' \in [Blocks -> {"zero", "free", "inuse"}]
        /\ bin' \in [Threads -> MemBins \cup {NoBin}]
    BY <1>6, <2>1 DEF TypeInv, Mark
  <2>3. pc' \in [Threads -> Labels]
    BY <1>6, GoToType DEF Mark, Labels
  <2>4. QED
    BY <1>6, <2>2, <2>3 DEF TypeInv, Mark, freeLists, binStats, slotStats, dumping
<1>7. CASE DumpSlot(t)
  <2>1. dumpAt[t] + 1 \in 0 .. NumSlots /\ dumpAt \in [Threads -> 0 .. NumSlots]
    BY <1>7, HeapAssumption DEF DumpSlot, TypeInv
  <2>2. dumpAt' \in [Threads -> 0 .. NumSlots]
    BY <1>7, <2>1 DEF DumpSlot
  <2>3. QED
    BY <1>7, <2>2 DEF TypeInv, DumpSlot, header, freeLists, binStats, slotStats, request
<1>8. CASE DumpDone(t)
  <2>1. /\ dumpAt' \in [Threads -> 0 .. NumSlots]
        /\ after' \in [Threads -> {"idle", "check", "abort"}]
        /\ pc' \in [Threads -> Labels] /\ aborted' \in BOOLEAN
    <3>1. CASE after[t] = "abort"
      BY <1>8, <3>1 DEF TypeInv, DumpDone, dumping
    <3>2. CASE after[t] # "abort"
      <4>1. after[t] \in Labels
        BY <3>2 DEF TypeInv, Labels
      <4>2. GoTo(t, after[t]) /\ UNCHANGED aborted
        BY <1>8, <3>2 DEF DumpDone
      <4>3. pc' \in [Threads -> Labels]
        BY <4>1, <4>2, GoToType
      <4>4. QED
        BY <1>8, <3>2, <4>2, <4>3, DumpType DEF DumpDone, TypeInv
    <3>3. QED
      BY <3>1, <3>2
  <2>2. QED
    BY <1>8, <2>1 DEF TypeInv, DumpDone, header, freeLists, binStats, slotStats, request
<1>9. QED
  BY <1>1, <1>2, <1>3, <1>4, <1>5, <1>6, <1>7, <1>8

(* A counter that a step adds to stays a number. *)
LEMMA CounterType ==
  ASSUME NEW S, NEW x, NEW d \in Nat
  PROVE  /\ \A f \in [S -> Int] : [f EXCEPT ![x] = @ + d] \in [S -> Int]
         /\ \A f \in [S -> Nat] : [f EXCEPT ![x] = @ + d] \in [S -> Nat]
<1>1. CASE x \in S
  BY <1>1
<1>2. CASE x \notin S
  BY <1>2
<1>3. QED
  BY <1>1, <1>2

LEMMA CarveTypes ==
  ASSUME TypeInv, PcInv, NEW t \in Threads, Carve(t)
  PROVE  TypeInv'
<1>1. bin[t] \in MemBins
  BY DEF PcInv, PcOf, UsesBin, Carve, At
<1>2. PICK b \in fresh :
        /\ fresh' = fresh \ {b}
        /\ home' = [home EXCEPT ![b] = bin[t]]
        /\ magic' = [magic EXCEPT ![b] = "free"]
        /\ headFree' = [headFree EXCEPT ![bin[t]] = @ \cup {b}]
  BY DEF Carve
<1>3. /\ fresh \subseteq Blocks /\ home \in [Blocks -> MemBins \cup {NoBin}]
      /\ magic \in [Blocks -> {"zero", "free", "inuse"}]
      /\ headFree \in [MemBins -> SUBSET Blocks] /\ numFree \in [MemBins -> Int]
  BY DEF TypeInv
<1>4. /\ fresh' \subseteq Blocks /\ home' \in [Blocks -> MemBins \cup {NoBin}]
      /\ magic' \in [Blocks -> {"zero", "free", "inuse"}]
      /\ headFree' \in [MemBins -> SUBSET Blocks]
  BY <1>1, <1>2, <1>3
<1>5. numFree' = [numFree EXCEPT ![bin[t]] = @ + 1]
  BY DEF Carve
<1>6. numFree' \in [MemBins -> Int]
  BY <1>1, <1>3, <1>5
<1>7. PICK l \in {"carve", "take"} : GoTo(t, l)
  BY DEF Carve
<1>8. pc' \in [Threads -> Labels]
  BY <1>7, GoToType DEF Labels
<1>9. QED
  BY <1>4, <1>6, <1>8 DEF TypeInv, Carve, binStats, slotStats, request, dumping

LEMMA AccountType ==
  ASSUME TypeInv, NEW s \in Slots, NEW n \in Nat, Account(s, n)
  PROVE  /\ requested' \in [Slots -> Nat] /\ hwm' \in [Slots -> Nat]
         /\ histoAllocs' \in [Histo -> Nat]
<1>1. /\ requested \in [Slots -> Nat] /\ hwm \in [Slots -> Nat]
      /\ freed \in [Slots -> Nat] /\ histoAllocs \in [Histo -> Nat]
  BY DEF TypeInv
<1>2. requested' = [requested EXCEPT ![s] = @ + n] /\ requested[s] + n \in Nat
  BY <1>1 DEF Account
<1>3. MaxOf(hwm[s], requested[s] + n - freed[s]) \in Nat
  BY <1>1 DEF MaxOf
<1>4. hwm' = [hwm EXCEPT ![s] = MaxOf(@, requested[s] + n - freed[s])]
  BY DEF Account
<1>5. histoAllocs' = [histoAllocs EXCEPT ![<<s, UsrBin(n)>>] = @ + 1]
  BY DEF Account
<1>6. histoAllocs' \in [Histo -> Nat]
  BY <1>1, <1>5, CounterType
<1>7. hwm' \in [Slots -> Nat]
  BY <1>1, <1>3, <1>4
<1>8. requested' \in [Slots -> Nat]
  BY <1>1, <1>2
<1>9. QED
  BY <1>6, <1>7, <1>8

LEMMA DiscountType ==
  ASSUME TypeInv, NEW s \in Slots, NEW b \in Blocks, Discount(s, b)
  PROVE  /\ requested' \in [Slots -> Nat] /\ freed' \in [Slots -> Nat]
         /\ hwm' \in [Slots -> Nat] /\ lastDump' \in [Slots -> Nat]
         /\ histoAllocs' \in [Histo -> Nat] /\ histoFrees' \in [Histo -> Nat]
<1>1. /\ freed \in [Slots -> Nat] /\ histoFrees \in [Histo -> Nat]
      /\ usrDataSize[b] \in Nat
  BY DEF TypeInv
<1>2. freed' = [freed EXCEPT ![s] = @ + usrDataSize[b]]
  BY DEF Discount
<1>3. histoFrees' = [histoFrees EXCEPT ![<<s, UsrBin(usrDataSize[b])>>] = @ + 1]
  BY DEF Discount
<1>4. freed' \in [Slots -> Nat]
  BY <1>1, <1>2
<1>5. histoFrees' \in [Histo -> Nat]
  BY <1>1, <1>3, CounterType
<1>6. QED
  BY <1>4, <1>5 DEF Discount, TypeInv

LEMMA ToFreeType ==
  ASSUME TypeInv, NEW b \in Blocks, ToFree(b)
  PROVE  headFree' \in [MemBins -> SUBSET Blocks] /\ numFree' \in [MemBins -> Int]
<1>1. headFree \in [MemBins -> SUBSET Blocks] /\ numFree \in [MemBins -> Int]
  BY DEF TypeInv
<1>2. /\ headFree' = [headFree EXCEPT ![home[b]] = @ \cup {b}]
      /\ numFree' = [numFree EXCEPT ![home[b]] = @ + 1]
  BY DEF ToFree
<1>3. numFree' \in [MemBins -> Int]
  BY <1>1, <1>2, CounterType
<1>4. headFree' \in [MemBins -> SUBSET Blocks]
  BY <1>1, <1>2
<1>5. QED
  BY <1>3, <1>4

LEMMA TakeTypes ==
  ASSUME TypeInv, PcInv, NEW t \in Threads, Take(t)
  PROVE  TypeInv'
<1>1. bin[t] \in MemBins
  BY DEF PcInv, PcOf, UsesBin, Take, At
<1>2. SlotOf(t) \in Slots /\ size[t] \in Nat
  BY <1>1, BinShape DEF SlotOf, TypeInv
<1>3. PICK b \in headFree[bin[t]] :
        /\ headFree' = [headFree EXCEPT ![bin[t]] = @ \ {b}]
        /\ headInUse' = [headInUse EXCEPT ![bin[t]] = @ \cup {b}]
        /\ blk' = [blk EXCEPT ![t] = b]
  BY DEF Take
<1>4. /\ headFree \in [MemBins -> SUBSET Blocks]
      /\ headInUse \in [MemBins -> SUBSET Blocks]
      /\ blk \in [Threads -> Blocks \cup {NoBlock}]
  BY DEF TypeInv
<1>5. /\ headFree' \in [MemBins -> SUBSET Blocks]
      /\ headInUse' \in [MemBins -> SUBSET Blocks]
      /\ blk' \in [Threads -> Blocks \cup {NoBlock}]
  BY <1>1, <1>3, <1>4
<1>6. /\ numFree' = [numFree EXCEPT ![bin[t]] = @ - 1]
      /\ allocs' = [allocs EXCEPT ![bin[t]] = @ + 1]
      /\ Account(SlotOf(t), size[t])
  BY DEF Take
<1>7. numFree' \in [MemBins -> Int] /\ allocs' \in [MemBins -> Nat]
  <2>1. numFree \in [MemBins -> Int] /\ allocs \in [MemBins -> Nat]
    BY DEF TypeInv
  <2>2. QED
    BY <1>1, <1>6, <2>1
<1>8. /\ requested' \in [Slots -> Nat] /\ hwm' \in [Slots -> Nat]
      /\ histoAllocs' \in [Histo -> Nat]
  BY <1>2, <1>6, AccountType
<1>9. /\ lastDump' \in [Slots -> Nat] /\ pc' \in [Threads -> Labels]
      /\ dumpAt' \in [Threads -> 0 .. NumSlots]
      /\ after' \in [Threads -> {"idle", "check", "abort"}]
  <2>1. CASE MustDump(SlotOf(t))
    <3>1. /\ lastDump' = [lastDump EXCEPT ![SlotOf(t)] = hwm'[SlotOf(t)]]
          /\ GoTo(t, "dump")
          /\ dumpAt' = [dumpAt EXCEPT ![t] = 0]
          /\ after' = [after EXCEPT ![t] = "check"]
      BY <2>1 DEF Take
    <3>2. hwm'[SlotOf(t)] \in Nat /\ lastDump \in [Slots -> Nat]
      BY <1>2, <1>8 DEF TypeInv
    <3>3. lastDump' \in [Slots -> Nat]
      BY <3>1, <3>2
    <3>4. pc' \in [Threads -> Labels]
      BY <3>1, GoToType DEF Labels
    <3>5. QED
      BY <3>1, <3>3, <3>4, DumpType
  <2>2. CASE ~MustDump(SlotOf(t))
    <3>1. GoTo(t, "check") /\ UNCHANGED <<lastDump, dumping>>
      BY <2>2 DEF Take
    <3>2. pc' \in [Threads -> Labels]
      BY <3>1, GoToType DEF Labels
    <3>3. QED
      BY <3>1, <3>2 DEF TypeInv, dumping
  <2>3. QED
    BY <2>1, <2>2
<1>10. UNCHANGED <<header, frees, delay, freed, histoFrees, lock, fresh, gMutex, live,
                   aborted, bin, size, old>>
  BY DEF Take
<1>11. QED
  BY <1>5, <1>7, <1>8, <1>9, <1>10 DEF TypeInv, header

LEMMA PutTypes ==
  ASSUME TypeInv, PcInv, NEW t \in Threads, PutFree(t) \/ PutDelay(t)
  PROVE  TypeInv'
<1>1. bin[t] \in MemBins /\ old[t] \in Blocks
  BY DEF PcInv, PcOf, UsesBin, Freeing, PutFree, PutDelay, At
<1>2. SlotOf(t) \in Slots
  BY <1>1, BinShape DEF SlotOf
<1>3. /\ Discount(SlotOf(t), old[t])
      /\ headInUse' = [headInUse EXCEPT ![bin[t]] = @ \ {old[t]}]
      /\ UNCHANGED <<home, magic, usrDataSize, allocs, delay, fresh, gMutex, aborted,
                     dumpAt, after>>
  BY DEF PutFree, PutDelay, header, dumping, binStats
<1>4. headInUse' \in [MemBins -> SUBSET Blocks]
  <2>1. headInUse \in [MemBins -> SUBSET Blocks]
    BY DEF TypeInv
  <2>2. QED
    BY <1>1, <1>3, <2>1
<1>5. CASE PutFree(t)
  <2>1. /\ ToFree(old[t]) /\ frees' = [frees EXCEPT ![bin[t]] = @ + 1]
        /\ Unlock(SlotOf(t)) /\ Return(t, {blk[t]})
    BY <1>5 DEF PutFree
  <2>2. blk[t] \in Blocks \cup {NoBlock} /\ frees \in [MemBins -> Nat]
    BY DEF TypeInv
  <2>3. frees' \in [MemBins -> Nat]
    BY <1>1, <2>1, <2>2
  <2>4. headFree' \in [MemBins -> SUBSET Blocks] /\ numFree' \in [MemBins -> Int]
    BY <1>1, <2>1, ToFreeType
  <2>5. lock' \in [Slots -> Threads \cup {NoThread}]
    BY <2>1, LockType
  <2>6. QED
    BY <1>1, <1>2, <1>3, <1>4, <2>1, <2>2, <2>3, <2>4, <2>5, DiscountType, ReturnType
       DEF TypeInv
<1>6. CASE PutDelay(t)
  <2>1. PICK l \in {"batch", "delay"} : GoTo(t, l)
    BY <1>6 DEF PutDelay
  <2>2. pc' \in [Threads -> Labels]
    BY <2>1, GoToType DEF Labels
  <2>3. UNCHANGED <<headFree, numFree, frees, lock, live, bin, size, blk, old>>
    BY <1>6 DEF PutDelay, freeLists, binStats, request
  <2>4. QED
    BY <1>1, <1>2, <1>3, <1>4, <2>2, <2>3, DiscountType DEF TypeInv
<1>7. QED
  BY <1>5, <1>6

LEMMA DelayTypes ==
  ASSUME TypeInv, PcInv, NEW t \in Threads, Batch(t) \/ Delay(t)
  PROVE  TypeInv'
<1>1. bin[t] \in MemBins /\ old[t] \in Blocks
  BY DEF PcInv, PcOf, UsesBin, Freeing, Batch, Delay, At
<1>2. SlotOf(t) \in Slots
  BY <1>1, BinShape DEF SlotOf
<1>3. delay \in [Slots -> Seq(Blocks)] /\ delay[SlotOf(t)] \in Seq(Blocks)
  BY <1>2 DEF TypeInv
<1>4. CASE Batch(t) /\ Len(delay[SlotOf(t)]) > MaxDelayElms \div 4
  <2>1. /\ ToFree(Head(delay[SlotOf(t)]))
        /\ delay' = [delay EXCEPT ![SlotOf(t)] = Tail(@)]
        /\ UNCHANGED pc
    BY <1>4 DEF Batch
  <2>2. delay[SlotOf(t)] # <<>>
    BY <1>3, <1>4, EmptySeq, HeapAssumption
  <2>3. Head(delay[SlotOf(t)]) \in Blocks /\ Tail(delay[SlotOf(t)]) \in Seq(Blocks)
    BY <1>3, <2>2, HeadTailProperties
  <2>4. delay' \in [Slots -> Seq(Blocks)]
    BY <1>3, <2>1, <2>3
  <2>5. headFree' \in [MemBins -> SUBSET Blocks] /\ numFree' \in [MemBins -> Int]
    BY <2>1, <2>3, ToFreeType
  <2>6. QED
    BY <1>4, <2>1, <2>4, <2>5 DEF TypeInv, Batch, header, binStats, slotStats, request,
                                  dumping
<1>5. CASE Batch(t) /\ ~(Len(delay[SlotOf(t)]) > MaxDelayElms \div 4)
  <2>1. GoTo(t, "delay") /\ UNCHANGED <<freeLists, delay>>
    BY <1>5 DEF Batch
  <2>2. pc' \in [Threads -> Labels]
    BY <2>1, GoToType DEF Labels
  <2>3. QED
    BY <1>5, <2>1, <2>2 DEF TypeInv, Batch, header, freeLists, binStats, slotStats,
                            request, dumping
<1>6. CASE Delay(t)
  <2>1. /\ delay' = [delay EXCEPT ![SlotOf(t)] = Append(@, old[t])]
        /\ frees' = [frees EXCEPT ![bin[t]] = @ + 1]
        /\ Unlock(SlotOf(t)) /\ Return(t, {blk[t]})
    BY <1>6 DEF Delay
  <2>2. Append(delay[SlotOf(t)], old[t]) \in Seq(Blocks)
    BY <1>1, <1>3, AppendDelayed
  <2>3. delay' \in [Slots -> Seq(Blocks)]
    BY <1>3, <2>1, <2>2
  <2>4. blk[t] \in Blocks \cup {NoBlock} /\ frees \in [MemBins -> Nat]
    BY DEF TypeInv
  <2>5. frees' \in [MemBins -> Nat]
    BY <1>1, <2>1, <2>4
  <2>6. lock' \in [Slots -> Threads \cup {NoThread}]
    BY <2>1, LockType
  <2>7. QED
    BY <1>6, <2>1, <2>3, <2>4, <2>5, <2>6, ReturnType
       DEF TypeInv, Delay, header, freeLists, slotStats, dumping
<1>7. QED
  BY <1>4, <1>5, <1>6

LEMMA TypeStep ==
  ASSUME TypeInv, PcInv, NEW t \in Threads, Call(t) \/ Step(t)
  PROVE  TypeInv'
BY CallTypes, ControlTypes, CarveTypes, TakeTypes, PutTypes, DelayTypes DEF Step

(***************************************************************************)
(* Locals and locks.                                                       *)
(***************************************************************************)
(* A block never leaves the bin it was carved for. *)
LEMMA HomeKept ==
  ASSUME TypeInv, BlockInv, NEW t \in Threads, Call(t) \/ Step(t),
         NEW b \in Blocks, home[b] \in MemBins
  PROVE  home'[b] = home[b]
<1>1. CASE Call(t)
  BY <1>1 DEF Call, Malloc, Realloc, Free, Report, header
<1>2. CASE Carve(t)
  <2>1. PICK c \in fresh : home' = [home EXCEPT ![c] = bin[t]]
    BY <1>2 DEF Carve
  <2>2. c # b
    BY <2>1, BinShape DEF BlockInv, GoodBlock, PlaceOf, TypeInv
  <2>3. QED
    BY <2>1, <2>2 DEF TypeInv
<1>3. CASE ~Carve(t) /\ Step(t)
  BY <1>3 DEF Step, LockSlot, CarveFails, CarveAborts, Take, Check, Publish, Mark,
              LockFree, PutFree, PutDelay, Batch, Delay, DumpSlot, DumpDone, header
<1>4. QED
  BY <1>1, <1>2, <1>3

LEMMA PcOfOthers ==
  ASSUME TypeInv, PcInv, BlockInv, NEW t \in Threads, Call(t) \/ Step(t),
         NEW u \in Threads \ {t}
  PROVE  PcOf(u)'
<1>1. OthersSame(t)
  BY StepIsLocal
<1>2. PcOf(u)
  BY DEF PcInv
<1>3. pc[u] \in {"lockFree", "put", "batch", "delay"} =>
        home'[old[u]] = home[old[u]]
  BY <1>2, HomeKept DEF PcOf, UsesBin, Freeing
<1>4. QED
  BY <1>1, <1>2, <1>3 DEF OthersSame, PcOf, UsesBin, HasBlk, Freeing

LEMMA PcOfSelf ==
  ASSUME TypeInv, PcInv, BlockInv, NEW t \in Threads, Call(t) \/ Step(t)
  PROVE  PcOf(t)'
<1> USE DEF PcOf, UsesBin, HasBlk, Freeing
<1>1. /\ PcOf(t)
      /\ pc \in [Threads -> Labels] /\ bin \in [Threads -> MemBins \cup {NoBin}]
      /\ size \in [Threads -> Nat] /\ blk \in [Threads -> Blocks \cup {NoBlock}]
      /\ old \in [Threads -> Blocks \cup {NoBlock}]
      /\ dumpAt \in [Threads -> 0 .. NumSlots]
      /\ after \in [Threads -> {"idle", "check", "abort"}]
  BY DEF PcInv, TypeInv
<1>2. old[t] # NoBlock => home[old[t]] \in MemBins
  BY <1>1 DEF BlockInv, GoodBlock, OwnOf
<1>3. ASSUME NEW n \in Sizes, Malloc(t, n) PROVE PcOf(t)'
  <2>1. PICK s \in PickSlot(n) : Request(t, n, s)
    BY <1>3 DEF Malloc
  <2>2. QED
    BY <1>1, <1>3, <2>1, SlotPicked DEF Malloc, Request, At, GoTo, dumping
<1>4. ASSUME NEW n \in Sizes, NEW b \in live, Realloc(t, b, n) PROVE PcOf(t)'
  <2>1. PICK s \in PickSlot(n) : Request(t, n, s)
    BY <1>4 DEF Realloc
  <2>2. QED
    BY <1>1, <1>4, <2>1, SlotPicked DEF Realloc, Request, At, GoTo, dumping
<1>5. ASSUME NEW b \in live, Free(t, b) PROVE PcOf(t)'
  <2>1. b \in Blocks
    BY DEF TypeInv
  <2>2. QED
    BY <1>1, <1>5, <2>1 DEF Free, At, GoTo, dumping
<1>6. CASE Report(t)
  BY <1>1, <1>6 DEF Report, At, GoTo, request
<1>7. CASE LockSlot(t)
  BY <1>1, <1>7 DEF LockSlot, At, GoTo, request, dumping
<1>8. CASE Carve(t)
  BY <1>1, <1>8 DEF Carve, At, GoTo, request, dumping
<1>9. CASE CarveFails(t)
  BY <1>1, <1>9 DEF CarveFails, Return, At, GoTo, dumping
<1>10. CASE CarveAborts(t)
  BY <1>1, <1>10 DEF CarveAborts, At, GoTo, request, dumping
<1>11. CASE Take(t)
  <2>1. PICK b \in headFree[bin[t]] : blk' = [blk EXCEPT ![t] = b]
    BY <1>11 DEF Take
  <2>2. b \in Blocks
    BY <1>1, <1>11, <2>1 DEF TypeInv, Take, At
  <2>3. /\ \/ GoTo(t, "dump") /\ after' = [after EXCEPT ![t] = "check"]
           \/ GoTo(t, "check") /\ UNCHANGED after
        /\ UNCHANGED <<bin, old>> /\ pc[t] = "take"
    BY <1>11 DEF Take, At, dumping
  <2>4. QED
    BY <1>1, <2>1, <2>2, <2>3 DEF GoTo
<1>12. CASE Check(t)
  BY <1>1, <1>12 DEF Check, At, GoTo, request, dumping
<1>13. CASE Publish(t)
  <2>1. CASE old[t] = NoBlock
    BY <1>1, <1>13, <2>1 DEF Publish, Return, At, GoTo, dumping
  <2>2. CASE old[t] # NoBlock
    BY <1>1, <1>13, <2>2 DEF Publish, At, GoTo, request, dumping
  <2>3. QED
    BY <2>1, <2>2
<1>14. CASE Mark(t)
  BY <1>1, <1>2, <1>14, HeapAssumption DEF Mark, At, GoTo, dumping
<1>15. CASE LockFree(t)
  BY <1>1, <1>15 DEF LockFree, At, GoTo, header, request, dumping
<1>16. CASE PutFree(t) \/ Delay(t)
  BY <1>1, <1>16 DEF PutFree, Delay, Return, At, GoTo, dumping
<1>17. CASE PutDelay(t)
  BY <1>1, <1>17 DEF PutDelay, At, GoTo, header, request, dumping
<1>18. CASE Batch(t)
  BY <1>1, <1>18 DEF Batch, At, GoTo, header, request, dumping
<1>19. CASE DumpSlot(t)
  BY <1>1, <1>19 DEF DumpSlot, At, request
<1>20. CASE DumpDone(t)
  BY <1>1, <1>20 DEF DumpDone, At, GoTo, request, dumping
<1>21. QED
  BY <1>3, <1>4, <1>5, <1>6, <1>7, <1>8, <1>9, <1>10, <1>11, <1>12, <1>13, <1>14,
     <1>15, <1>16, <1>17, <1>18, <1>19, <1>20 DEF Call, Step

LEMMA PcStep ==
  ASSUME TypeInv, PcInv, BlockInv, NEW t \in Threads, Call(t) \/ Step(t)
  PROVE  PcInv'
BY PcOfOthers, PcOfSelf DEF PcInv

(* Which steps take and give back a lock. *)
LEMMA LockEffect ==
  ASSUME NEW t \in Threads, Call(t) \/ Step(t)
  PROVE  \/ UNCHANGED lock
         \/ Acquire(SlotOf(t), t)
         \/ Holds(t) /\ Unlock(SlotOf(t))
<1>1. CASE Call(t)
  BY <1>1 DEF Call, Malloc, Realloc, Free, Report
<1>2. CASE LockSlot(t) \/ LockFree(t)
  BY <1>2 DEF LockSlot, LockFree
<1>3. CASE Carve(t) \/ CarveAborts(t) \/ Take(t) \/ Publish(t) \/ Mark(t)
           \/ PutDelay(t) \/ Batch(t) \/ DumpSlot(t) \/ DumpDone(t)
  BY <1>3 DEF Carve, CarveAborts, Take, Publish, Mark, PutDelay, Batch, DumpSlot, DumpDone
<1>4. CASE CarveFails(t) \/ PutFree(t) \/ Delay(t)
  BY <1>4 DEF CarveFails, PutFree, Delay, Holds, At
<1>5. CASE Check(t)
  BY <1>5 DEF Check, Holds, At
<1>6. QED
  BY <1>1, <1>2, <1>3, <1>4, <1>5 DEF Step

LEMMA LockOfOthers ==
  ASSUME TypeInv, PcInv, LockInv, NEW t \in Threads, Call(t) \/ Step(t),
         NEW u \in Threads \ {t}
  PROVE  LockOf(u)'
<1>1. OthersSame(t)
  BY StepIsLocal
<1>2. Holds(u)' <=> Holds(u)
  BY <1>1 DEF Holds, OthersSame
<1>3. SlotOf(u)' = SlotOf(u)
  BY <1>1 DEF SlotOf, OthersSame
<1>4. LockOf(u) /\ LockOf(t)
  BY DEF LockInv
<1>5. SUFFICES ASSUME Holds(u) PROVE lock'[SlotOf(u)] = u
  BY <1>2, <1>3 DEF LockOf
<1>6. lock[SlotOf(u)] = u /\ u # NoThread
  BY <1>4, <1>5, HeapAssumption DEF LockOf
<1>7. SlotOf(u) \in Slots
  BY <1>5, BinShape DEF PcInv, PcOf, UsesBin, Holds, SlotOf
<1>8. lock \in [Slots -> Threads \cup {NoThread}]
  BY DEF TypeInv
<1>9. CASE UNCHANGED lock
  BY <1>6, <1>9
<1>10. CASE Acquire(SlotOf(t), t)
  BY <1>6, <1>7, <1>8, <1>10 DEF Acquire
<1>11. CASE Holds(t) /\ Unlock(SlotOf(t))
  <2>1. SlotOf(t) # SlotOf(u)
    BY <1>4, <1>6, <1>11 DEF LockOf
  <2>2. QED
    BY <1>6, <1>7, <1>8, <1>11, <2>1 DEF Unlock
<1>12. QED
  BY <1>9, <1>10, <1>11, LockEffect

LEMMA LockOfSelf ==
  ASSUME TypeInv, PcInv, LockInv, NEW t \in Threads, Call(t) \/ Step(t)
  PROVE  LockOf(t)'
<1> USE DEF LockOf, Holds, SlotOf, At, GoTo
<1>1. /\ LockOf(t)
      /\ pc \in [Threads -> Labels]
      /\ bin \in [Threads -> MemBins \cup {NoBin}]
      /\ lock \in [Slots -> Threads \cup {NoThread}]
      /\ after \in [Threads -> {"idle", "check", "abort"}]
  BY DEF LockInv, TypeInv
<1>2. ASSUME NEW n \in Sizes, Malloc(t, n) PROVE LockOf(t)'
  BY <1>1, <1>2 DEF Malloc, Request
<1>3. ASSUME NEW n \in Sizes, NEW b \in live, Realloc(t, b, n) PROVE LockOf(t)'
  BY <1>1, <1>3 DEF Realloc, Request
<1>4. ASSUME NEW b \in live, Free(t, b) PROVE LockOf(t)'
  BY <1>1, <1>4 DEF Free
<1>5. CASE Report(t)
  BY <1>1, <1>5 DEF Report
<1>6. CASE LockSlot(t) \/ LockFree(t)
  <2>1. bin[t][1] \in Slots
    BY <1>6, BinShape DEF LockSlot, LockFree, PcInv, PcOf, UsesBin
  <2>2. UNCHANGED bin /\ lock' = [lock EXCEPT ![bin[t][1]] = t]
    BY <1>6 DEF LockSlot, LockFree, Acquire, request
  <2>3. QED
    BY <1>1, <2>1, <2>2
<1>7. CASE Carve(t)
  BY <1>1, <1>7 DEF Carve, request
<1>8. CASE CarveFails(t) \/ PutFree(t) \/ Delay(t)
  BY <1>1, <1>8 DEF CarveFails, PutFree, Delay, Return
<1>9. CASE CarveAborts(t)
  BY <1>1, <1>9 DEF CarveAborts, request
<1>10. CASE Take(t)
  <2>1. pc[t] = "take" /\ UNCHANGED <<bin, lock>>
    BY <1>10 DEF Take
  <2>2. QED
    BY <1>1, <2>1
<1>11. CASE Check(t)
  BY <1>1, <1>11 DEF Check, request
<1>12. CASE Publish(t)
  BY <1>1, <1>12 DEF Publish, Return
<1>13. CASE Mark(t)
  BY <1>1, <1>13 DEF Mark
<1>14. CASE PutDelay(t)
  BY <1>1, <1>14 DEF PutDelay, request
<1>15. CASE Batch(t)
  BY <1>1, <1>15 DEF Batch, request
<1>16. CASE DumpSlot(t)
  BY <1>1, <1>16 DEF DumpSlot, request
<1>17. CASE DumpDone(t)
  BY <1>1, <1>17 DEF DumpDone, request, dumping
<1>18. QED
  BY <1>2, <1>3, <1>4, <1>5, <1>6, <1>7, <1>8, <1>9, <1>10, <1>11, <1>12, <1>13,
     <1>14, <1>15, <1>16, <1>17 DEF Call, Step

LEMMA LockStep ==
  ASSUME TypeInv, PcInv, LockInv, NEW t \in Threads, Call(t) \/ Step(t)
  PROVE  LockInv'
BY LockOfOthers, LockOfSelf DEF LockInv

(***************************************************************************)
(* Blocks.                                                                 *)
(***************************************************************************)
(* A step of t changes nothing that the invariant says of b. *)
SameFor(b, t) ==
  /\ home'[b] = home[b] /\ magic'[b] = magic[b]
  /\ b \in fresh' <=> b \in fresh
  /\ b \in live' <=> b \in live
  /\ \A i \in MemBins : /\ b \in headFree'[i] <=> b \in headFree[i]
                        /\ b \in headInUse'[i] <=> b \in headInUse[i]
  /\ \A s \in Slots : b \in Delayed(s)' <=> b \in Delayed(s)
  /\ blk'[t] = b <=> blk[t] = b
  /\ old'[t] = b <=> old[t] = b
  /\ blk[t] = b => (HasBlk(t)' => HasBlk(t)) /\ (Freeing(t)' => Freeing(t))
  /\ old[t] = b => /\ pc'[t] \in InHandPc <=> pc[t] \in InHandPc
                   /\ pc'[t] \in Marked <=> pc[t] \in Marked

LEMMA SameBlock ==
  ASSUME NEW t \in Threads, NEW b \in Blocks, OthersSame(t), SameFor(b, t),
         GoodBlock(b), home[b] \in MemBins \cup {NoBin}
  PROVE  GoodBlock(b)'
<1>1. \A u \in Threads :
        /\ blk'[u] = b <=> blk[u] = b
        /\ old'[u] = b <=> old[u] = b
        /\ blk[u] = b => (HasBlk(u)' => HasBlk(u)) /\ (Freeing(u)' => Freeing(u))
        /\ old[u] = b => /\ pc'[u] \in InHandPc <=> pc[u] \in InHandPc
                         /\ pc'[u] \in Marked <=> pc[u] \in Marked
  BY DEF SameFor, OthersSame, HasBlk, Freeing
<1>2. /\ home'[b] = home[b] /\ magic'[b] = magic[b]
      /\ b \in fresh' <=> b \in fresh
      /\ b \in live' <=> b \in live
      /\ \A i \in MemBins : /\ b \in headFree'[i] <=> b \in headFree[i]
                            /\ b \in headInUse'[i] <=> b \in headInUse[i]
      /\ \A s \in Slots : b \in Delayed(s)' <=> b \in Delayed(s)
  BY DEF SameFor
<1>3. PlaceOf(b)'
  <2>1. b \notin fresh => home[b] \in MemBins /\ home[b][1] \in Slots
    BY BinShape DEF GoodBlock, PlaceOf
  <2>2. \A u \in Threads : old[u] = b => home[b] \in MemBins /\ home[b][1] \in Slots
    BY BinShape DEF GoodBlock, OwnOf
  <2>3. QED
    BY <1>1, <1>2, <2>1, <2>2 DEF GoodBlock, PlaceOf
<1>4. OwnOf(b)'
  BY <1>1, <1>2 DEF GoodBlock, OwnOf
<1>5. MagicOf(b)'
  BY <1>1, <1>2 DEF GoodBlock, MagicOf
<1>6. QED
  BY <1>3, <1>4, <1>5 DEF GoodBlock

(* A step that moves no block. *)
LEMMA ControlBlocks ==
  ASSUME TypeInv, BlockInv, NEW t \in Threads, OthersSame(t),
         UNCHANGED <<home, magic, fresh, live, headFree, headInUse, delay>>,
         blk'[t] = blk[t], old'[t] = old[t],
         blk[t] \in Blocks => (HasBlk(t)' => HasBlk(t)) /\ (Freeing(t)' => Freeing(t)),
         old[t] \in Blocks => /\ pc'[t] \in InHandPc <=> pc[t] \in InHandPc
                              /\ pc'[t] \in Marked <=> pc[t] \in Marked
  PROVE  BlockInv'
<1>1. \A s : Delayed(s)' = Delayed(s)
  BY DEF Delayed
<1>2. ASSUME NEW b \in Blocks PROVE GoodBlock(b)'
  <2>1. SameFor(b, t)
    BY <1>1 DEF SameFor
  <2>2. home[b] \in MemBins \cup {NoBin} /\ GoodBlock(b)
    BY DEF TypeInv, BlockInv
  <2>3. QED
    BY <2>1, <2>2, SameBlock
<1>3. QED
  BY <1>2 DEF BlockInv, OnceInv

LEMMA ControlStep ==
  ASSUME TypeInv, PcInv, BlockInv, NEW t \in Threads, OthersSame(t),
         \/ Report(t) \/ \E n \in Sizes : Malloc(t, n)
         \/ LockSlot(t) \/ CarveAborts(t) \/ Check(t)
         \/ LockFree(t) \/ DumpSlot(t) \/ DumpDone(t)
  PROVE  BlockInv'
<1> USE DEF HasBlk, Freeing, InHandPc, Marked, At, GoTo
<1>1. /\ PcOf(t) /\ NoBlock \notin Blocks
      /\ pc \in [Threads -> Labels]
      /\ after \in [Threads -> {"idle", "check", "abort"}]
  BY HeapAssumption DEF PcInv, TypeInv
<1>2. CASE Report(t)
  BY <1>1, <1>2, ControlBlocks DEF Report, PcOf, header, freeLists, request
<1>3. ASSUME NEW n \in Sizes, Malloc(t, n) PROVE BlockInv'
  BY <1>1, <1>3, ControlBlocks DEF Malloc, Request, PcOf, header, freeLists, dumping
<1>4. CASE LockSlot(t)
  BY <1>1, <1>4, ControlBlocks DEF LockSlot, PcOf, header, freeLists, request, dumping
<1>5. CASE CarveAborts(t)
  BY <1>1, <1>5, ControlBlocks DEF CarveAborts, PcOf, header, freeLists, request
<1>6. CASE Check(t)
  BY <1>1, <1>6, ControlBlocks DEF Check, PcOf, header, freeLists, request, dumping
<1>7. CASE LockFree(t)
  BY <1>1, <1>7, ControlBlocks DEF LockFree, PcOf, header, freeLists, request, dumping
<1>8. CASE DumpSlot(t)
  BY <1>1, <1>8, ControlBlocks DEF DumpSlot, PcOf, header, freeLists, request
<1>9. CASE DumpDone(t)
  BY <1>1, <1>9, ControlBlocks DEF DumpDone, PcOf, header, freeLists, request, dumping
<1>10. QED
  BY <1>2, <1>3, <1>4, <1>5, <1>6, <1>7, <1>8, <1>9

(* free and realloc take a block from the caller. *)
LEMMA GiveUpStep ==
  ASSUME TypeInv, PcInv, BlockInv, NEW t \in Threads, OthersSame(t), NEW b \in live,
         Free(t, b) \/ \E n \in Sizes : Realloc(t, b, n)
  PROVE  BlockInv'
<1>1. /\ UNCHANGED <<home, magic, fresh, headFree, headInUse, delay, blk>>
      /\ live' = live \ {b} /\ old' = [old EXCEPT ![t] = b]
      /\ pc[t] = "idle" /\ pc'[t] \in {"lock", "mark"}
  BY DEF Free, Realloc, Request, At, GoTo, header, freeLists, TypeInv
<1>2. /\ b \in Blocks /\ old[t] = NoBlock /\ blk[t] = NoBlock /\ NoBlock \notin Blocks
      /\ old'[t] = b
  BY <1>1, HeapAssumption DEF TypeInv, PcInv, PcOf
<1>3. \A s : Delayed(s)' = Delayed(s)
  BY <1>1 DEF Delayed
<1>4. ASSUME NEW c \in Blocks, c # b PROVE GoodBlock(c)'
  <2>1. SameFor(c, t)
    BY <1>1, <1>2, <1>3, <1>4 DEF SameFor
  <2>2. home[c] \in MemBins \cup {NoBin} /\ GoodBlock(c)
    BY DEF TypeInv, BlockInv
  <2>3. QED
    BY <2>1, <2>2, SameBlock
<1>5. GoodBlock(b)'
  <2>1. GoodBlock(b)
    BY <1>2 DEF BlockInv
  <2>2. \A u \in Threads : /\ blk'[u] # b
                           /\ old'[u] = b <=> u = t
    BY <1>1, <1>2, <2>1 DEF GoodBlock, OwnOf, OthersSame
  <2>3. home[b] \in MemBins /\ b \in headInUse[home[b]] /\ b \notin live'
    BY <1>1, <2>1 DEF GoodBlock, OwnOf
  <2>4. PlaceOf(b)'
    BY <1>1, <1>2, <1>3, <2>1, <2>2, <2>3
       DEF GoodBlock, PlaceOf, OwnOf, InHandPc, OthersSame
  <2>5. OwnOf(b)'
    BY <1>1, <1>2, <2>2, <2>3 DEF OwnOf
  <2>6. MagicOf(b)'
    BY <1>1, <1>2, <1>3, <2>1, <2>2, <2>3
       DEF GoodBlock, MagicOf, Marked, OthersSame
  <2>7. QED
    BY <2>4, <2>5, <2>6 DEF GoodBlock
<1>6. QED
  BY <1>1, <1>4, <1>5 DEF BlockInv, OnceInv

(* A failing call leaves the block to its caller. *)
LEMMA CarveFailsStep ==
  ASSUME TypeInv, PcInv, BlockInv, NEW t \in Threads, OthersSame(t), CarveFails(t)
  PROVE  BlockInv'
<1>1. /\ UNCHANGED <<home, magic, fresh, headFree, headInUse, delay>>
      /\ live' = live \cup ({old[t]} \ {NoBlock})
      /\ old'[t] = NoBlock /\ blk'[t] = NoBlock
      /\ pc[t] = "carve" /\ pc'[t] = "idle"
  BY DEF CarveFails, Return, At, GoTo, header, freeLists, TypeInv
<1>2. /\ blk[t] = NoBlock /\ NoBlock \notin Blocks /\ old[t] \in Blocks \cup {NoBlock}
  BY <1>1, HeapAssumption DEF TypeInv, PcInv, PcOf
<1>3. \A s : Delayed(s)' = Delayed(s)
  BY <1>1 DEF Delayed
<1>4. ASSUME NEW c \in Blocks, c # old[t] PROVE GoodBlock(c)'
  <2>1. SameFor(c, t)
    BY <1>1, <1>2, <1>3, <1>4 DEF SameFor
  <2>2. home[c] \in MemBins \cup {NoBin} /\ GoodBlock(c)
    BY DEF TypeInv, BlockInv
  <2>3. QED
    BY <2>1, <2>2, SameBlock
<1>5. ASSUME NEW b \in Blocks, b = old[t] PROVE GoodBlock(b)'
  <2>1. GoodBlock(b)
    BY DEF BlockInv
  <2>2. \A u \in Threads : blk'[u] # b /\ old'[u] # b
    BY <1>1, <1>2, <1>5, <2>1 DEF GoodBlock, OwnOf, OthersSame
  <2>3. home[b] \in MemBins /\ b \in headInUse[home[b]] /\ b \in live'
    BY <1>1, <1>2, <1>5, <2>1 DEF GoodBlock, OwnOf, InHandPc
  <2>4. magic[b] = "inuse"
    BY <1>1, <1>2, <1>5, <2>1 DEF GoodBlock, MagicOf, Marked
  <2>5. PlaceOf(b)'
    BY <1>1, <1>3, <2>1, <2>2, <2>3 DEF GoodBlock, PlaceOf
  <2>6. OwnOf(b)'
    BY <1>1, <2>2, <2>3 DEF OwnOf
  <2>7. MagicOf(b)'
    BY <1>1, <1>3, <2>1, <2>2, <2>4 DEF GoodBlock, MagicOf
  <2>8. QED
    BY <2>5, <2>6, <2>7 DEF GoodBlock
<1>6. QED
  BY <1>1, <1>4, <1>5 DEF BlockInv, OnceInv

LEMMA PublishStep ==
  ASSUME TypeInv, PcInv, BlockInv, NEW t \in Threads, OthersSame(t), Publish(t)
  PROVE  BlockInv'
<1>1. /\ UNCHANGED <<home, fresh, headFree, headInUse, delay>>
      /\ magic' = [magic EXCEPT ![blk[t]] = "inuse"]
      /\ pc[t] = "publish"
  BY DEF Publish, At, freeLists
<1>2. blk[t] \in Blocks /\ NoBlock \notin Blocks
  BY <1>1, HeapAssumption DEF PcInv, PcOf, HasBlk
<1>3. \/ /\ old[t] = NoBlock /\ old'[t] = NoBlock /\ blk'[t] = NoBlock
         /\ live' = live \cup {blk[t]} /\ pc'[t] = "idle"
      \/ /\ old[t] # NoBlock /\ old'[t] = old[t] /\ blk'[t] = blk[t]
         /\ live' = live /\ pc'[t] = "mark"
  <2>1. CASE old[t] = NoBlock
    <3>1. Return(t, {blk[t]})
      BY <2>1 DEF Publish
    <3>2. QED
      BY <1>2, <2>1, <3>1 DEF Return, GoTo, TypeInv
  <2>2. CASE old[t] # NoBlock
    BY <2>2 DEF Publish, GoTo, request, TypeInv
  <2>3. QED
    BY <2>1, <2>2
<1>4. \A s : Delayed(s)' = Delayed(s)
  BY <1>1 DEF Delayed
<1>5. ASSUME NEW c \in Blocks, c # blk[t] PROVE GoodBlock(c)'
  <2>1. magic'[c] = magic[c]
    BY <1>1, <1>5 DEF TypeInv
  <2>2. SameFor(c, t)
    BY <1>1, <1>2, <1>3, <1>4, <1>5, <2>1 DEF SameFor, InHandPc, Marked
  <2>3. home[c] \in MemBins \cup {NoBin} /\ GoodBlock(c)
    BY DEF TypeInv, BlockInv
  <2>4. QED
    BY <2>2, <2>3, SameBlock
<1>6. ASSUME NEW b \in Blocks, b = blk[t] PROVE GoodBlock(b)'
  <2>1. GoodBlock(b)
    BY DEF BlockInv
  <2>2. magic'[b] = "inuse"
    BY <1>1, <1>6 DEF TypeInv
  <2>3. home[b] \in MemBins /\ b \in headInUse[home[b]]
    BY <1>6, <2>1 DEF GoodBlock, OwnOf
  <2>4. \A u \in Threads : old'[u] # b /\ (blk'[u] = b => u = t)
    BY <1>2, <1>3, <1>6, <2>1 DEF GoodBlock, OwnOf, OthersSame
  <2>5. b \in live' <=> blk'[t] # b
    BY <1>2, <1>3, <1>6, <2>1 DEF GoodBlock, OwnOf
  <2>6. PlaceOf(b)'
    BY <1>1, <1>4, <2>1, <2>3, <2>4 DEF GoodBlock, PlaceOf
  <2>7. OwnOf(b)'
    BY <1>1, <2>3, <2>4, <2>5 DEF OwnOf
  <2>8. \A i \in MemBins : b \notin headFree[i]
    BY <2>1, <2>3 DEF GoodBlock, PlaceOf
  <2>9. \A s \in Slots : b \notin Delayed(s)
    BY <2>1, <2>3 DEF GoodBlock, PlaceOf
  <2>10. blk'[t] = b => pc'[t] = "mark"
    BY <1>2, <1>3, <1>6
  <2>11. MagicOf(b)'
    BY <1>1, <1>4, <2>2, <2>4, <2>8, <2>9, <2>10 DEF MagicOf, HasBlk
  <2>12. QED
    BY <2>6, <2>7, <2>11 DEF GoodBlock
<1>7. QED
  BY <1>1, <1>5, <1>6 DEF BlockInv, OnceInv

LEMMA MarkStep ==
  ASSUME TypeInv, PcInv, BlockInv, NEW t \in Threads, OthersSame(t), Mark(t)
  PROVE  BlockInv'
<1>1. /\ UNCHANGED <<home, fresh, live, headFree, headInUse, delay, blk, old>>
      /\ magic' = [magic EXCEPT ![old[t]] = "free"]
      /\ pc[t] = "mark" /\ pc'[t] = "lockFree"
  BY DEF Mark, At, GoTo, freeLists, TypeInv
<1>2. old[t] \in Blocks
  BY <1>1 DEF PcInv, PcOf, Freeing
<1>3. \A s : Delayed(s)' = Delayed(s)
  BY <1>1 DEF Delayed
<1>4. ASSUME NEW c \in Blocks, c # old[t] PROVE GoodBlock(c)'
  <2>1. magic'[c] = magic[c]
    BY <1>1, <1>4 DEF TypeInv
  <2>2. SameFor(c, t)
    BY <1>1, <1>3, <1>4, <2>1 DEF SameFor, HasBlk, Freeing
  <2>3. home[c] \in MemBins \cup {NoBin} /\ GoodBlock(c)
    BY DEF TypeInv, BlockInv
  <2>4. QED
    BY <2>2, <2>3, SameBlock
<1>5. ASSUME NEW b \in Blocks, b = old[t] PROVE GoodBlock(b)'
  <2>1. GoodBlock(b)
    BY DEF BlockInv
  <2>2. magic'[b] = "free"
    BY <1>1, <1>5 DEF TypeInv
  <2>3. home[b] \in MemBins /\ b \in headInUse[home[b]] /\ b \notin live
    BY <1>1, <1>5, <2>1 DEF GoodBlock, OwnOf, InHandPc
  <2>4. \A u \in Threads : blk[u] # b /\ (old[u] = b => u = t)
    BY <1>5, <2>1 DEF GoodBlock, OwnOf
  <2>5. PlaceOf(b)'
    BY <1>1, <1>3, <2>1, <2>3, <2>4 DEF GoodBlock, PlaceOf, InHandPc
  <2>6. OwnOf(b)'
    BY <1>1, <1>5, <2>3, <2>4 DEF OwnOf
  <2>7. MagicOf(b)'
    BY <1>1, <2>2, <2>3, <2>4 DEF MagicOf, Marked
  <2>8. QED
    BY <2>5, <2>6, <2>7 DEF GoodBlock
<1>6. QED
  BY <1>1, <1>4, <1>5 DEF BlockInv, OnceInv

LEMMA CarveStep ==
  ASSUME TypeInv, PcInv, BlockInv, NEW t \in Threads, OthersSame(t), Carve(t)
  PROVE  BlockInv'
<1>1. PICK b \in fresh :
        /\ fresh' = fresh \ {b}
        /\ home' = [home EXCEPT ![b] = bin[t]]
        /\ magic' = [magic EXCEPT ![b] = "free"]
        /\ headFree' = [headFree EXCEPT ![bin[t]] = @ \cup {b}]
  BY DEF Carve
<1>2. /\ UNCHANGED <<headInUse, delay, live, blk, old>>
      /\ pc[t] = "carve" /\ pc'[t] \in {"carve", "take"}
  BY DEF Carve, At, GoTo, request, TypeInv
<1>3. /\ b \in Blocks /\ bin[t] \in MemBins /\ home[b] = NoBin
      /\ blk[t] = NoBlock /\ NoBlock \notin Blocks
  <2>1. b \in Blocks
    BY <1>1 DEF TypeInv
  <2>2. bin[t] \in MemBins /\ blk[t] = NoBlock /\ NoBlock \notin Blocks
    BY <1>2, HeapAssumption DEF PcInv, PcOf, UsesBin
  <2>3. home[b] = NoBin
    BY <1>1, <2>1 DEF BlockInv, GoodBlock, PlaceOf
  <2>4. QED
    BY <2>1, <2>2, <2>3
<1>4. \A s : Delayed(s)' = Delayed(s)
  BY <1>2 DEF Delayed
<1>5. ASSUME NEW c \in Blocks, c # b PROVE GoodBlock(c)'
  <2>1. /\ magic'[c] = magic[c] /\ home'[c] = home[c]
        /\ c \in fresh' <=> c \in fresh
        /\ \A i \in MemBins : c \in headFree'[i] <=> c \in headFree[i]
    BY <1>1, <1>3, <1>5 DEF TypeInv
  <2>2. SameFor(c, t)
    BY <1>2, <1>3, <1>4, <2>1 DEF SameFor, InHandPc, Marked
  <2>3. home[c] \in MemBins \cup {NoBin} /\ GoodBlock(c)
    BY DEF TypeInv, BlockInv
  <2>4. QED
    BY <2>2, <2>3, SameBlock
<1>6. GoodBlock(b)'
  <2>1. GoodBlock(b)
    BY <1>3 DEF BlockInv
  <2>2. /\ b \notin live /\ \A u \in Threads : blk[u] # b /\ old[u] # b
        /\ \A i \in MemBins : b \notin headFree[i] /\ b \notin headInUse[i]
        /\ \A s \in Slots : b \notin Delayed(s)
    BY <1>3, <2>1, BinShape DEF GoodBlock, OwnOf, PlaceOf
  <2>3. /\ home'[b] = bin[t] /\ magic'[b] = "free" /\ b \notin fresh'
        /\ \A i \in MemBins : b \in headFree'[i] <=> i = bin[t]
    BY <1>1, <1>3, <2>2 DEF TypeInv
  <2>4. PlaceOf(b)'
    BY <1>2, <1>3, <1>4, <2>2, <2>3, BinShape DEF PlaceOf
  <2>5. OwnOf(b)'
    BY <1>2, <2>2 DEF OwnOf
  <2>6. MagicOf(b)'
    BY <1>2, <1>4, <2>2, <2>3 DEF MagicOf
  <2>7. QED
    BY <2>4, <2>5, <2>6 DEF GoodBlock
<1>7. QED
  BY <1>2, <1>5, <1>6 DEF BlockInv, OnceInv

LEMMA TakeStep ==
  ASSUME TypeInv, PcInv, BlockInv, NEW t \in Threads, OthersSame(t), Take(t)
  PROVE  BlockInv'
<1>1. PICK b \in headFree[bin[t]] :
        /\ headFree' = [headFree EXCEPT ![bin[t]] = @ \ {b}]
        /\ headInUse' = [headInUse EXCEPT ![bin[t]] = @ \cup {b}]
        /\ blk' = [blk EXCEPT ![t] = b]
  BY DEF Take
<1>2. /\ UNCHANGED <<home, magic, fresh, delay, live, old>>
      /\ pc[t] = "take"
  BY DEF Take, At, header
<1>3. \/ pc'[t] = "check"
      \/ pc'[t] = "dump" /\ after'[t] = "check"
  <2>1. \/ GoTo(t, "dump") /\ after' = [after EXCEPT ![t] = "check"]
        \/ GoTo(t, "check")
    BY DEF Take
  <2>2. QED
    BY <2>1 DEF GoTo, TypeInv
<1>4. /\ bin[t] \in MemBins /\ b \in Blocks /\ blk[t] = NoBlock /\ NoBlock \notin Blocks
      /\ blk'[t] = b
  BY <1>1, <1>2, HeapAssumption DEF PcInv, PcOf, UsesBin, TypeInv
<1>5. \A s : Delayed(s)' = Delayed(s)
  BY <1>2 DEF Delayed
<1>6. ASSUME NEW c \in Blocks, c # b PROVE GoodBlock(c)'
  <2>1. \A i \in MemBins : /\ c \in headFree'[i] <=> c \in headFree[i]
                           /\ c \in headInUse'[i] <=> c \in headInUse[i]
    BY <1>1, <1>4, <1>6 DEF TypeInv
  <2>2. SameFor(c, t)
    BY <1>2, <1>3, <1>4, <1>5, <1>6, <2>1 DEF SameFor, InHandPc, Marked
  <2>3. home[c] \in MemBins \cup {NoBin} /\ GoodBlock(c)
    BY DEF TypeInv, BlockInv
  <2>4. QED
    BY <2>2, <2>3, SameBlock
<1>7. GoodBlock(b)'
  <2>1. GoodBlock(b)
    BY <1>4 DEF BlockInv
  <2>2. /\ home[b] = bin[t] /\ magic[b] = "free" /\ b \notin fresh
        /\ \A i \in MemBins : b \notin headInUse[i]
        /\ \A s \in Slots : b \notin Delayed(s)
    BY <1>1, <1>4, <2>1, BinShape DEF GoodBlock, PlaceOf, MagicOf
  <2>3. /\ b \notin live /\ \A u \in Threads : blk[u] # b
        /\ \A u \in Threads : old[u] # b
    BY <1>1, <1>4, <2>1, <2>2 DEF GoodBlock, OwnOf, PlaceOf
  <2>4. /\ \A i \in MemBins : b \notin headFree'[i]
        /\ \A i \in MemBins : b \in headInUse'[i] <=> i = bin[t]
    BY <1>1, <1>4, <2>1, <2>2 DEF TypeInv, GoodBlock, PlaceOf
  <2>5. \A u \in Threads : old'[u] # b /\ (blk'[u] = b <=> u = t)
    BY <1>2, <1>4, <2>3 DEF OthersSame
  <2>6. PlaceOf(b)'
    BY <1>2, <1>4, <1>5, <2>2, <2>4, <2>5, BinShape DEF PlaceOf
  <2>7. OwnOf(b)'
    BY <1>2, <1>4, <2>2, <2>3, <2>4, <2>5 DEF OwnOf
  <2>8. MagicOf(b)'
    BY <1>2, <1>3, <1>5, <2>2, <2>3, <2>4, <2>5 DEF MagicOf, Freeing
  <2>9. QED
    BY <2>6, <2>7, <2>8 DEF GoodBlock
<1>8. QED
  BY <1>2, <1>6, <1>7 DEF BlockInv, OnceInv

(* The new block of a realloc that is about to return becomes the caller's. *)
LEMMA ReturnedBlock ==
  ASSUME TypeInv, BlockInv, NEW t \in Threads, OthersSame(t), Freeing(t),
         NEW c \in Blocks, c = blk[t], c \in live',
         blk'[t] = NoBlock, old'[t] = NoBlock, UNCHANGED <<home, magic, fresh>>,
         \A i \in MemBins : /\ c \in headFree'[i] <=> c \in headFree[i]
                            /\ c \in headInUse'[i] <=> c \in headInUse[i],
         \A s \in Slots : c \in Delayed(s)' <=> c \in Delayed(s)
  PROVE  GoodBlock(c)'
<1>1. GoodBlock(c) /\ NoBlock \notin Blocks
  BY HeapAssumption DEF BlockInv
<1>2. /\ home[c] \in MemBins /\ c \in headInUse[home[c]] /\ magic[c] = "inuse"
      /\ \A u \in Threads : old[u] # c /\ (blk[u] = c => u = t)
  BY <1>1 DEF GoodBlock, OwnOf, MagicOf
<1>3. \A u \in Threads : blk'[u] # c /\ old'[u] # c
  BY <1>1, <1>2 DEF OthersSame
<1>4. /\ \A i \in MemBins : c \notin headFree[i]
      /\ \A s \in Slots : c \notin Delayed(s)
  BY <1>1, <1>2 DEF GoodBlock, PlaceOf
<1>5. PlaceOf(c)'
  BY <1>1, <1>2, <1>3, <1>4 DEF GoodBlock, PlaceOf
<1>6. OwnOf(c)'
  BY <1>2, <1>3 DEF OwnOf
<1>7. MagicOf(c)'
  BY <1>2, <1>3, <1>4 DEF MagicOf
<1>8. QED
  BY <1>5, <1>6, <1>7 DEF GoodBlock

LEMMA PutFreeStep ==
  ASSUME TypeInv, PcInv, BlockInv, NEW t \in Threads, OthersSame(t), PutFree(t)
  PROVE  BlockInv'
<1>1. /\ UNCHANGED <<home, magic, fresh, delay>>
      /\ headInUse' = [headInUse EXCEPT ![bin[t]] = @ \ {old[t]}]
      /\ headFree' = [headFree EXCEPT ![home[old[t]]] = @ \cup {old[t]}]
      /\ live' = live \cup ({blk[t]} \ {NoBlock})
      /\ pc[t] = "put" /\ Freeing(t)
  BY DEF PutFree, ToFree, Return, At, header, Freeing
<1>2. blk'[t] = NoBlock /\ old'[t] = NoBlock /\ NoBlock \notin Blocks
  BY HeapAssumption DEF PutFree, Return, TypeInv
<1>3. old[t] \in Blocks /\ bin[t] \in MemBins /\ bin[t] = home[old[t]]
  BY <1>1 DEF PcInv, PcOf, UsesBin, Freeing
<1>4. \A s : Delayed(s)' = Delayed(s)
  BY <1>1 DEF Delayed
<1>5. ASSUME NEW c \in Blocks, c # old[t] PROVE GoodBlock(c)'
  <2>1. \A i \in MemBins : /\ c \in headFree'[i] <=> c \in headFree[i]
                           /\ c \in headInUse'[i] <=> c \in headInUse[i]
    BY <1>1, <1>3, <1>5 DEF TypeInv
  <2>2. CASE c = blk[t]
    BY <1>1, <1>2, <1>4, <2>1, <2>2, ReturnedBlock
  <2>3. CASE c # blk[t]
    <3>1. SameFor(c, t)
      BY <1>1, <1>2, <1>4, <1>5, <2>1, <2>3 DEF SameFor
    <3>2. home[c] \in MemBins \cup {NoBin} /\ GoodBlock(c)
      BY DEF TypeInv, BlockInv
    <3>3. QED
      BY <3>1, <3>2, SameBlock
  <2>4. QED
    BY <2>2, <2>3
<1>6. ASSUME NEW b \in Blocks, b = old[t] PROVE GoodBlock(b)'
  <2>1. GoodBlock(b)
    BY DEF BlockInv
  <2>2. /\ b \in headInUse[home[b]] /\ home[b] = bin[t] /\ magic[b] = "free"
        /\ b \notin live /\ \A u \in Threads : blk[u] # b /\ (old[u] = b => u = t)
    BY <1>1, <1>3, <1>6, <2>1 DEF GoodBlock, OwnOf, MagicOf, InHandPc, Marked
  <2>3. /\ \A i \in MemBins : b \notin headInUse'[i]
        /\ \A i \in MemBins : b \in headFree'[i] <=> i = bin[t]
    BY <1>1, <1>3, <1>6, <2>1, <2>2 DEF TypeInv, GoodBlock, PlaceOf
  <2>4. \A u \in Threads : blk'[u] # b /\ old'[u] # b
    BY <1>2, <2>2 DEF OthersSame
  <2>5. b \notin live' /\ b \notin fresh /\ \A s \in Slots : b \notin Delayed(s)
    BY <1>1, <1>3, <2>1, <2>2, BinShape DEF GoodBlock, PlaceOf
  <2>6. PlaceOf(b)'
    BY <1>1, <1>3, <1>4, <2>2, <2>3, <2>4, <2>5, BinShape DEF PlaceOf
  <2>7. OwnOf(b)'
    BY <2>3, <2>4, <2>5 DEF OwnOf
  <2>8. MagicOf(b)'
    BY <1>1, <1>4, <2>2, <2>4, <2>5 DEF MagicOf
  <2>9. QED
    BY <2>6, <2>7, <2>8 DEF GoodBlock
<1>7. QED
  BY <1>1, <1>5, <1>6 DEF BlockInv, OnceInv

LEMMA PutDelayStep ==
  ASSUME TypeInv, PcInv, BlockInv, NEW t \in Threads, OthersSame(t), PutDelay(t)
  PROVE  BlockInv'
<1>1. /\ UNCHANGED <<home, magic, fresh, delay, live, headFree, blk, old>>
      /\ headInUse' = [headInUse EXCEPT ![bin[t]] = @ \ {old[t]}]
      /\ pc[t] = "put" /\ Freeing(t)
      /\ pc'[t] \in InHandPc
  BY DEF PutDelay, At, GoTo, header, freeLists, request, Freeing, InHandPc, TypeInv
<1>2. old[t] \in Blocks /\ bin[t] \in MemBins /\ bin[t] = home[old[t]]
  BY <1>1 DEF PcInv, PcOf, UsesBin, Freeing
<1>3. \A s : Delayed(s)' = Delayed(s)
  BY <1>1 DEF Delayed
<1>4. ASSUME NEW c \in Blocks, c # old[t] PROVE GoodBlock(c)'
  <2>1. \A i \in MemBins : c \in headInUse'[i] <=> c \in headInUse[i]
    BY <1>1, <1>2, <1>4 DEF TypeInv
  <2>2. HasBlk(t)' => HasBlk(t)
    BY <1>1 DEF HasBlk, InHandPc
  <2>3. SameFor(c, t)
    BY <1>1, <1>3, <1>4, <2>1, <2>2 DEF SameFor
  <2>4. home[c] \in MemBins \cup {NoBin} /\ GoodBlock(c)
    BY DEF TypeInv, BlockInv
  <2>5. QED
    BY <2>3, <2>4, SameBlock
<1>5. ASSUME NEW b \in Blocks, b = old[t] PROVE GoodBlock(b)'
  <2>1. GoodBlock(b)
    BY DEF BlockInv
  <2>2. /\ b \in headInUse[home[b]] /\ home[b] = bin[t] /\ magic[b] = "free"
        /\ b \notin live /\ \A u \in Threads : blk[u] # b /\ (old[u] = b => u = t)
    BY <1>1, <1>2, <1>5, <2>1 DEF GoodBlock, OwnOf, MagicOf, InHandPc, Marked
  <2>3. \A i \in MemBins : b \notin headInUse'[i]
    BY <1>1, <1>2, <1>5, <2>1, <2>2 DEF TypeInv, GoodBlock, PlaceOf
  <2>4. /\ b \notin fresh /\ \A s \in Slots : b \notin Delayed(s)
        /\ \A i \in MemBins : b \notin headFree[i]
    BY <1>2, <2>1, <2>2, BinShape DEF GoodBlock, PlaceOf
  <2>5. PlaceOf(b)'
    BY <1>1, <1>2, <1>3, <1>5, <2>2, <2>3, <2>4, BinShape DEF PlaceOf
  <2>6. OwnOf(b)'
    BY <1>1, <1>2, <1>5, <2>2, <2>3 DEF OwnOf
  <2>7. pc'[t] \in Marked
    BY <1>1 DEF InHandPc, Marked
  <2>8. MagicOf(b)'
    BY <1>1, <1>3, <1>5, <2>2, <2>4, <2>7 DEF MagicOf
  <2>9. QED
    BY <2>5, <2>6, <2>8 DEF GoodBlock
<1>6. QED
  BY <1>1, <1>4, <1>5 DEF BlockInv, OnceInv

(* The oldest delayed block becomes free. *)
LEMMA BatchStep ==
  ASSUME TypeInv, PcInv, BlockInv, NEW t \in Threads, OthersSame(t), Batch(t)
  PROVE  BlockInv'
<1>1. /\ UNCHANGED <<home, magic, fresh, live, headInUse, blk, old>>
      /\ pc[t] = "batch"
  BY DEF Batch, At, header, request
<1>2. bin[t] \in MemBins /\ SlotOf(t) \in Slots
  BY <1>1, BinShape DEF PcInv, PcOf, UsesBin, SlotOf
<1>3. CASE ~(Len(delay[SlotOf(t)]) > MaxDelayElms \div 4)
  <2>1. UNCHANGED <<headFree, delay>> /\ pc'[t] = "delay"
    BY <1>3 DEF Batch, GoTo, freeLists, TypeInv
  <2>2. ~HasBlk(t)' /\ Freeing(t) /\ pc'[t] \in InHandPc /\ pc[t] \in InHandPc
        /\ pc'[t] \in Marked /\ pc[t] \in Marked
    BY <1>1, <2>1 DEF HasBlk, Freeing, InHandPc, Marked
  <2>3. QED
    BY <1>1, <2>1, <2>2, ControlBlocks
<1>4. CASE Len(delay[SlotOf(t)]) > MaxDelayElms \div 4
  <2> DEFINE s0 == SlotOf(t)
             q == delay[s0]
  <2>1. q \in Seq(Blocks) /\ \A j, k \in 1 .. Len(q) : j # k => q[j] # q[k]
    BY <1>2 DEF TypeInv, BlockInv, OnceInv
  <2>2. Len(q) > 0
    <3>1. MaxDelayElms \div 4 \in Nat
      BY HeapAssumption
    <3>2. Len(q) \in Nat
      BY <2>1, LenProperties
    <3>3. QED
      BY <1>4, <3>1, <3>2
  <2>3. PICK b \in Blocks : b = Head(q)
    BY <2>1, <2>2, TailDelayed
  <2>4. /\ headFree' = [headFree EXCEPT ![home[b]] = @ \cup {b}]
        /\ delay' = [delay EXCEPT ![s0] = Tail(q)]
        /\ UNCHANGED pc
    BY <1>4, <2>3 DEF Batch, ToFree
  <2>5. /\ delay'[s0] = Tail(q)
        /\ \A s \in Slots : s # s0 => delay'[s] = delay[s]
    BY <1>2, <2>4 DEF TypeInv
  <2>6. /\ b \in Delayed(s0)
        /\ \A s \in Slots : Delayed(s)' = IF s = s0 THEN Delayed(s0) \ {b} ELSE Delayed(s)
        /\ \A j, k \in 1 .. Len(Tail(q)) : j # k => Tail(q)[j] # Tail(q)[k]
    <3>1. {Tail(q)[k] : k \in 1 .. Len(Tail(q))} = Delayed(s0) \ {b} /\ b \in Delayed(s0)
      BY <2>1, <2>2, <2>3, TailDelayed DEF Delayed
    <3>2. {delay'[s0][k] : k \in 1 .. Len(delay'[s0])} = Delayed(s0) \ {b}
      BY <2>5, <3>1
    <3>3. \A s \in Slots : s # s0 => Delayed(s)' = Delayed(s)
      BY <2>5 DEF Delayed
    <3>4. \A s \in Slots : Delayed(s)' = {delay'[s][k] : k \in 1 .. Len(delay'[s])}
      BY DEF Delayed
    <3>5. \A j, k \in 1 .. Len(Tail(q)) : j # k => Tail(q)[j] # Tail(q)[k]
      BY <2>1, <2>2, TailDelayed
    <3>6. QED
      BY <3>1, <3>2, <3>3, <3>4, <3>5
  <2>7. GoodBlock(b)
    BY DEF BlockInv
  <2>8. /\ home[b] \in MemBins /\ home[b][1] = s0 /\ magic[b] = "free"
        /\ \A i \in MemBins : b \notin headFree[i] /\ b \notin headInUse[i]
        /\ b \notin fresh
    BY <1>2, <2>6, <2>7, BinShape DEF GoodBlock, PlaceOf, MagicOf
  <2>9. /\ b \notin live
        /\ \A u \in Threads : blk[u] # b /\ old[u] # b
    BY <1>2, <2>6, <2>7, <2>8 DEF GoodBlock, PlaceOf, OwnOf
  <2>10. ASSUME NEW c \in Blocks, c # b PROVE GoodBlock(c)'
    <3>1. \A i \in MemBins : c \in headFree'[i] <=> c \in headFree[i]
      BY <2>4, <2>8, <2>10 DEF TypeInv
    <3>2. \A s \in Slots : c \in Delayed(s)' <=> c \in Delayed(s)
      BY <2>6, <2>10
    <3>3. HasBlk(t)' => HasBlk(t)
      BY <1>1, <2>4 DEF HasBlk
    <3>4. Freeing(t)' => Freeing(t)
      BY <2>4 DEF Freeing
    <3>5. SameFor(c, t)
      BY <1>1, <2>4, <3>1, <3>2, <3>3, <3>4 DEF SameFor
    <3>6. home[c] \in MemBins \cup {NoBin} /\ GoodBlock(c)
      BY DEF TypeInv, BlockInv
    <3>7. QED
      BY <3>5, <3>6, SameBlock
  <2>11. GoodBlock(b)'
    <3>1. \A i \in MemBins : b \in headFree'[i] <=> i = home[b]
      BY <2>4, <2>8 DEF TypeInv
    <3>2. \A s \in Slots : b \notin Delayed(s)'
      BY <2>6, <2>7, <2>8 DEF GoodBlock, PlaceOf
    <3>3. PlaceOf(b)'
      BY <1>1, <2>8, <2>9, <3>1, <3>2, BinShape DEF PlaceOf
    <3>4. OwnOf(b)'
      BY <1>1, <2>8, <2>9 DEF OwnOf
    <3>5. MagicOf(b)'
      BY <1>1, <2>8, <2>9, <3>2 DEF MagicOf
    <3>6. QED
      BY <3>3, <3>4, <3>5 DEF GoodBlock
  <2>12. OnceInv'
    BY <2>5, <2>6 DEF BlockInv, OnceInv
  <2>13. QED
    BY <2>10, <2>11, <2>12 DEF BlockInv
<1>5. QED
  BY <1>3, <1>4

(* The freed block goes to the end of the slot's delayed list. *)
LEMMA DelayStep ==
  ASSUME TypeInv, PcInv, BlockInv, NEW t \in Threads, OthersSame(t), Delay(t)
  PROVE  BlockInv'
<1> DEFINE s0 == SlotOf(t)
           q == delay[s0]
<1>1. /\ UNCHANGED <<home, magic, fresh, headFree, headInUse>>
      /\ live' = live \cup ({blk[t]} \ {NoBlock})
      /\ pc[t] = "delay" /\ Freeing(t) /\ pc[t] \in InHandPc
      /\ delay' = [delay EXCEPT ![s0] = Append(@, old[t])]
  BY DEF Delay, Return, At, header, freeLists, Freeing, InHandPc
<1>2. blk'[t] = NoBlock /\ old'[t] = NoBlock /\ NoBlock \notin Blocks
  BY HeapAssumption DEF Delay, Return, TypeInv
<1>3. /\ old[t] \in Blocks /\ bin[t] \in MemBins /\ bin[t] = home[old[t]]
      /\ s0 \in Slots /\ home[old[t]][1] = s0
  BY <1>1, BinShape DEF PcInv, PcOf, UsesBin, Freeing, SlotOf
<1>4. PICK b \in Blocks : b = old[t]
  BY <1>3
<1>5. /\ delay'[s0] = Append(q, b)
      /\ \A s \in Slots : s # s0 => delay'[s] = delay[s]
  BY <1>1, <1>3, <1>4 DEF TypeInv
<1>6. q \in Seq(Blocks)
  BY <1>3 DEF TypeInv
<1>7. /\ \A s \in Slots : s # s0 => Delayed(s)' = Delayed(s)
      /\ {delay'[s0][k] : k \in 1 .. Len(delay'[s0])} = Delayed(s0) \cup {b}
  BY <1>5, <1>6, AppendDelayed DEF Delayed
<1>8. \A s \in Slots : Delayed(s)' = IF s = s0 THEN Delayed(s0) \cup {b} ELSE Delayed(s)
  BY <1>7 DEF Delayed
<1>9. GoodBlock(b)
  BY DEF BlockInv
<1>10. /\ home[b] \in MemBins /\ home[b][1] = s0 /\ magic[b] = "free"
       /\ \A i \in MemBins : b \notin headFree[i] /\ b \notin headInUse[i]
       /\ \A s \in Slots : b \notin Delayed(s)
       /\ b \notin live /\ \A u \in Threads : blk[u] # b /\ (old[u] = b => u = t)
       /\ b \notin fresh
  <2>1. home[b] \in MemBins /\ home[b][1] = s0 /\ b \notin fresh
    BY <1>3, <1>4, <1>9, BinShape DEF GoodBlock, PlaceOf
  <2>2. \A i \in MemBins : b \notin headFree[i] /\ b \notin headInUse[i]
    BY <1>1, <1>4, <1>9 DEF GoodBlock, PlaceOf
  <2>3. \A s \in Slots : b \notin Delayed(s)
    BY <1>1, <1>3, <1>4, <1>9 DEF GoodBlock, PlaceOf
  <2>4. b \notin live /\ \A u \in Threads : blk[u] # b /\ (old[u] = b => u = t)
    BY <1>4, <1>9 DEF GoodBlock, OwnOf
  <2>5. magic[b] = "free"
    BY <1>1, <1>4, <1>9 DEF GoodBlock, MagicOf, Marked
  <2>6. QED
    BY <2>1, <2>2, <2>3, <2>4, <2>5
<1>11. ASSUME NEW c \in Blocks, c # b PROVE GoodBlock(c)'
  <2>1. \A s \in Slots : c \in Delayed(s)' <=> c \in Delayed(s)
    BY <1>8, <1>11
  <2>2. CASE c = blk[t]
    BY <1>1, <1>2, <2>1, <2>2, ReturnedBlock
  <2>3. CASE c # blk[t]
    <3>1. SameFor(c, t)
      BY <1>1, <1>2, <1>4, <1>11, <2>1, <2>3 DEF SameFor
    <3>2. home[c] \in MemBins \cup {NoBin} /\ GoodBlock(c)
      BY DEF TypeInv, BlockInv
    <3>3. QED
      BY <3>1, <3>2, SameBlock
  <2>4. QED
    BY <2>2, <2>3
<1>12. GoodBlock(b)'
  <2>1. \A u \in Threads : blk'[u] # b /\ old'[u] # b
    BY <1>2, <1>10 DEF OthersSame
  <2>2. \A s \in Slots : b \in Delayed(s)' <=> s = s0
    BY <1>8, <1>10
  <2>3. b \notin live'
    BY <1>1, <1>10
  <2>4. PlaceOf(b)'
    BY <1>1, <1>3, <1>10, <2>1, <2>2, BinShape DEF PlaceOf
  <2>5. OwnOf(b)'
    BY <1>1, <1>10, <2>1, <2>3 DEF OwnOf
  <2>6. MagicOf(b)'
    BY <1>1, <1>10, <2>1, <2>3 DEF MagicOf
  <2>7. QED
    BY <2>4, <2>5, <2>6 DEF GoodBlock
<1>13. OnceInv'
  <2>1. \A s \in Slots : s # s0 => \A j, k \in 1 .. Len(delay'[s]) :
                                     j # k => delay'[s][j] # delay'[s][k]
    BY <1>5 DEF BlockInv, OnceInv
  <2>2. \A j, k \in 1 .. Len(Append(q, b)) : j # k => Append(q, b)[j] # Append(q, b)[k]
    <3>1. \A j, k \in 1 .. Len(q) : j # k => q[j] # q[k]
      BY <1>3 DEF BlockInv, OnceInv
    <3>2. \A k \in 1 .. Len(q) : q[k] # b
      BY <1>3, <1>10 DEF Delayed
    <3>3. /\ Len(q) \in Nat /\ Len(Append(q, b)) = Len(q) + 1
          /\ \A k \in 1 .. Len(q) : Append(q, b)[k] = q[k]
          /\ Append(q, b)[Len(q) + 1] = b
      BY <1>6, AppendProperties
    <3>4. \A k \in 1 .. Len(q) + 1 : k = Len(q) + 1 \/ k \in 1 .. Len(q)
      BY <3>3
    <3>5. QED
      BY <3>1, <3>2, <3>3, <3>4
  <2>3. QED
    BY <1>5, <2>1, <2>2 DEF OnceInv
<1>14. QED
  BY <1>11, <1>12, <1>13 DEF BlockInv

LEMMA BlockStep ==
  ASSUME TypeInv, PcInv, BlockInv, NEW t \in Threads, Call(t) \/ Step(t)
  PROVE  BlockInv'
<1>1. OthersSame(t)
  BY StepIsLocal
<1>2. CASE Call(t)
  BY <1>1, <1>2, ControlStep, GiveUpStep DEF Call
<1>3. CASE Step(t)
  BY <1>1, <1>3, ControlStep, CarveFailsStep, PublishStep, MarkStep, CarveStep, TakeStep,
     PutFreeStep, PutDelayStep, BatchStep, DelayStep DEF Step
<1>4. QED
  BY <1>2, <1>3

(***************************************************************************)
(* A nonempty free list waits for the thread that found it so.             *)
(***************************************************************************)
LEMMA FreeGrows ==
  ASSUME TypeInv, NEW t \in Threads, Call(t) \/ Step(t), ~Take(t),
         NEW i \in MemBins
  PROVE  headFree[i] \subseteq headFree'[i]
<1>1. headFree \in [MemBins -> SUBSET Blocks]
  BY DEF TypeInv
<1>2. CASE UNCHANGED headFree
  BY <1>2
<1>3. ASSUME NEW b, NEW j, headFree' = [headFree EXCEPT ![j] = @ \cup {b}]
      PROVE  headFree[i] \subseteq headFree'[i]
  BY <1>1, <1>3
<1>4. CASE Call(t)
  BY <1>2, <1>4 DEF Call, Malloc, Realloc, Free, Report, freeLists
<1>5. CASE Carve(t) \/ PutFree(t)
  BY <1>3, <1>5 DEF Carve, PutFree, ToFree
<1>6. CASE Batch(t)
  BY <1>2, <1>3, <1>6 DEF Batch, ToFree, freeLists
<1>7. CASE Step(t) /\ ~Carve(t) /\ ~PutFree(t) /\ ~Batch(t)
  BY <1>2, <1>7 DEF Step, LockSlot, CarveFails, CarveAborts, Check, Publish, Mark,
     LockFree, PutDelay, Delay, DumpSlot, DumpDone, freeLists
<1>8. QED
  BY <1>4, <1>5, <1>6, <1>7

LEMMA TakeOfOthers ==
  ASSUME TypeInv, PcInv, LockInv, TakeInv, NEW t \in Threads, Call(t) \/ Step(t),
         NEW u \in Threads \ {t}
  PROVE  TakeOf(u)'
<1>1. pc'[u] = pc[u] /\ bin'[u] = bin[u]
  BY StepIsLocal DEF OthersSame
<1>2. SUFFICES ASSUME pc[u] = "take" PROVE headFree'[bin[u]] # {}
  BY <1>1 DEF TakeOf
<1>3. bin[u] \in MemBins /\ headFree[bin[u]] # {}
  BY <1>2 DEF PcInv, PcOf, UsesBin, TakeInv, TakeOf
<1>4. CASE Take(t)
  <2>1. Holds(t) /\ Holds(u)
    BY <1>2, <1>4 DEF Take, At, Holds
  <2>2. bin[t] # bin[u]
    BY <2>1, Alone DEF SlotOf
  <2>3. PICK b : headFree' = [headFree EXCEPT ![bin[t]] = @ \ {b}]
    BY <1>4 DEF Take
  <2>4. QED
    BY <1>3, <2>2, <2>3 DEF TypeInv
<1>5. CASE ~Take(t)
  BY <1>3, <1>5, FreeGrows
<1>6. QED
  BY <1>4, <1>5

LEMMA TakeOfSelf ==
  ASSUME TypeInv, PcInv, NEW t \in Threads, Call(t) \/ Step(t)
  PROVE  TakeOf(t)'
<1> USE DEF TakeOf, At, GoTo
<1>1. /\ pc \in [Threads -> Labels]
      /\ bin \in [Threads -> MemBins \cup {NoBin}]
      /\ headFree \in [MemBins -> SUBSET Blocks]
      /\ after \in [Threads -> {"idle", "check", "abort"}]
  BY DEF TypeInv
<1>2. CASE Call(t)
  BY <1>1, <1>2 DEF Call, Malloc, Realloc, Free, Report, Request
<1>3. CASE LockSlot(t)
  BY <1>1, <1>3 DEF LockSlot, NeedsBlocks, freeLists, request
<1>4. CASE Carve(t)
  <2>1. bin[t] \in MemBins
    BY <1>4 DEF Carve, PcInv, PcOf, UsesBin
  <2>2. PICK b \in fresh : headFree' = [headFree EXCEPT ![bin[t]] = @ \cup {b}]
    BY <1>4 DEF Carve
  <2>3. UNCHANGED bin
    BY <1>4 DEF Carve, request
  <2>4. QED
    BY <1>1, <2>1, <2>2, <2>3
<1>5. CASE CarveFails(t) \/ PutFree(t) \/ Delay(t)
  BY <1>1, <1>5 DEF CarveFails, PutFree, Delay, Return
<1>6. CASE CarveAborts(t) \/ LockFree(t) \/ Mark(t)
  BY <1>1, <1>6 DEF CarveAborts, LockFree, Mark
<1>7. CASE Take(t)
  <2>1. GoTo(t, "dump") \/ GoTo(t, "check")
    BY <1>7 DEF Take
  <2>2. QED
    BY <1>1, <2>1
<1>8. CASE Check(t)
  BY <1>1, <1>8 DEF Check
<1>9. CASE Publish(t)
  <2>1. GoTo(t, "idle") \/ GoTo(t, "mark")
    BY <1>9 DEF Publish, Return
  <2>2. QED
    BY <1>1, <2>1
<1>10. CASE PutDelay(t)
  BY <1>1, <1>10 DEF PutDelay
<1>11. CASE Batch(t)
  BY <1>1, <1>11 DEF Batch
<1>12. CASE DumpSlot(t) \/ DumpDone(t)
  BY <1>1, <1>12 DEF DumpSlot, DumpDone
<1>13. QED
  BY <1>2, <1>3, <1>4, <1>5, <1>6, <1>7, <1>8, <1>9, <1>10, <1>11, <1>12 DEF Step

LEMMA TakeStepKeeps ==
  ASSUME TypeInv, PcInv, LockInv, TakeInv, NEW t \in Threads, Call(t) \/ Step(t)
  PROVE  TakeInv'
BY TakeOfOthers, TakeOfSelf DEF TakeInv

(***************************************************************************)
(* The invariant.                                                          *)
(***************************************************************************)
LEMMA InitTypes == Init => TypeInv
<1> SUFFICES ASSUME Init PROVE TypeInv
  OBVIOUS
<1> USE HeapAssumption DEF Init
<1>1. /\ home \in [Blocks -> MemBins \cup {NoBin}]
      /\ magic \in [Blocks -> {"zero", "free", "inuse"}]
      /\ usrDataSize \in [Blocks -> Nat]
  OBVIOUS
<1>2. /\ headFree \in [MemBins -> SUBSET Blocks] /\ headInUse \in [MemBins -> SUBSET Blocks]
      /\ allocs \in [MemBins -> Nat] /\ frees \in [MemBins -> Nat]
  OBVIOUS
<1>3. numFree \in [MemBins -> Int]
  <2>1. \A i \in MemBins : HighWater[i[2]] \in Nat
    BY DEF MemBins
  <2>2. QED
    BY <2>1
<1>4. delay \in [Slots -> Seq(Blocks)]
  OBVIOUS
<1>5. /\ requested \in [Slots -> Nat] /\ freed \in [Slots -> Nat]
      /\ hwm \in [Slots -> Nat] /\ lastDump \in [Slots -> Nat]
      /\ histoAllocs \in [Histo -> Nat] /\ histoFrees \in [Histo -> Nat]
  OBVIOUS
<1>6. /\ lock \in [Slots -> Threads \cup {NoThread}]
      /\ fresh \subseteq Blocks /\ live \subseteq Blocks
      /\ gMutex \in Threads \cup {NoThread} /\ aborted \in BOOLEAN
  OBVIOUS
<1>7. /\ pc \in [Threads -> Labels]
      /\ bin \in [Threads -> MemBins \cup {NoBin}] /\ size \in [Threads -> Nat]
      /\ blk \in [Threads -> Blocks \cup {NoBlock}]
      /\ old \in [Threads -> Blocks \cup {NoBlock}]
      /\ dumpAt \in [Threads -> 0 .. NumSlots]
      /\ after \in [Threads -> {"idle", "check", "abort"}]
  BY DEF Labels
<1>8. QED
  BY <1>1, <1>2, <1>3, <1>4, <1>5, <1>6, <1>7 DEF TypeInv

LEMMA InitInv == Init => Inv
<1> SUFFICES ASSUME Init PROVE Inv
  OBVIOUS
<1>1. TypeInv
  BY InitTypes
<1>2. /\ pc = [t \in Threads |-> "idle"]
      /\ blk = [t \in Threads |-> NoBlock] /\ old = [t \in Threads |-> NoBlock]
      /\ after = [t \in Threads |-> "idle"]
  BY DEF Init
<1>3. PcInv /\ LockInv /\ TakeInv
  BY <1>2 DEF PcInv, PcOf, UsesBin, HasBlk, Freeing, LockInv, LockOf, Holds,
              TakeInv, TakeOf
<1>4. /\ \A i \in MemBins : headFree[i] = {b \in Blocks : home[b] = i}
      /\ \A i \in MemBins : headInUse[i] = {}
      /\ \A s \in Slots : delay[s] = <<>>
      /\ fresh = {b \in Blocks : home[b] = NoBin} /\ live = {}
      /\ \A b \in Blocks : magic[b] = IF home[b] = NoBin THEN "zero" ELSE "free"
  BY DEF Init
<1>5. \A s \in Slots : Len(delay[s]) = 0 /\ Delayed(s) = {}
  BY <1>4 DEF Delayed
<1>6. OnceInv
  BY <1>5 DEF OnceInv
<1>7. ASSUME NEW b \in Blocks PROVE GoodBlock(b)
  <2>1. /\ \A t \in Threads : pc[t] = "idle" /\ blk[t] # b /\ old[t] # b
        /\ home[b] \in MemBins \cup {NoBin}
    BY <1>1, <1>2, HeapAssumption DEF TypeInv
  <2>2. PlaceOf(b)
    BY <1>4, <1>5, <1>7, <2>1, BinShape DEF PlaceOf
  <2>3. OwnOf(b)
    BY <1>4, <2>1 DEF OwnOf
  <2>4. MagicOf(b)
    BY <1>4, <1>5, <2>1, BinShape DEF MagicOf
  <2>5. QED
    BY <2>2, <2>3, <2>4 DEF GoodBlock
<1>8. QED
  BY <1>1, <1>3, <1>6, <1>7 DEF Inv, BlockInv

LEMMA StutterInv == Inv /\ UNCHANGED vars => Inv'
<1> SUFFICES ASSUME Inv, UNCHANGED vars PROVE Inv'
  OBVIOUS
<1>1. UNCHANGED <<home, magic, usrDataSize, headFree, numFree, headInUse, allocs, frees,
                  delay, requested, freed, hwm, lastDump, histoAllocs, histoFrees, lock,
                  fresh, gMutex, live, aborted, pc, bin, size, blk, old, dumpAt, after>>
  BY DEF vars, header, freeLists, binStats, slotStats, request, dumping
<1>2. TypeInv'
  BY <1>1 DEF Inv, TypeInv
<1>3. PcInv' /\ LockInv' /\ TakeInv'
  BY <1>1 DEF Inv, PcInv, PcOf, UsesBin, HasBlk, Freeing, LockInv, LockOf, Holds, SlotOf,
              TakeInv, TakeOf
<1>4. OnceInv' /\ \A s : Delayed(s)' = Delayed(s)
  BY <1>1 DEF Inv, BlockInv, OnceInv, Delayed
<1>5. ASSUME NEW b \in Blocks PROVE GoodBlock(b)'
  <2>1. GoodBlock(b)
    BY DEF Inv, BlockInv
  <2>2. PlaceOf(b)'
    BY <1>1, <1>4, <2>1 DEF GoodBlock, PlaceOf
  <2>3. OwnOf(b)'
    BY <1>1, <2>1 DEF GoodBlock, OwnOf
  <2>4. MagicOf(b)'
    BY <1>1, <1>4, <2>1 DEF GoodBlock, MagicOf, HasBlk, Freeing
  <2>5. QED
    BY <2>2, <2>3, <2>4 DEF GoodBlock
<1>6. QED
  BY <1>2, <1>3, <1>4, <1>5 DEF Inv, BlockInv

LEMMA NextInv == Inv /\ [Next]_vars => Inv'
<1> SUFFICES ASSUME Inv, [Next]_vars PROVE Inv'
  OBVIOUS
<1>1. ASSUME NEW t \in Threads, Call(t) \/ Step(t) PROVE Inv'
  BY <1>1, TypeStep, PcStep, LockStep, BlockStep, TakeStepKeeps DEF Inv
<1>2. CASE UNCHANGED vars
  BY <1>2, StutterInv
<1>3. QED
  BY <1>1, <1>2 DEF Next, Gone

LEMMA Invariant == Spec => []Inv
BY InitInv, NextInv, PTL DEF Spec

(***************************************************************************)
(* What follows from it.                                                   *)
(***************************************************************************)
(* Kinds, in the words of the invariant. *)
LEMMA OneKind ==
  ASSUME Inv, NEW b \in Blocks
  PROVE  /\ "fresh" \in Kinds(b) => Kinds(b) = {"fresh"}
         /\ "free" \in Kinds(b) => Kinds(b) = {"free"}
         /\ "inuse" \in Kinds(b) => Kinds(b) = {"inuse"}
         /\ "delayed" \in Kinds(b) => Kinds(b) = {"delayed"}
         /\ "inhand" \in Kinds(b) => Kinds(b) = {"inhand"}
         /\ Kinds(b) # {}
<1> DEFINE IsFree == \E i \in MemBins : b \in headFree[i]
           IsUsed == \E i \in MemBins : b \in headInUse[i]
           IsDelayed == \E s \in Slots : b \in Delayed(s)
           IsInHand == \E t \in Threads : pc[t] \in InHandPc /\ old[t] = b
<1>1. PlaceOf(b) /\ OwnOf(b) /\ home[b] \in MemBins \cup {NoBin}
  BY DEF Inv, BlockInv, GoodBlock, TypeInv
<1>2. \A t \in Threads : b \in InHand(t) <=> pc[t] \in InHandPc /\ old[t] = b
  BY DEF InHand, InHandPc
<1>3. \A k : k \in Kinds(b) <=> \/ k = "fresh" /\ b \in fresh
                                \/ k = "free" /\ IsFree
                                \/ k = "inuse" /\ IsUsed
                                \/ k = "delayed" /\ IsDelayed
                                \/ k = "inhand" /\ IsInHand
  BY <1>2 DEF Kinds
<1>4. b \in fresh => ~IsFree /\ ~IsUsed /\ ~IsDelayed /\ ~IsInHand
  BY <1>1, BinShape DEF PlaceOf, OwnOf
<1>5. IsFree => ~IsUsed /\ ~IsDelayed /\ ~IsInHand
  BY <1>1 DEF PlaceOf, OwnOf
<1>6. IsUsed => ~IsDelayed /\ ~IsInHand
  BY <1>1 DEF PlaceOf, OwnOf
<1>7. IsDelayed => ~IsInHand
  BY <1>1 DEF PlaceOf, OwnOf
<1>8. b \in fresh \/ IsFree \/ IsUsed \/ IsDelayed \/ IsInHand
  BY <1>1, BinShape DEF PlaceOf
<1> HIDE DEF IsFree, IsUsed, IsDelayed, IsInHand
<1>9. QED
  BY <1>3, <1>4, <1>5, <1>6, <1>7, <1>8

LEMMA InvOnePlace == Inv => OnePlace
<1> SUFFICES ASSUME Inv PROVE OnePlace
  OBVIOUS
<1>1. ASSUME NEW b \in Blocks PROVE \E k \in Kinds(b) : Kinds(b) = {k}
  <2>1. \A k \in Kinds(b) : k \in {"fresh", "free", "inuse", "delayed", "inhand"}
    BY DEF Kinds
  <2>2. QED
    BY <2>1, OneKind
<1>2. /\ headFree \in [MemBins -> SUBSET Blocks] /\ headInUse \in [MemBins -> SUBSET Blocks]
      /\ delay \in [Slots -> Seq(Blocks)] /\ \A b \in Blocks : PlaceOf(b)
  BY DEF Inv, TypeInv, BlockInv, GoodBlock
<1>3. ASSUME NEW i \in MemBins, NEW b \in headFree[i] \cup headInUse[i] PROVE home[b] = i
  BY <1>2, <1>3 DEF PlaceOf
<1>4. ASSUME NEW s \in Slots, NEW b \in Delayed(s) PROVE home[b][1] = s
  <2>1. b \in Blocks
    <3>1. PICK k \in 1 .. Len(delay[s]) : b = delay[s][k]
      BY DEF Delayed
    <3>2. QED
      BY <1>2, <3>1, ElementOfSeq
  <2>2. QED
    BY <1>2, <2>1 DEF PlaceOf
<1>5. QED
  BY <1>1, <1>3, <1>4 DEF OnePlace

(* No memory is lost or doubled by malloc, realloc and free: with any      *)
(* number of threads, slots, bins and blocks, a block is in one place, and *)
(* on the lists of its own bin and slot.                                   *)
THEOREM NothingLost == Spec => []OnePlace
BY InvOnePlace, Invariant, PTL

LEMMA InvExclusive == Inv => Exclusive
<1> SUFFICES ASSUME Inv, NEW b \in Blocks
             PROVE  /\ \A x, y \in Owners(b) : x = y
                    /\ Owners(b) # {} <=> Kinds(b) \subseteq {"inuse", "inhand"}
                    /\ \A t \in Threads : blk[t] = b => old[t] # b
  BY DEF Exclusive
<1>1. OwnOf(b)
  BY DEF Inv, BlockInv, GoodBlock
<1>2. \A x : x \in Owners(b) <=> \/ x = NoThread /\ b \in live
                                 \/ x \in Threads /\ (blk[x] = b \/ old[x] = b)
  BY DEF Owners
<1>3. \A x, y \in Owners(b) : x = y
  BY <1>1, <1>2 DEF OwnOf
<1>4. \A t \in Threads : blk[t] = b => old[t] # b
  BY <1>1 DEF OwnOf
<1>5. "inuse" \in Kinds(b) <=> \E i \in MemBins : b \in headInUse[i]
  BY DEF Kinds
<1>6. "inhand" \in Kinds(b) <=> \E t \in Threads : pc[t] \in InHandPc /\ old[t] = b
  <2>1. \A t \in Threads : b \in InHand(t) <=> pc[t] \in InHandPc /\ old[t] = b
    BY DEF InHand, InHandPc
  <2>2. QED
    BY <2>1 DEF Kinds
<1>7. ASSUME NEW x \in Owners(b) PROVE "inuse" \in Kinds(b) \/ "inhand" \in Kinds(b)
  BY <1>1, <1>2, <1>5, <1>6, <1>7 DEF OwnOf
<1>8. ASSUME "inuse" \in Kinds(b) \/ "inhand" \in Kinds(b) PROVE Owners(b) # {}
  BY <1>1, <1>2, <1>5, <1>6, <1>8 DEF OwnOf
<1>9. Kinds(b) \subseteq {"inuse", "inhand"} <=> "inuse" \in Kinds(b) \/ "inhand" \in Kinds(b)
  BY OneKind
<1>10. QED
  BY <1>3, <1>4, <1>7, <1>8, <1>9

(* malloc never hands out memory that somebody owns: a block in use has    *)
(* one owner, the caller or a single call in progress.                     *)
THEOREM SingleOwner == Spec => []Exclusive
BY InvExclusive, Invariant, PTL

LEMMA InvAssertions == Inv => AssertionsHold
<1> SUFFICES ASSUME Inv PROVE AssertionsHold
  OBVIOUS
<1>1. /\ live \subseteq Blocks /\ PcInv /\ LockInv /\ TakeInv
      /\ \A b \in Blocks : MagicOf(b)
  BY DEF Inv, TypeInv, BlockInv, GoodBlock
<1>2. \A b \in live : magic[b] = "inuse"
  BY <1>1 DEF MagicOf
<1>3. ASSUME NEW t \in Threads
      PROVE  /\ pc[t] = "take" => headFree[bin[t]] # {}
             /\ pc[t] = "publish" => magic[blk[t]] = "free"
             /\ pc[t] = "mark" => magic[old[t]] = "inuse"
             /\ Holds(t) => lock[SlotOf(t)] = t
  <2>1. pc[t] = "publish" => magic[blk[t]] = "free"
    BY <1>1 DEF PcInv, PcOf, HasBlk, MagicOf
  <2>2. pc[t] = "mark" => magic[old[t]] = "inuse"
    BY <1>1 DEF PcInv, PcOf, Freeing, MagicOf, Marked
  <2>3. QED
    BY <1>1, <2>1, <2>2 DEF TakeInv, TakeOf, LockInv, LockOf
<1>4. QED
  BY <1>2, <1>3 DEF AssertionsHold

(* The magic checks of memalignInt and free, made without the lock, and    *)
(* getBuf's use of headFree never fail, and no thread enters a slot's      *)
(* section without its lock.                                               *)
THEOREM NoAssertionFails == Spec => []AssertionsHold
BY InvAssertions, Invariant, PTL

LEMMA StepKeepsHeaders ==
  ASSUME Inv, NEW t \in Threads, Call(t) \/ Step(t), NEW b \in live
  PROVE  home'[b] = home[b] /\ magic'[b] = magic[b] /\ usrDataSize'[b] = usrDataSize[b]
<1>1. b \in Blocks /\ OwnOf(b) /\ PlaceOf(b)
  BY DEF Inv, TypeInv, BlockInv, GoodBlock
<1>2. /\ home \in [Blocks -> MemBins \cup {NoBin}]
      /\ magic \in [Blocks -> {"zero", "free", "inuse"}]
      /\ usrDataSize \in [Blocks -> Nat]
  BY DEF Inv, TypeInv
<1>3. blk[t] # b /\ old[t] # b /\ b \notin fresh
  BY <1>1, BinShape DEF OwnOf, PlaceOf
<1>4. CASE Call(t)
  BY <1>4 DEF Call, Malloc, Realloc, Free, Report, header
<1>5. CASE Carve(t)
  <2>1. PICK c \in fresh : /\ home' = [home EXCEPT ![c] = bin[t]]
                           /\ magic' = [magic EXCEPT ![c] = "free"]
                           /\ UNCHANGED usrDataSize
    BY <1>5 DEF Carve
  <2>2. QED
    BY <1>1, <1>2, <1>3, <2>1
<1>6. CASE Publish(t)
  <2>1. /\ magic' = [magic EXCEPT ![blk[t]] = "inuse"]
        /\ usrDataSize' = [usrDataSize EXCEPT ![blk[t]] = size[t]]
        /\ UNCHANGED home
    BY <1>6 DEF Publish
  <2>2. QED
    BY <1>1, <1>2, <1>3, <2>1
<1>7. CASE Mark(t)
  BY <1>1, <1>2, <1>3, <1>7 DEF Mark
<1>8. CASE Step(t) /\ ~Carve(t) /\ ~Publish(t) /\ ~Mark(t)
  BY <1>8 DEF Step, LockSlot, CarveFails, CarveAborts, Take, Check, LockFree,
              PutFree, PutDelay, Batch, Delay, DumpSlot, DumpDone, header
<1>9. QED
  BY <1>4, <1>5, <1>6, <1>7, <1>8

(* Headers are written outside the lock (Publish, Mark), yet no step of    *)
(* any thread writes the header of a block that its caller keeps.          *)
THEOREM HeadersSafe == Spec => HeaderUntouched
<1>1. Inv /\ [Next]_vars =>
        [\A b \in live \cap live' :
           home'[b] = home[b] /\ magic'[b] = magic[b] /\ usrDataSize'[b] = usrDataSize[b]]_vars
  <2> SUFFICES ASSUME Inv, Next, NEW b \in live \cap live'
               PROVE  \/ /\ home'[b] = home[b] /\ magic'[b] = magic[b]
                         /\ usrDataSize'[b] = usrDataSize[b]
                      \/ UNCHANGED vars
    OBVIOUS
  <2>1. QED
    BY StepKeepsHeaders DEF Next, Gone
<1>2. QED
  BY <1>1, Invariant, PTL DEF Spec, HeaderUntouched
===============================================================================
