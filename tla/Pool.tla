--------------------------------- MODULE Pool ---------------------------------
(***************************************************************************)
(* GuardRails.c: the memory pools (addNewMemPool, getFromPool) and the     *)
(* start of the library (initialize, initBinsMeta, replenishSlots).  A     *)
(* pool is an anonymous mapping that is cut from its start into blocks,    *)
(* each followed by a guard page; nothing is ever given back.              *)
(*                                                                         *)
(* Every step is under gMutex, or in the constructor, so that the pools    *)
(* are sequential; SlotHeap has the threads that wait for gMutex, and      *)
(* replenishBin's later calls are requests for any bin here.  An address   *)
(* is a pool's number and an offset: mmap never returns memory twice.      *)
(***************************************************************************)
EXTENDS Integers, FiniteSets, FiniteSetsExt, Functions

CONSTANTS
  PageSize,        \* PAGE_SIZE, and guardSize, since NUM_GP is 1
  MaxMemPools,     \* MAX_MEM_POOLS
  MinExpandSize,   \* MEMPOOL_MIN_EXPAND_SIZE
  StartPoolMult,   \* START_POOL_MULT
  NumSlots,        \* -s
  BinNums,         \* the bins that callers ask for
  StartBins,       \* those with watermarks, filled at the start
  HighWater,       \* their high water mark
  AddressLimit,    \* RLIMIT_AS
  LockMemory,      \* -m
  AbortOnOOM,      \* -a
  NoBin

Slots == 0 .. NumSlots - 1
PoolNums == 0 .. MaxMemPools - 1
BinSize(n) == 2 ^ n

ASSUME PoolAssumption ==
  /\ PageSize \in Nat \ {0} /\ MaxMemPools \in Nat \ {0}
  /\ {MinExpandSize, AddressLimit} \subseteq Nat /\ StartPoolMult \in Nat \ {0}
  /\ NumSlots \in Nat /\ HighWater \in Nat \ {0} /\ IsFiniteSet(StartBins)
  /\ {LockMemory, AbortOnOOM} \subseteq BOOLEAN
  /\ StartBins \subseteq BinNums /\ BinNums \subseteq Nat /\ NoBin \notin BinNums
  /\ \A n \in BinNums : \E k \in 1 .. BinSize(n) : BinSize(n) = k * PageSize

VARIABLES
  memPools,        \* the table of pools
  currMemPool,     \* the pool in use, -1 before the first
  pc,              \* "new", "idle", "get" and "carve" (in getFromPool), "gone"
  want,            \* the bin that getFromPool works for
  left,            \* the bins (slotNum, binNum) that replenishSlots has yet to fill
  numFree,         \* what it has put into each
  carved,          \* the blocks handed out
  guards           \* the pages mapped PROT_NONE

vars == <<memPools, currMemPool, pc, want, left, numFree, carved, guards>>
memory == <<memPools, currMemPool, carved, guards>>

NoPool == [totalSizeBytes |-> 0, remainingSizeBytes |-> 0, startFree |-> 0]
NewPool(size) == [totalSizeBytes |-> size, remainingSizeBytes |-> size, startFree |-> 0]

Init ==
  /\ memPools = [p \in PoolNums |-> NoPool]
  /\ currMemPool = -1
  /\ pc = "new" /\ want = NoBin
  /\ left = {} /\ numFree = [i \in Slots \X StartBins |-> 0]
  /\ carved = {} /\ guards = {}

(***************************************************************************)
(* addNewMemPool.                                                          *)
(***************************************************************************)
(* The size is rounded up to the next page even if it is a whole number.   *)
PoolSizeExact(req) == (req \div PageSize) * PageSize              \* a mutant
PoolSizeOf(req) == (req \div PageSize + 1) * PageSize

MapPoolUnchecked(req) ==                                          \* a mutant
  /\ currMemPool' = currMemPool + 1
  /\ memPools' = [memPools EXCEPT ![currMemPool + 1] = NewPool(PoolSizeOf(req))]

(* mmap, and mlock with -m, succeed and the table has an entry left. *)
MapPool(req) ==
  /\ currMemPool + 1 < MaxMemPools
  /\ currMemPool' = currMemPool + 1
  /\ memPools' = [memPools EXCEPT ![currMemPool + 1] = NewPool(PoolSizeOf(req))]

(* The assertion on the table, -a, or mlock: after a report the process    *)
(* aborts.                                                                 *)
MapAborts(req) == \/ currMemPool + 1 >= MaxMemPools
                  \/ AbortOnOOM /\ req < AddressLimit
                  \/ LockMemory

(* mmap fails and addNewMemPool says so. *)
MapFails(req) == ~(AbortOnOOM /\ req < AddressLimit)

Abort == pc' = "gone" /\ UNCHANGED <<want, left, numFree, memory>>

(***************************************************************************)
(* initialize.                                                             *)
(***************************************************************************)
BinBytes(n) == HighWater * (BinSize(n) + PageSize)
BinsBytes(bins) == SumFunctionOnSet([n \in StartBins |-> BinBytes(n)], bins)
initBinsMetaOfLast == BinsBytes({Max(StartBins)})                 \* a mutant
initBinsMeta == NumSlots * BinsBytes(StartBins)

Initialize ==
  /\ pc = "new"
  /\ MapPool(StartPoolMult * initBinsMeta)
  /\ pc' = "idle"
  /\ left' = Slots \X StartBins
  /\ UNCHANGED <<want, numFree, carved, guards>>

(* A failing mmap is an abort here, whatever the options. *)
InitializeAborts == pc = "new" /\ Abort

(* replenishSlots and replenishBins go through the slots and their bins.   *)
FirstLeft == CHOOSE i \in left : \A j \in left : \/ i[1] < j[1]
                                                 \/ i[1] = j[1] /\ i[2] <= j[2]

(***************************************************************************)
(* getFromPool, called by replenishBin.                                    *)
(***************************************************************************)
Request(n) ==
  /\ pc = "idle"
  /\ left # {} => n = FirstLeft[2]
  /\ pc' = "get" /\ want' = n
  /\ UNCHANGED <<left, numFree, memory>>

Need == BinSize(want) + PageSize
Fits == memPools[currMemPool].remainingSizeBytes >= Need
ExpandSize == IF MinExpandSize > BinSize(want) THEN MinExpandSize ELSE BinSize(want)

(* What is left of the old pool is lost. *)
Grow ==
  /\ pc = "get" /\ ~Fits
  /\ MapPool(ExpandSize)
  /\ pc' = "carve"
  /\ UNCHANGED <<want, left, numFree, carved, guards>>

GrowAborts == pc = "get" /\ ~Fits /\ MapAborts(ExpandSize) /\ Abort

(* The call that needs the block fails.  At the start replenishBins gives  *)
(* the slot up, and replenishSlots goes on with the next.                  *)
GrowFails ==
  /\ pc = "get" /\ ~Fits
  /\ MapFails(ExpandSize)
  /\ pc' = "idle" /\ want' = NoBin
  /\ left' = {i \in left : i[1] # FirstLeft[1]}
  /\ UNCHANGED <<numFree, memory>>

(* replenishBin takes another block until the bin is at its high water.    *)
Filled ==
  IF left = {} THEN UNCHANGED <<left, numFree>>
  ELSE /\ numFree' = [numFree EXCEPT ![FirstLeft] = @ + 1]
       /\ left' = IF numFree[FirstLeft] + 1 < HighWater THEN left ELSE left \ {FirstLeft}

(* A mutant: the next block starts on the guard page. *)
CutWithoutGuard(pool, size) ==
  [pool EXCEPT !.startFree = @ + size, !.remainingSizeBytes = @ - size]
Cut(pool, size) ==
  [pool EXCEPT !.startFree = @ + size + PageSize,
               !.remainingSizeBytes = @ - (size + PageSize)]

Carve ==
  /\ pc = "carve" \/ (pc = "get" /\ Fits)
  /\ LET start == memPools[currMemPool].startFree
         size == BinSize(want)
     IN  /\ carved' = carved \cup {[pool |-> currMemPool, start |-> start, size |-> size]}
         /\ guards' = guards \cup {[pool |-> currMemPool, start |-> start + size]}
         /\ memPools' = [memPools EXCEPT ![currMemPool] = Cut(@, size)]
  /\ Filled
  /\ pc' = "idle" /\ want' = NoBin
  /\ UNCHANGED currMemPool

(* The kernel runs out of mappings: mprotect fails and the process aborts. *)
CarveAborts == (pc = "carve" \/ (pc = "get" /\ Fits)) /\ Abort

Gone == pc = "gone" /\ UNCHANGED vars

Next == \/ Initialize \/ InitializeAborts
        \/ \E n \in BinNums : Request(n)
        \/ Grow \/ GrowAborts \/ GrowFails
        \/ Carve \/ CarveAborts
        \/ Gone

Spec == Init /\ [][Next]_vars

(***************************************************************************)
(* Properties.                                                             *)
(***************************************************************************)
(* Every variable keeps its type; the table of pools is never overrun. *)
TypeOK ==
  /\ memPools \in [PoolNums -> [totalSizeBytes : Nat, remainingSizeBytes : Int,
                                startFree : Nat]]
  /\ currMemPool \in PoolNums \cup {-1}
  /\ pc \in {"new", "idle", "get", "carve", "gone"}
  /\ want \in BinNums \cup {NoBin}
  /\ left \subseteq Slots \X StartBins
  /\ numFree \in [Slots \X StartBins -> Nat]
  /\ carved \subseteq [pool : PoolNums, start : Nat, size : Nat]
  /\ guards \subseteq [pool : PoolNums, start : Nat]

(* Blocks never overlap each other, a guard page or the end of their pool, *)
(* whatever sizes are asked for and however often the pools grow; an       *)
(* overrun of a block by up to a page runs into the guard page behind it.  *)
Separate ==
  /\ \A b \in carved :
       /\ b.start + b.size + PageSize <= memPools[b.pool].totalSizeBytes
       /\ [pool |-> b.pool, start |-> b.start + b.size] \in guards
  /\ \A b, c \in carved : b.pool = c.pool /\ b # c =>
       \/ b.start + b.size + PageSize <= c.start
       \/ c.start + c.size + PageSize <= b.start

(* No assertion of getFromPool fails: growing by the size of the block     *)
(* alone leaves room for its guard page too, because of the page that      *)
(* addNewMemPool adds; blocks and guard pages start on page boundaries.    *)
AssertionsHold ==
  /\ pc = "carve" => Fits
  /\ pc \in {"get", "carve"} =>
       /\ currMemPool >= 0
       /\ memPools[currMemPool].startFree % PageSize = 0
       /\ BinSize(want) % PageSize = 0

(* The first pool is made for the whole start: although replenishSlots     *)
(* ignores a failure, the library never starts with a bin below its high   *)
(* water mark, and never grows before it has started.                      *)
FullAtStart ==
  /\ pc = "idle" /\ left = {} =>
       \A i \in Slots \X StartBins : numFree[i] = HighWater
  /\ left # {} => currMemPool = 0
===============================================================================
