------------------------------ MODULE Pool_proofs -----------------------------
(***************************************************************************)
(* The pools are cut into separate blocks for every page size, block size  *)
(* and number of pools.                                                    *)
(***************************************************************************)
EXTENDS Pool, Sums

(***************************************************************************)
(* Arithmetic of pages.                                                    *)
(***************************************************************************)
Aligned(x) == \E k \in Nat : x = k * PageSize

LEMMA BinAligned ==
  ASSUME NEW n \in BinNums
  PROVE  BinSize(n) \in Nat /\ Aligned(BinSize(n)) /\ BinSize(n) > 0
<1>1. PICK k \in Nat \ {0} : BinSize(n) = k * PageSize
  BY PoolAssumption
<1>2. PageSize \in Nat /\ PageSize > 0 /\ k \in Nat /\ k > 0
  BY PoolAssumption
<1>3. k * PageSize \in Nat /\ k * PageSize > 0
  BY <1>2, Z3
<1>4. QED
  BY <1>1, <1>2, <1>3 DEF Aligned

LEMMA AlignedSum ==
  ASSUME NEW x \in Nat, NEW y \in Nat, Aligned(x), Aligned(y)
  PROVE  Aligned(x + y + PageSize)
<1>1. PICK k \in Nat : x = k * PageSize
  BY DEF Aligned
<1>2. PICK m \in Nat : y = m * PageSize
  BY DEF Aligned
<1>3. PageSize \in Nat
  BY PoolAssumption
<1>4. x + y + PageSize = (k + m + 1) * PageSize
  BY <1>1, <1>2, <1>3, Z3
<1>5. QED
  BY <1>4 DEF Aligned

LEMMA AlignedMod ==
  ASSUME NEW x \in Nat, Aligned(x)
  PROVE  x % PageSize = 0
<1>1. PICK k \in Nat : x = k * PageSize
  BY DEF Aligned
<1>2. PageSize \in Nat /\ PageSize > 0
  BY PoolAssumption
<1>3. QED
  BY <1>1, <1>2, Z3

(* addNewMemPool rounds up past the size that it is asked for. *)
LEMMA PoolHolds ==
  ASSUME NEW req \in Nat, NEW x \in Nat, Aligned(x), x <= req
  PROVE  PoolSizeOf(req) \in Nat /\ PoolSizeOf(req) >= x + PageSize
<1>1. PICK k \in Nat : x = k * PageSize
  BY DEF Aligned
<1>2. PageSize \in Nat /\ PageSize > 0
  BY PoolAssumption
<1> DEFINE q == req \div PageSize
<1>3. q \in Nat /\ q * PageSize <= req /\ req < q * PageSize + PageSize
  BY <1>2, Z3
<1>4. k <= q
  <2>1. SUFFICES ASSUME k >= q + 1 PROVE FALSE
    BY <1>3
  <2>2. k * PageSize >= (q + 1) * PageSize
    BY <1>2, <1>3, <2>1, Z3
  <2>3. (q + 1) * PageSize = q * PageSize + PageSize
    BY <1>2, <1>3, Z3
  <2>4. QED
    BY <1>1, <1>2, <1>3, <2>2, <2>3
<1>5. (q + 1) * PageSize \in Nat /\ (q + 1) * PageSize >= (k + 1) * PageSize
  BY <1>2, <1>3, <1>4, Z3
<1>6. (k + 1) * PageSize = x + PageSize
  BY <1>1, <1>2, Z3
<1>7. QED
  BY <1>5, <1>6 DEF PoolSizeOf

(* It never makes a pool smaller than it is asked to. *)
LEMMA PoolCovers ==
  ASSUME NEW req \in Nat
  PROVE  PoolSizeOf(req) \in Nat /\ PoolSizeOf(req) >= req
<1>1. PageSize \in Nat /\ PageSize > 0
  BY PoolAssumption
<1> DEFINE q == req \div PageSize
<1>2. q \in Nat /\ req < q * PageSize + PageSize
  BY <1>1, Z3
<1>3. (q + 1) * PageSize = q * PageSize + PageSize /\ q * PageSize \in Nat
  BY <1>1, <1>2, Z3
<1>4. QED
  BY <1>1, <1>2, <1>3 DEF PoolSizeOf

(* initBinsMeta is a size. *)
LEMMA StartSize ==
  /\ IsFiniteSet(StartBins) /\ \A n \in StartBins : BinBytes(n) \in Nat
  /\ BinsBytes(StartBins) \in Nat /\ initBinsMeta \in Nat
<1>1. ASSUME NEW n \in StartBins PROVE BinBytes(n) \in Nat
  <2>1. BinSize(n) + PageSize \in Nat /\ HighWater \in Nat
    BY BinAligned, PoolAssumption
  <2>2. QED
    BY <2>1, Z3 DEF BinBytes
<1>2. IsFiniteSet(StartBins) /\ NumSlots \in Nat
  BY PoolAssumption
<1> DEFINE h == [n \in StartBins |-> BinBytes(n)]
<1>3. \A n \in StartBins : h[n] \in Nat
  BY <1>1
<1> HIDE DEF h
<1>4. SumFunctionOnSet(h, StartBins) \in Nat
  BY <1>2, <1>3, SumNat
<1>5. BinsBytes(StartBins) \in Nat
  BY <1>4 DEF h, BinsBytes
<1>6. NumSlots * BinsBytes(StartBins) \in Nat
  BY <1>2, <1>5, Z3
<1>7. QED
  BY <1>1, <1>2, <1>5, <1>6 DEF initBinsMeta

(***************************************************************************)
(* The inductive invariant.                                                *)
(***************************************************************************)
(* A pool is cut up to startFree, which is a page boundary, and the rest   *)
(* is what remains of it. *)
GoodPool(pool) ==
  /\ pool.remainingSizeBytes >= 0
  /\ pool.startFree + pool.remainingSizeBytes = pool.totalSizeBytes
  /\ Aligned(pool.startFree)

(* A block and its guard page lie in the cut part of a pool in use. *)
InPool(b) ==
  /\ b.pool <= currMemPool
  /\ b.start + b.size + PageSize <= memPools[b.pool].startFree
  /\ [pool |-> b.pool, start |-> b.start + b.size] \in guards

Apart(b, c) ==
  \/ b.start + b.size + PageSize <= c.start
  \/ c.start + c.size + PageSize <= b.start

Called == pc \in {"get", "carve"}

PoolInv == \A p \in PoolNums : GoodPool(memPools[p])
BlockInv == /\ \A b \in carved : InPool(b)
            /\ \A b, c \in carved : b.pool = c.pool /\ b # c => Apart(b, c)
CallInv == /\ pc \in {"idle", "get", "carve"} => currMemPool >= 0
           /\ Called => want \in BinNums
           /\ pc = "carve" => Fits
           /\ left # {} => currMemPool >= 0 /\ pc # "new"
Inv == TypeOK /\ PoolInv /\ BlockInv /\ CallInv

LEMMA FreshPool ==
  ASSUME NEW size \in Nat
  PROVE  /\ NewPool(size) \in [totalSizeBytes : Nat, remainingSizeBytes : Int, startFree : Nat]
         /\ GoodPool(NewPool(size))
<1>1. 0 = 0 * PageSize
  BY PoolAssumption, Z3
<1>2. QED
  BY <1>1 DEF NewPool, GoodPool, Aligned

LEMMA InitInv == Init => Inv
<1> SUFFICES ASSUME Init PROVE Inv
  OBVIOUS
<1>1. NoPool = NewPool(0)
  BY DEF NoPool, NewPool
<1>2. TypeOK
  <2>1. memPools \in [PoolNums -> [totalSizeBytes : Nat, remainingSizeBytes : Int,
                                   startFree : Nat]]
    BY <1>1, FreshPool DEF Init
  <2>2. QED
    BY <2>1 DEF Init, TypeOK
<1>3. PoolInv
  BY <1>1, FreshPool DEF Init, PoolInv
<1>4. BlockInv /\ CallInv
  BY DEF Init, BlockInv, CallInv, Called
<1>5. QED
  BY <1>2, <1>3, <1>4 DEF Inv

(* A new pool disturbs nothing that lies in the others. *)
LEMMA MapPoolKeeps ==
  ASSUME Inv, NEW req \in Nat, MapPool(req), UNCHANGED <<carved, guards>>
  PROVE  /\ currMemPool' \in PoolNums /\ currMemPool' >= 0
         /\ memPools' \in [PoolNums -> [totalSizeBytes : Nat, remainingSizeBytes : Int,
                                        startFree : Nat]]
         /\ memPools'[currMemPool'] = NewPool(PoolSizeOf(req))
         /\ PoolInv' /\ BlockInv'
<1> DEFINE p == currMemPool + 1
<1>1. /\ p \in PoolNums /\ currMemPool' = p /\ p > currMemPool
      /\ memPools' = [memPools EXCEPT ![p] = NewPool(PoolSizeOf(req))]
  BY PoolAssumption DEF Inv, TypeOK, MapPool, PoolNums
<1>2. memPools \in [PoolNums -> [totalSizeBytes : Nat, remainingSizeBytes : Int,
                                 startFree : Nat]]
  BY DEF Inv, TypeOK
<1>3. PoolSizeOf(req) \in Nat
  <2>1. Aligned(0)
    BY FreshPool DEF GoodPool, NewPool
  <2>2. QED
    BY <2>1, PoolHolds
<1> HIDE DEF p
<1>4. /\ memPools'[p] = NewPool(PoolSizeOf(req))
      /\ \A q \in PoolNums : q # p => memPools'[q] = memPools[q]
  BY <1>1, <1>2
<1>5. memPools' \in [PoolNums -> [totalSizeBytes : Nat, remainingSizeBytes : Int,
                                  startFree : Nat]]
  BY <1>1, <1>2, <1>3, FreshPool
<1>6. PoolInv'
  <2>1. \A q \in PoolNums : GoodPool(memPools'[q])
    BY <1>3, <1>4, FreshPool DEF Inv, PoolInv
  <2>2. QED
    BY <2>1 DEF PoolInv, GoodPool
<1>7. ASSUME NEW b \in carved PROVE InPool(b)'
  <2>1. b.pool \in PoolNums /\ b.pool <= currMemPool /\ InPool(b)
    BY DEF Inv, TypeOK, BlockInv, InPool
  <2>2. b.pool # p /\ b.pool <= p
    <3>1. currMemPool \in Int /\ p \in Int /\ b.pool \in Int
      BY <1>1, <2>1, PoolAssumption DEF Inv, TypeOK, PoolNums
    <3>2. QED
      BY <1>1, <2>1, <3>1
  <2>3. QED
    BY <1>1, <1>4, <2>1, <2>2 DEF InPool
<1>8. QED
  BY <1>1, <1>4, <1>5, <1>6, <1>7 DEF Inv, BlockInv, Apart, PoolNums

LEMMA InitializeKeepsInv == Inv /\ Initialize => Inv'
<1> SUFFICES ASSUME Inv, Initialize PROVE Inv'
  OBVIOUS
<1>1. StartPoolMult * initBinsMeta \in Nat
  BY PoolAssumption, StartSize, Z3
<1>2. /\ currMemPool' \in PoolNums /\ currMemPool' >= 0
      /\ memPools' \in [PoolNums -> [totalSizeBytes : Nat, remainingSizeBytes : Int,
                                     startFree : Nat]]
      /\ PoolInv' /\ BlockInv'
  BY <1>1, MapPoolKeeps DEF Initialize
<1>3. /\ UNCHANGED <<want, numFree, carved, guards>>
      /\ pc' = "idle" /\ left' = Slots \X StartBins
  BY DEF Initialize
<1>4. TypeOK' /\ CallInv'
  BY <1>2, <1>3 DEF Inv, TypeOK, CallInv, Called
<1>5. QED
  BY <1>2, <1>4 DEF Inv

LEMMA GrowKeepsInv == Inv /\ Grow => Inv'
<1> SUFFICES ASSUME Inv, Grow PROVE Inv'
  OBVIOUS
<1>1. want \in BinNums /\ BinSize(want) \in Nat /\ Aligned(BinSize(want))
  BY BinAligned DEF Inv, CallInv, Called, Grow
<1>2. ExpandSize \in Nat /\ BinSize(want) <= ExpandSize
  BY <1>1, PoolAssumption DEF ExpandSize
<1>3. PoolSizeOf(ExpandSize) \in Nat /\ PoolSizeOf(ExpandSize) >= BinSize(want) + PageSize
  BY <1>1, <1>2, PoolHolds
<1>4. /\ currMemPool' \in PoolNums /\ currMemPool' >= 0
      /\ memPools' \in [PoolNums -> [totalSizeBytes : Nat, remainingSizeBytes : Int,
                                     startFree : Nat]]
      /\ memPools'[currMemPool'] = NewPool(PoolSizeOf(ExpandSize))
      /\ PoolInv' /\ BlockInv'
  BY <1>2, MapPoolKeeps DEF Grow
<1>5. UNCHANGED <<want, left, numFree, carved, guards>> /\ pc = "get" /\ pc' = "carve"
  BY DEF Grow
<1>6. TypeOK'
  BY <1>4, <1>5 DEF Inv, TypeOK
<1>7. Fits'
  BY <1>3, <1>4, <1>5 DEF Fits, Need, NewPool
<1>8. CallInv'
  BY <1>1, <1>4, <1>5, <1>7 DEF CallInv, Called
<1>9. QED
  BY <1>4, <1>6, <1>8 DEF Inv

LEMMA FilledType ==
  ASSUME Inv, Filled
  PROVE  left' \subseteq left /\ numFree' \in [Slots \X StartBins -> Nat]
<1>1. CASE left = {}
  BY <1>1 DEF Filled, Inv, TypeOK
<1>2. CASE left # {}
  <2> DEFINE i == FirstLeft
  <2>1. /\ numFree' = [numFree EXCEPT ![i] = @ + 1]
        /\ left' \subseteq left
    BY <1>2 DEF Filled
  <2> HIDE DEF i
  <2>2. numFree \in [Slots \X StartBins -> Nat]
    BY DEF Inv, TypeOK
  <2>3. CASE i \in Slots \X StartBins
    <3>1. numFree[i] + 1 \in Nat
      BY <2>2, <2>3
    <3>2. QED
      BY <2>1, <2>2, <3>1
  <2>4. CASE i \notin Slots \X StartBins
    BY <2>1, <2>2, <2>4
  <2>5. QED
    BY <2>1, <2>3, <2>4
<1>3. QED
  BY <1>1, <1>2

LEMMA CutPool ==
  ASSUME NEW r \in [totalSizeBytes : Nat, remainingSizeBytes : Int, startFree : Nat],
         NEW size \in Nat
  PROVE  /\ Cut(r, size) \in [totalSizeBytes : Nat, remainingSizeBytes : Int, startFree : Nat]
         /\ Cut(r, size).startFree = r.startFree + size + PageSize
         /\ Cut(r, size).remainingSizeBytes = r.remainingSizeBytes - (size + PageSize)
         /\ Cut(r, size).totalSizeBytes = r.totalSizeBytes
<1>1. PageSize \in Nat
  BY PoolAssumption
<1> DEFINE n == size + PageSize
           r1 == [r EXCEPT !.startFree = @ + size + PageSize]
<1>2. /\ r1 \in [totalSizeBytes : Nat, remainingSizeBytes : Int, startFree : Nat]
      /\ r1.startFree = r.startFree + size + PageSize
      /\ r1.remainingSizeBytes = r.remainingSizeBytes
      /\ r1.totalSizeBytes = r.totalSizeBytes
  BY <1>1
<1>3. Cut(r, size) = [r1 EXCEPT !.remainingSizeBytes = @ - n]
  BY DEF Cut
<1> HIDE DEF r1
<1>4. QED
  BY <1>1, <1>2, <1>3

LEMMA CarveKeepsInv == Inv /\ Carve => Inv'
<1> SUFFICES ASSUME Inv, Carve PROVE Inv'
  OBVIOUS
<1> DEFINE p == currMemPool
           start == memPools[p].startFree
           size == BinSize(want)
           new == [pool |-> p, start |-> start, size |-> size]
           page == [pool |-> p, start |-> start + size]
<1>1. /\ p \in PoolNums /\ p >= 0 /\ Fits
      /\ size \in Nat /\ Aligned(size) /\ size > 0
  BY BinAligned DEF Inv, TypeOK, CallInv, Called, Carve
<1>2. /\ memPools \in [PoolNums -> [totalSizeBytes : Nat, remainingSizeBytes : Int,
                                    startFree : Nat]]
      /\ start \in Nat /\ memPools[p].remainingSizeBytes \in Int
      /\ memPools[p].totalSizeBytes \in Nat /\ GoodPool(memPools[p])
      /\ PageSize \in Nat
  BY <1>1, PoolAssumption DEF Inv, TypeOK, PoolInv
<1>3. /\ carved' = carved \cup {new}
      /\ guards' = guards \cup {page}
      /\ memPools' = [memPools EXCEPT ![p] = Cut(memPools[p], size)]
      /\ currMemPool' = p /\ pc' = "idle" /\ want' = NoBin /\ Filled
  BY DEF Carve
<1>4. new \in [pool : PoolNums, start : Nat, size : Nat]
  BY <1>1, <1>2
<1>5. page \in [pool : PoolNums, start : Nat]
  BY <1>1, <1>2
<1>6. new.pool = p /\ new.start = start /\ new.size = size
  OBVIOUS
<1>7. /\ Cut(memPools[p], size)
           \in [totalSizeBytes : Nat, remainingSizeBytes : Int, startFree : Nat]
      /\ Cut(memPools[p], size).startFree = start + size + PageSize
      /\ Cut(memPools[p], size).remainingSizeBytes
           = memPools[p].remainingSizeBytes - (size + PageSize)
      /\ Cut(memPools[p], size).totalSizeBytes = memPools[p].totalSizeBytes
  <2>1. memPools[p] \in [totalSizeBytes : Nat, remainingSizeBytes : Int, startFree : Nat]
    BY <1>1, <1>2
  <2>2. size + PageSize \in Nat
    BY <1>1, <1>2
  <2>3. QED
    BY <1>1, <1>2, <2>1, <2>2, CutPool
<1>8. GoodPool(Cut(memPools[p], size))
  <2>1. memPools[p].remainingSizeBytes >= size + PageSize
    BY <1>1 DEF Fits, Need
  <2>2. Aligned(start + size + PageSize)
    BY <1>1, <1>2, AlignedSum DEF GoodPool
  <2>3. QED
    BY <1>1, <1>2, <1>7, <2>1, <2>2 DEF GoodPool
<1>9. /\ memPools'[p] = Cut(memPools[p], size)
      /\ \A q \in PoolNums : q # p => memPools'[q] = memPools[q]
  BY <1>1, <1>2, <1>3
<1> HIDE DEF p, start, size, new, page
<1>10. TypeOK'
  <2>1. left' \subseteq left /\ numFree' \in [Slots \X StartBins -> Nat]
    BY <1>3, FilledType
  <2>2. memPools' \in [PoolNums -> [totalSizeBytes : Nat, remainingSizeBytes : Int,
                                    startFree : Nat]]
    BY <1>2, <1>3, <1>7
  <2>3. carved' \subseteq [pool : PoolNums, start : Nat, size : Nat]
        /\ guards' \subseteq [pool : PoolNums, start : Nat]
    BY <1>3, <1>4, <1>5 DEF Inv, TypeOK
  <2>4. QED
    BY <1>1, <1>3, <2>1, <2>2, <2>3 DEF Inv, TypeOK
<1>11. PoolInv'
  <2>1. \A q \in PoolNums : GoodPool(memPools'[q])
    BY <1>8, <1>9 DEF Inv, PoolInv
  <2>2. QED
    BY <2>1 DEF PoolInv, GoodPool
<1>12. ASSUME NEW b \in carved
       PROVE  /\ InPool(b)' /\ b.start \in Nat /\ b.size \in Nat
              /\ b.pool = p => b.start + b.size + PageSize <= start
  <2>1. b.pool \in PoolNums /\ b.start \in Nat /\ b.size \in Nat /\ InPool(b)
    BY DEF Inv, TypeOK, BlockInv
  <2>2. b.pool = p => b.start + b.size + PageSize <= start
    BY <2>1 DEF InPool, start
  <2>3. InPool(b)'
    <3>1. b.pool <= currMemPool' /\ [pool |-> b.pool, start |-> b.start + b.size] \in guards'
      BY <1>3, <2>1 DEF InPool, p
    <3>2. b.start + b.size + PageSize <= memPools'[b.pool].startFree
      BY <1>1, <1>2, <1>7, <1>9, <2>1, <2>2 DEF InPool
    <3>3. QED
      BY <3>1, <3>2 DEF InPool
  <2>4. QED
    BY <2>1, <2>2, <2>3
<1>13. ASSUME NEW b \in carved', b = new PROVE InPool(b)'
  <2>1. [pool |-> b.pool, start |-> b.start + b.size] \in guards'
    BY <1>3, <1>6, <1>13 DEF page
  <2>2. b.start + b.size + PageSize <= memPools'[b.pool].startFree
    <3>1. memPools'[b.pool].startFree = start + size + PageSize
      BY <1>6, <1>7, <1>9, <1>13
    <3>2. start + size + PageSize \in Nat
      BY <1>1, <1>2
    <3>3. QED
      BY <1>6, <1>13, <3>1, <3>2
  <2>3. b.pool <= currMemPool'
    BY <1>1, <1>3, <1>6, <1>13, PoolAssumption DEF PoolNums
  <2>4. QED
    BY <2>1, <2>2, <2>3 DEF InPool
<1>14. BlockInv'
  <2>1. ASSUME NEW b \in carved, b.pool = new.pool
        PROVE  Apart(b, new) /\ Apart(new, b)
    <3>1. b.start + b.size + PageSize <= new.start
      BY <1>6, <1>12, <2>1
    <3>2. QED
      BY <3>1 DEF Apart
  <2>2. \A b \in carved' : InPool(b)'
    BY <1>3, <1>12, <1>13
  <2>3. \A b, c \in carved' : b.pool = c.pool /\ b # c => Apart(b, c)
    BY <1>3, <2>1 DEF Inv, BlockInv
  <2>4. QED
    BY <2>2, <2>3 DEF BlockInv, Apart
<1>15. CallInv'
  <2>1. left' # {} => left # {}
    BY <1>3, FilledType
  <2>2. QED
    BY <1>1, <1>3, <2>1 DEF CallInv, Called, p
<1>16. QED
  BY <1>10, <1>11, <1>14, <1>15 DEF Inv

LEMMA NextInv == Inv /\ [Next]_vars => Inv'
<1> SUFFICES ASSUME Inv, [Next]_vars PROVE Inv'
  OBVIOUS
<1>1. ASSUME UNCHANGED memory,
             pc' \in {"idle", "get", "carve", "gone"},
             pc' \in {"idle", "get"} => pc \in {"idle", "get"},
             pc' = "carve" => pc = "carve" /\ want' = want,
             pc' = "get" => want' \in BinNums,
             want' \in BinNums \cup {NoBin},
             left' \subseteq left, numFree' = numFree
      PROVE  Inv'
  <2>1. UNCHANGED <<memPools, currMemPool, carved, guards>>
    BY <1>1 DEF memory
  <2>2. TypeOK'
    BY <1>1, <2>1 DEF Inv, TypeOK
  <2>3. PoolInv' /\ BlockInv'
    BY <2>1 DEF Inv, PoolInv, GoodPool, BlockInv, InPool, Apart
  <2>4. CallInv'
    BY <1>1, <2>1 DEF Inv, CallInv, Called, Fits, Need
  <2>5. QED
    BY <2>2, <2>3, <2>4 DEF Inv
<1>2. CASE Initialize
  BY <1>2, InitializeKeepsInv
<1>3. CASE Grow
  BY <1>3, GrowKeepsInv
<1>4. CASE Carve
  BY <1>4, CarveKeepsInv
<1>5. ASSUME NEW n \in BinNums, Request(n) PROVE Inv'
  BY <1>1, <1>5 DEF Request
<1>6. CASE InitializeAborts \/ GrowAborts \/ CarveAborts
  BY <1>1, <1>6 DEF InitializeAborts, GrowAborts, CarveAborts, Abort, Inv, TypeOK
<1>7. CASE GrowFails
  BY <1>1, <1>7 DEF GrowFails
<1>8. CASE UNCHANGED vars
  BY <1>8 DEF vars, Inv, TypeOK, PoolInv, GoodPool, BlockInv, InPool, Apart, CallInv,
              Called, Fits, Need
<1>9. QED
  BY <1>2, <1>3, <1>4, <1>5, <1>6, <1>7, <1>8 DEF Next, Gone

LEMMA Invariant == Spec => []Inv
BY InitInv, NextInv, PTL DEF Spec

(***************************************************************************)
(* What follows from it.                                                   *)
(***************************************************************************)
(* The pools' variables keep their types: currMemPool never passes the     *)
(* table of addNewMemPool.                                                 *)
THEOREM TypeCorrect == Spec => []TypeOK
<1>1. Inv => TypeOK
  BY DEF Inv
<1>2. QED
  BY <1>1, Invariant, PTL

(* getFromPool hands out blocks that lie in their pool and share no byte   *)
(* with each other or with a guard page.                                   *)
THEOREM BlocksSeparate == Spec => []Separate
<1>1. ASSUME Inv PROVE Separate
  <2>1. ASSUME NEW b \in carved
        PROVE  /\ b.start + b.size + PageSize <= memPools[b.pool].totalSizeBytes
               /\ [pool |-> b.pool, start |-> b.start + b.size] \in guards
    <3>1. b \in [pool : PoolNums, start : Nat, size : Nat] /\ InPool(b)
      BY <1>1 DEF Inv, TypeOK, BlockInv
    <3>2. /\ memPools[b.pool] \in [totalSizeBytes : Nat, remainingSizeBytes : Int,
                                   startFree : Nat]
          /\ GoodPool(memPools[b.pool])
      BY <1>1, <3>1 DEF Inv, TypeOK, PoolInv
    <3>3. QED
      BY <3>1, <3>2, PoolAssumption DEF InPool, GoodPool
  <2>2. QED
    BY <1>1, <2>1 DEF Separate, Inv, BlockInv, Apart
<1>2. QED
  BY <1>1, Invariant, PTL

(* No assertion of getFromPool fails: a pool that is added for a block has *)
(* room for the block and its guard page, on page boundaries.              *)
THEOREM GrowthSuffices == Spec => []AssertionsHold
<1>1. ASSUME Inv PROVE AssertionsHold
  <2>1. ASSUME Called
        PROVE  /\ currMemPool >= 0
               /\ memPools[currMemPool].startFree % PageSize = 0
               /\ BinSize(want) % PageSize = 0
    <3>1. currMemPool \in PoolNums /\ currMemPool >= 0 /\ want \in BinNums
      BY <1>1, <2>1 DEF Inv, TypeOK, CallInv, Called
    <3>2. memPools[currMemPool].startFree \in Nat /\ Aligned(memPools[currMemPool].startFree)
      BY <1>1, <3>1 DEF Inv, TypeOK, PoolInv, GoodPool
    <3>3. QED
      BY <3>1, <3>2, AlignedMod, BinAligned
  <2>2. QED
    BY <1>1, <2>1 DEF AssertionsHold, Called, Inv, CallInv
<1>2. QED
  BY <1>1, Invariant, PTL

(***************************************************************************)
(* The start.                                                              *)
(***************************************************************************)
StartIndex == Slots \X StartBins

(* The bytes that a bin still takes from the first pool. *)
MissingOf(n) == [i \in StartIndex |-> (HighWater - n[i]) * (BinSize(i[2]) + PageSize)]
Missing == MissingOf(numFree)

(* While bins are left to be filled, the first pool has the room for all   *)
(* that they lack, so that getFromPool never grows; those that are no      *)
(* longer left are full.                                                   *)
Filling ==
  /\ pc \notin {"new", "carve"} /\ currMemPool = 0
  /\ pc = "get" => want = FirstLeft[2]
  /\ \A i \in left : numFree[i] < HighWater
  /\ memPools[0].remainingSizeBytes >= SumFunctionOnSet(Missing, left)
StartInv ==
  /\ pc = "new" => left = {} /\ currMemPool = -1 /\ \A i \in StartIndex : numFree[i] = 0
  /\ left # {} => Filling
  /\ pc \in {"idle", "get", "carve"} => \A i \in StartIndex \ left : numFree[i] = HighWater

(* replenishSlots has a next bin as long as there are bins left. *)
LEMMA FirstLeftIn ==
  ASSUME Inv, left # {}
  PROVE  FirstLeft \in left /\ FirstLeft \in StartIndex
         /\ FirstLeft[1] \in Slots /\ FirstLeft[2] \in StartBins
<1>1. left \subseteq StartIndex /\ Slots \subseteq Nat /\ StartBins \subseteq Nat
  BY PoolAssumption DEF Inv, TypeOK, StartIndex, Slots
<1>2. \A i \in left : i[1] \in Nat /\ i[2] \in Nat
  BY <1>1 DEF StartIndex
<1> DEFINE A == {i[1] : i \in left}
<1>3. A \in SUBSET Nat /\ A # {}
  BY <1>2
<1> HIDE DEF A
<1>4. PICK s \in A : \A t \in A : s <= t
  BY <1>3, LeastNumber
<1> DEFINE B == {i[2] : i \in {j \in left : j[1] = s}}
<1>5. B \in SUBSET Nat /\ B # {}
  BY <1>2, <1>4 DEF A
<1> HIDE DEF B
<1>6. PICK n \in B : \A m \in B : n <= m
  BY <1>5, LeastNumber
<1>7. PICK i \in left : i[1] = s /\ i[2] = n
  BY <1>6 DEF B
<1>8. ASSUME NEW j \in left PROVE i[1] < j[1] \/ (i[1] = j[1] /\ i[2] <= j[2])
  <2>1. s <= j[1] /\ s \in Nat /\ j[1] \in Nat
    BY <1>2, <1>3, <1>4 DEF A
  <2>2. CASE j[1] = s
    <3>1. n <= j[2]
      BY <1>6, <2>2 DEF B
    <3>2. QED
      BY <1>7, <2>2, <3>1
  <2>3. CASE j[1] # s
    BY <1>7, <2>1, <2>3
  <2>4. QED
    BY <2>2, <2>3
<1>9. FirstLeft \in left
  BY <1>7, <1>8 DEF FirstLeft
<1>10. QED
  BY <1>1, <1>9 DEF StartIndex

(* What a bin lacks. *)
LEMMA MissingType ==
  ASSUME NEW n \in [StartIndex -> Nat], NEW i \in StartIndex
  PROVE  /\ MissingOf(n)[i] = (HighWater - n[i]) * (BinSize(i[2]) + PageSize)
         /\ MissingOf(n)[i] \in Int /\ BinSize(i[2]) + PageSize \in Nat
         /\ n[i] < HighWater => MissingOf(n)[i] >= BinSize(i[2]) + PageSize
         /\ n[i] = HighWater => MissingOf(n)[i] = 0
<1>1. i[2] \in BinNums /\ HighWater \in Nat /\ PageSize \in Nat /\ n[i] \in Nat
  BY PoolAssumption DEF StartIndex
<1> DEFINE a == HighWater - n[i]
           b == BinSize(i[2]) + PageSize
<1>2. a \in Int /\ b \in Nat
  BY <1>1, BinAligned
<1>3. MissingOf(n)[i] = a * b
  BY DEF MissingOf
<1>4. n[i] < HighWater => a >= 1
  BY <1>1
<1>5. n[i] = HighWater => a = 0
  BY <1>1
<1> HIDE DEF a, b
<1>6. a * b \in Int /\ (a >= 1 => a * b >= b) /\ (a = 0 => a * b = 0)
  BY <1>2, Z3
<1>7. QED
  BY <1>2, <1>3, <1>4, <1>5, <1>6 DEF a, b

LEMMA StartFinite == IsFiniteSet(StartIndex)
<1> DEFINE h == [n \in StartBins |-> 0]
           f == [i \in StartIndex |-> 0]
<1>1. \A n \in StartBins : h[n] \in Int
  OBVIOUS
<1>2. \A k \in 0 .. NumSlots - 1 : ColumnIs(f, k, h, StartBins)
  BY DEF ColumnIs, StartIndex, Slots
<1>3. NumSlots \in Nat /\ IsFiniteSet(StartBins)
  BY PoolAssumption
<1> HIDE DEF f, h
<1>4. IsFiniteSet((0 .. NumSlots - 1) \X StartBins)
  BY <1>1, <1>2, <1>3, SumTable
<1>5. QED
  BY <1>4 DEF StartIndex, Slots

(* initBinsMeta is what all bins lack while they are empty. *)
LEMMA StartBytes ==
  ASSUME NEW n \in [StartIndex -> Nat], \A i \in StartIndex : n[i] = 0
  PROVE  SumFunctionOnSet(MissingOf(n), StartIndex) = initBinsMeta
<1> DEFINE h == [m \in StartBins |-> BinBytes(m)]
           f == MissingOf(n)
<1>1. \A m \in StartBins : h[m] \in Int
  BY StartSize
<1>2. ASSUME NEW k \in 0 .. NumSlots - 1 PROVE ColumnIs(f, k, h, StartBins)
  <2>1. ASSUME NEW m \in StartBins PROVE f[<<k, m>>] = h[m]
    <3>1. <<k, m>> \in StartIndex
      BY DEF StartIndex, Slots
    <3>2. f[<<k, m>>] = (HighWater - n[<<k, m>>]) * (BinSize(m) + PageSize)
      BY <3>1, MissingType
    <3>3. HighWater - n[<<k, m>>] = HighWater
      BY <3>1, PoolAssumption
    <3>4. QED
      BY <3>2, <3>3 DEF BinBytes
  <2>2. QED
    BY <1>1, <2>1 DEF ColumnIs
<1>3. NumSlots \in Nat /\ IsFiniteSet(StartBins)
  BY PoolAssumption
<1> HIDE DEF f, h
<1>4. SumFunctionOnSet(f, (0 .. NumSlots - 1) \X StartBins)
        = NumSlots * SumFunctionOnSet(h, StartBins)
  BY <1>1, <1>2, <1>3, SumTable
<1>5. QED
  BY <1>4 DEF f, h, StartIndex, Slots, initBinsMeta, BinsBytes

LEMMA InitStart == Init => StartInv
<1> SUFFICES ASSUME Init PROVE StartInv
  OBVIOUS
<1>1. /\ left = {} /\ pc = "new" /\ currMemPool = -1
      /\ numFree = [i \in StartIndex |-> 0]
  BY DEF Init, StartIndex
<1>2. \A i \in StartIndex : numFree[i] = 0
  BY <1>1
<1>3. QED
  BY <1>1, <1>2 DEF StartInv

(* The first pool has room for the start. *)
LEMMA InitializeKeepsStart == Inv /\ StartInv /\ Initialize => StartInv'
<1> SUFFICES ASSUME Inv, StartInv, Initialize PROVE StartInv'
  OBVIOUS
<1> DEFINE req == StartPoolMult * initBinsMeta
<1>1. initBinsMeta \in Nat /\ req \in Nat /\ req >= initBinsMeta
  <2>1. initBinsMeta \in Nat /\ StartPoolMult \in Nat /\ StartPoolMult >= 1
    BY StartSize, PoolAssumption
  <2>2. QED
    BY <2>1, Z3
<1>2. /\ currMemPool = -1 /\ numFree \in [StartIndex -> Nat]
      /\ \A i \in StartIndex : numFree[i] = 0
  BY DEF StartInv, Initialize, Inv, TypeOK, StartIndex
<1>3. /\ MapPool(req) /\ UNCHANGED <<carved, guards>>
      /\ currMemPool' = currMemPool + 1 /\ numFree' = numFree
      /\ left' = StartIndex /\ pc' = "idle"
  BY DEF Initialize, MapPool, StartIndex
<1> HIDE DEF req
<1>4. currMemPool' = 0 /\ memPools'[0] = NewPool(PoolSizeOf(req))
  <2>1. memPools'[currMemPool'] = NewPool(PoolSizeOf(req))
    BY <1>1, <1>3, MapPoolKeeps
  <2>2. QED
    BY <1>2, <1>3, <2>1
<1>5. memPools'[0].remainingSizeBytes >= initBinsMeta
  <2>1. PoolSizeOf(req) \in Nat /\ PoolSizeOf(req) >= req
    BY <1>1, PoolCovers
  <2>2. memPools'[0].remainingSizeBytes = PoolSizeOf(req)
    BY <1>4 DEF NewPool
  <2>3. QED
    BY <1>1, <2>1, <2>2
<1>6. SumFunctionOnSet(Missing', left') = initBinsMeta
  <2>1. SumFunctionOnSet(MissingOf(numFree), StartIndex) = initBinsMeta
    BY <1>2, StartBytes
  <2>2. Missing' = MissingOf(numFree)
    BY <1>3 DEF Missing
  <2>3. QED
    BY <1>3, <2>1, <2>2
<1>7. Filling'
  <2>1. \A i \in left' : numFree'[i] < HighWater
    BY <1>2, <1>3, PoolAssumption
  <2>2. QED
    BY <1>3, <1>4, <1>5, <1>6, <2>1 DEF Filling
<1>8. QED
  BY <1>3, <1>7 DEF StartInv

(* While bins are left, the pool in use has room for the next block.       *)
LEMMA FillingFits ==
  ASSUME Inv, StartInv, left # {}, pc = "get"
  PROVE  /\ Fits /\ numFree \in [StartIndex -> Nat] /\ IsFiniteSet(left)
         /\ left \subseteq StartIndex /\ FirstLeft \in left
         /\ want = FirstLeft[2] /\ Need \in Nat
         /\ \A i \in left : Missing[i] \in Nat
<1>1. /\ numFree \in [StartIndex -> Nat] /\ left \subseteq StartIndex /\ IsFiniteSet(left)
      /\ FirstLeft \in left /\ want = FirstLeft[2] /\ currMemPool = 0
      /\ \A i \in left : numFree[i] < HighWater
  <2>1. left \subseteq StartIndex /\ numFree \in [StartIndex -> Nat]
    BY DEF Inv, TypeOK, StartIndex
  <2>2. IsFiniteSet(left)
    BY <2>1, StartFinite, FS_Subset
  <2>3. QED
    BY <2>1, <2>2, FirstLeftIn DEF StartInv, Filling
<1>2. ASSUME NEW i \in left PROVE Missing[i] \in Nat /\ Missing[i] >= BinSize(i[2]) + PageSize
  <2>1. /\ MissingOf(numFree)[i] \in Int /\ BinSize(i[2]) + PageSize \in Nat
        /\ MissingOf(numFree)[i] >= BinSize(i[2]) + PageSize
    BY <1>1, MissingType
  <2>2. QED
    BY <2>1 DEF Missing
<1>3. Need = BinSize(FirstLeft[2]) + PageSize /\ Need \in Nat
  <2>1. BinSize(FirstLeft[2]) + PageSize \in Nat
    BY <1>1, MissingType
  <2>2. QED
    BY <1>1, <2>1 DEF Need
<1> DEFINE m == Missing
           F == FirstLeft
<1>4. /\ IsFiniteSet(left) /\ F \in left /\ \A i \in left : m[i] \in Nat /\ m[i] \in Int
      /\ m[F] >= Need
  BY <1>1, <1>2, <1>3
<1> HIDE DEF m, F
<1>5. /\ SumFunctionOnSet(m, left \ {F}) = SumFunctionOnSet(m, left) - m[F]
      /\ SumFunctionOnSet(m, left) \in Int
  BY <1>4, SumRemove, SumInt
<1>6. SumFunctionOnSet(m, left \ {F}) \in Nat
  <2>1. IsFiniteSet(left \ {F}) /\ \A i \in left \ {F} : m[i] \in Nat
    BY <1>4, FS_RemoveElement
  <2>2. QED
    BY <2>1, SumNat
<1>7. SumFunctionOnSet(m, left) >= Need
  BY <1>3, <1>4, <1>5, <1>6
<1>8. memPools[0].remainingSizeBytes >= SumFunctionOnSet(m, left)
  BY DEF StartInv, Filling, m
<1>9. Fits
  <2>1. memPools[0].remainingSizeBytes \in Int
    BY PoolAssumption DEF Inv, TypeOK, PoolNums
  <2>2. QED
    BY <1>1, <1>3, <1>5, <1>7, <1>8, <2>1 DEF Fits
<1>10. QED
  BY <1>1, <1>2, <1>3, <1>9

LEMMA CarveKeepsStart == Inv /\ StartInv /\ Carve => StartInv'
<1> SUFFICES ASSUME Inv, StartInv, Carve PROVE StartInv'
  OBVIOUS
<1>1. pc' = "idle" /\ currMemPool' = currMemPool /\ Filled /\ pc \in {"get", "carve"}
  BY DEF Carve
<1>2. CASE left = {}
  <2>1. left' = {} /\ numFree' = numFree
    BY <1>2, <1>1 DEF Filled
  <2>2. QED
    BY <1>1, <1>2, <2>1 DEF StartInv
<1>3. CASE left # {}
  <2> DEFINE F == FirstLeft
             m == Missing
             n == Missing'
  <2>1. Filling /\ pc = "get"
    BY <1>1, <1>3 DEF StartInv, Filling
  <2>2. /\ numFree \in [StartIndex -> Nat] /\ IsFiniteSet(left)
        /\ left \subseteq StartIndex /\ F \in left
        /\ want = F[2] /\ Need \in Nat
        /\ \A i \in left : m[i] \in Nat
    BY <1>3, <2>1, FillingFits
  <2>3. /\ numFree' = [numFree EXCEPT ![F] = @ + 1]
        /\ left' = IF numFree[F] + 1 < HighWater THEN left ELSE left \ {F}
    BY <1>1, <1>3 DEF Filled
  <2>4. /\ numFree' \in [StartIndex -> Nat] /\ numFree'[F] = numFree[F] + 1
        /\ \A i \in StartIndex : i # F => numFree'[i] = numFree[i]
        /\ numFree[F] \in Nat /\ numFree[F] < HighWater /\ HighWater \in Nat
    <3> HIDE DEF F
    <3>1. F \in StartIndex /\ HighWater \in Nat /\ numFree[F] < HighWater
      BY <2>1, <2>2, PoolAssumption DEF Filling
    <3>2. QED
      BY <2>2, <2>3, <3>1
  <2>5. /\ m[F] = (HighWater - numFree[F]) * Need
        /\ n[F] = (HighWater - numFree'[F]) * Need
        /\ numFree'[F] = HighWater => n[F] = 0
    <3>1. Missing' = MissingOf(numFree') /\ F \in StartIndex /\ Need = BinSize(F[2]) + PageSize
      BY <2>2 DEF Missing, MissingOf, Need
    <3> HIDE DEF F
    <3>2. QED
      BY <2>2, <2>4, <3>1, MissingType DEF Missing
  <2>6. \A i \in left : n[i] \in Int /\ (i # F => n[i] = m[i])
    <3>1. Missing' = MissingOf(numFree')
      BY DEF Missing, MissingOf
    <3> HIDE DEF F
    <3>2. ASSUME NEW i \in left PROVE n[i] \in Int /\ (i # F => n[i] = m[i])
      <4>1. MissingOf(numFree')[i] \in Int
        BY <2>2, <2>4, MissingType
      <4>2. i # F => MissingOf(numFree')[i] = MissingOf(numFree)[i]
        BY <2>2, <2>4 DEF MissingOf
      <4>3. QED
        BY <3>1, <4>1, <4>2 DEF Missing
    <3>3. QED
      BY <3>2
  <2>7. m[F] - n[F] = Need
    <3>1. (HighWater - numFree[F]) * Need - (HighWater - (numFree[F] + 1)) * Need = Need
      <4> DEFINE a == HighWater - numFree[F]
                 b == Need
      <4>1. a \in Int /\ b \in Int /\ HighWater - (numFree[F] + 1) = a - 1
        BY <2>2, <2>4
      <4> HIDE DEF a, b
      <4>2. a * b - (a - 1) * b = b
        BY <4>1, Z3
      <4>3. QED
        BY <4>1, <4>2 DEF a, b
    <3>2. QED
      BY <2>4, <2>5, <3>1
  <2> HIDE DEF F, m, n
  <2>8. /\ SumFunctionOnSet(n, left) = SumFunctionOnSet(m, left) - m[F] + n[F]
        /\ SumFunctionOnSet(m, left) \in Int /\ SumFunctionOnSet(n, left) \in Int
    <3>1. \A i \in left : m[i] \in Int /\ n[i] \in Int
      BY <2>2, <2>6
    <3>2. \A i \in left \ {F} : n[i] = m[i]
      BY <2>6
    <3>3. QED
      BY <2>2, <3>1, <3>2, SumChange, SumInt
  <2>9. SumFunctionOnSet(n, left') = SumFunctionOnSet(n, left)
    <3>1. CASE numFree[F] + 1 < HighWater
      BY <2>3, <3>1
    <3>2. CASE ~(numFree[F] + 1 < HighWater)
      <4>1. n[F] = 0 /\ left' = left \ {F}
        BY <2>3, <2>4, <2>5, <3>2
      <4>2. SumFunctionOnSet(n, left \ {F}) = SumFunctionOnSet(n, left) - n[F]
        BY <2>2, <2>6, SumRemove
      <4>3. QED
        BY <2>8, <4>1, <4>2
    <3>3. QED
      BY <3>1, <3>2
  <2>10. SumFunctionOnSet(n, left') = SumFunctionOnSet(m, left) - Need
    <3>1. m[F] \in Int /\ n[F] \in Int
      BY <2>2, <2>6
    <3>2. QED
      BY <2>2, <2>7, <2>8, <2>9, <3>1
  <2>11. memPools'[0].remainingSizeBytes = memPools[0].remainingSizeBytes - Need
         /\ memPools[0].remainingSizeBytes \in Int
    <3>1. /\ memPools \in [PoolNums -> [totalSizeBytes : Nat, remainingSizeBytes : Int,
                                        startFree : Nat]]
          /\ 0 \in PoolNums /\ BinSize(want) \in Nat /\ currMemPool = 0
      BY <1>1, <2>1, BinAligned, PoolAssumption
      DEF Inv, TypeOK, CallInv, Called, PoolNums, Filling
    <3>2. memPools' = [memPools EXCEPT ![0] = Cut(memPools[0], BinSize(want))]
      BY <3>1 DEF Carve
    <3>3. memPools'[0] = Cut(memPools[0], BinSize(want))
      BY <3>1, <3>2
    <3>4. Cut(memPools[0], BinSize(want)).remainingSizeBytes
            = memPools[0].remainingSizeBytes - (BinSize(want) + PageSize)
      BY <3>1, CutPool
    <3>5. QED
      BY <3>1, <3>3, <3>4 DEF Need
  <2>12. memPools'[0].remainingSizeBytes >= SumFunctionOnSet(n, left')
    <3>1. memPools[0].remainingSizeBytes >= SumFunctionOnSet(m, left)
      BY <2>1 DEF Filling, m
    <3>2. QED
      BY <2>2, <2>8, <2>10, <2>11, <3>1
  <2>13. /\ \A i \in left' : numFree'[i] < HighWater
         /\ \A i \in StartIndex \ left' : numFree'[i] = HighWater
    <3>1. /\ \A i \in left : numFree[i] < HighWater
          /\ \A i \in StartIndex \ left : numFree[i] = HighWater
      BY <2>1 DEF Filling, StartInv
    <3>2. CASE numFree[F] + 1 < HighWater
      BY <2>2, <2>3, <2>4, <3>1, <3>2
    <3>3. CASE ~(numFree[F] + 1 < HighWater)
      <4>1. left' = left \ {F} /\ numFree'[F] = HighWater
        BY <2>3, <2>4, <3>3
      <4>2. QED
        BY <2>2, <2>4, <3>1, <4>1
    <3>4. QED
      BY <3>2, <3>3
  <2>14. currMemPool' = 0 /\ SumFunctionOnSet(Missing', left') = SumFunctionOnSet(n, left')
    BY <1>1, <2>1 DEF Filling, n
  <2>15. Filling'
    BY <1>1, <2>12, <2>13, <2>14 DEF Filling
  <2>16. QED
    BY <1>1, <2>13, <2>15 DEF StartInv
<1>4. QED
  BY <1>2, <1>3

(* The start never needs a second pool. *)
LEMMA NextStart == Inv /\ StartInv /\ [Next]_vars => StartInv'
<1> SUFFICES ASSUME Inv, StartInv, [Next]_vars PROVE StartInv'
  OBVIOUS
<1>1. CASE Initialize
  BY <1>1, InitializeKeepsStart
<1>2. CASE Carve
  BY <1>2, CarveKeepsStart
<1>3. ASSUME UNCHANGED <<memPools, currMemPool, left, numFree>>,
             pc' # "new", pc' \in {"idle", "get", "carve"} => pc \in {"idle", "get", "carve"},
             left # {} => pc' # "carve" /\ (pc' = "get" => want' = FirstLeft[2])
      PROVE  StartInv'
  <2>1. FirstLeft' = FirstLeft /\ Missing' = Missing
    BY <1>3 DEF FirstLeft, Missing, MissingOf
  <2>2. left # {} => Filling'
    BY <1>3, <2>1 DEF StartInv, Filling
  <2>3. QED
    BY <1>3, <2>2 DEF StartInv
<1>4. ASSUME NEW n \in BinNums, Request(n) PROVE StartInv'
  BY <1>3, <1>4 DEF Request, memory
<1>5. CASE InitializeAborts \/ GrowAborts \/ CarveAborts
  BY <1>3, <1>5 DEF InitializeAborts, GrowAborts, CarveAborts, Abort, memory
<1>6. CASE Grow \/ GrowFails
  <2>1. pc = "get" /\ ~Fits
    BY <1>6 DEF Grow, GrowFails
  <2>2. left = {}
    BY <2>1, FillingFits
  <2>3. left' = {} /\ numFree' = numFree /\ pc' \in {"idle", "carve"}
    BY <1>6, <2>2 DEF Grow, GrowFails
  <2>4. QED
    BY <2>1, <2>2, <2>3 DEF StartInv
<1>7. CASE UNCHANGED vars
  <2>1. /\ UNCHANGED <<memPools, currMemPool, left, numFree, pc, want>>
        /\ FirstLeft' = FirstLeft /\ Missing' = Missing
    BY <1>7 DEF vars, FirstLeft, Missing, MissingOf
  <2>2. QED
    BY <2>1 DEF StartInv, Filling
<1>8. QED
  BY <1>1, <1>2, <1>4, <1>5, <1>6, <1>7 DEF Next, Gone

(* The library starts with every bin full, out of its first pool alone:    *)
(* initBinsMeta asks for no byte too few, whatever the slots and the bins. *)
THEOREM FullWhenStarted == Spec => []FullAtStart
<1>1. Inv /\ StartInv => FullAtStart
  BY DEF StartInv, Filling, FullAtStart, StartIndex
<1>2. Spec => []StartInv
  BY InitInv, InitStart, NextInv, NextStart, PTL DEF Spec
<1>3. QED
  BY <1>1, <1>2, Invariant, PTL
===============================================================================
