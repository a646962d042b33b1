--------------------------- MODULE DelayFree_proofs ---------------------------
(***************************************************************************)
(* The delayed free list is correct for every size of the ring and every   *)
(* finite set of blocks.                                                   *)
(***************************************************************************)
EXTENDS DelayFree, Sums, FiniteSetTheorems, SequenceTheorems, TLAPS

(* TypeOK but for the sign of two counters, which follows in the end, from *)
(* what they count.                                                        *)
TypeInv ==
  /\ head \in Index /\ tail \in Index
  /\ numDelayed \in Nat /\ bytesDelayed \in Int
  /\ elms \in [Index -> Blocks \cup {NoBlock}]
  /\ headFree \in [Bins -> SUBSET Blocks]
  /\ numFree \in [Bins -> Int]
  /\ noAccess \in [Blocks -> SUBSET {0, 1}]
  /\ pc \in {"idle", "batch", "put"}
  /\ hdr \in Blocks \cup {NoBlock}

(***************************************************************************)
(* The arithmetic of the ring.                                             *)
(***************************************************************************)
(* The code's modulus is the next index, or 0 after the last. *)
LEMMA NextIndexValue ==
  ASSUME NEW i \in Index
  PROVE  NextIndex(i) = IF i = MaxDelayElms - 1 THEN 0 ELSE i + 1
<1>1. MaxDelayElms \in Nat /\ MaxDelayElms >= 3
  BY DelayAssumption
<1>2. CASE i = MaxDelayElms - 1
  BY <1>1, <1>2 DEF NextIndex
<1>3. CASE i # MaxDelayElms - 1
  BY <1>1, <1>3 DEF NextIndex, Index
<1>4. QED
  BY <1>2, <1>3

(* A ring that is not full holds at most MaxDelayElms - 2 blocks, and its  *)
(* occupied indices are pairwise different and different from head.        *)
LEMMA RingShape ==
  ASSUME TypeInv
  PROVE  /\ Length \in 0 .. MaxDelayElms - 1
         /\ Length = 0 <=> circEmpty
         /\ circFull <=> Length = MaxDelayElms - 1
         /\ ~circEmpty => Span = Length
         /\ Wrap(tail + Length) = head
         /\ \A i \in 0 .. Length : Wrap(tail + i) \in Index
         /\ \A i, j \in 0 .. Length : i # j => Wrap(tail + i) # Wrap(tail + j)
<1>1. MaxDelayElms \in Nat /\ MaxDelayElms >= 3
  BY DelayAssumption
<1>2. head \in 0 .. MaxDelayElms - 1 /\ tail \in 0 .. MaxDelayElms - 1
  BY DEF TypeInv, Index
<1>3. circFull <=> Length = MaxDelayElms - 1
  BY <1>1, <1>2, NextIndexValue DEF circFull, Length, Index
<1>4. QED
  BY <1>1, <1>2, <1>3 DEF Length, circEmpty, Span, Wrap, Index

(* After circPut the ring is one longer and its blocks keep their rank. *)
LEMMA PutShape ==
  ASSUME TypeInv, NEW b \in Blocks, circPut(b)
  PROVE  /\ Length' = Length + 1
         /\ \A i \in 0 .. Length - 1 :
              elms'[Wrap(tail' + i)] = elms[Wrap(tail + i)]
         /\ elms'[Wrap(tail' + Length)] = b
<1>1. MaxDelayElms \in Nat /\ MaxDelayElms >= 3
  BY DelayAssumption
<1>2. /\ head \in Index /\ tail \in Index
      /\ elms \in [Index -> Blocks \cup {NoBlock}]
  BY DEF TypeInv
<1>3. /\ ~circFull /\ tail' = tail
      /\ elms' = [elms EXCEPT ![head] = b]
      /\ head' = IF head = MaxDelayElms - 1 THEN 0 ELSE head + 1
  BY <1>2, NextIndexValue DEF circPut
<1>4. Length' = Length + 1
  BY <1>1, <1>2, <1>3, RingShape DEF Length, Index
<1>5. ASSUME NEW i \in 0 .. Length - 1
      PROVE  elms'[Wrap(tail' + i)] = elms[Wrap(tail + i)]
  <2>1. i \in 0 .. Length /\ Length \in 0 .. Length /\ i # Length
    BY <1>1, RingShape
  <2>2. Wrap(tail + i) \in Index /\ Wrap(tail + i) # head
    BY <2>1, RingShape
  <2>3. QED
    BY <1>2, <1>3, <2>2 DEF Wrap
<1>6. elms'[Wrap(tail' + Length)] = b
  BY <1>2, <1>3, RingShape DEF Wrap
<1>7. QED
  BY <1>4, <1>5, <1>6

(* After circGet the oldest block is gone and the others move up. *)
LEMMA GetShape ==
  ASSUME TypeInv, circGet
  PROVE  /\ Length >= 1
         /\ Length' = Length - 1
         /\ elms[tail] = elms[Wrap(tail + 0)]
         /\ \A i \in 0 .. Length - 2 :
              elms'[Wrap(tail' + i)] = elms[Wrap(tail + (i + 1))]
<1>1. MaxDelayElms \in Nat /\ MaxDelayElms >= 3
  BY DelayAssumption
<1>2. head \in Index /\ tail \in Index
  BY DEF TypeInv
<1>3. /\ head # tail /\ head' = head /\ elms' = elms
      /\ tail' = IF tail = MaxDelayElms - 1 THEN 0 ELSE tail + 1
  BY <1>2, NextIndexValue DEF circGet, circEmpty
<1>4. Length >= 1 /\ Length' = Length - 1
  BY <1>1, <1>2, <1>3 DEF Length, Index
<1>5. elms[tail] = elms[Wrap(tail + 0)]
  BY <1>1, <1>2 DEF Wrap, Index
<1>6. ASSUME NEW i \in 0 .. Length - 2
      PROVE  elms'[Wrap(tail' + i)] = elms[Wrap(tail + (i + 1))]
  <2>1. Length \in 0 .. MaxDelayElms - 1
    BY RingShape
  <2>2. Wrap(tail' + i) = Wrap(tail + (i + 1))
    BY <1>1, <1>2, <1>3, <2>1 DEF Wrap, Index
  <2>3. QED
    BY <1>3, <2>2 DEF Wrap
<1>7. QED
  BY <1>4, <1>5, <1>6

(***************************************************************************)
(* The inductive invariant.  RingInv: the counter is the length of the     *)
(* ring, its blocks are different, and it is short enough for what         *)
(* delayPut is about to do.  PlaceInv: a block in a bin, in the ring or in *)
(* delayPut's hands is in no other of these places.                        *)
(***************************************************************************)
RingInv ==
  /\ numDelayed = Length
  /\ \A i \in 0 .. Length - 1 : elms[Wrap(tail + i)] \in Blocks
  /\ \A i, j \in 0 .. Length - 1 :
       i # j => elms[Wrap(tail + i)] # elms[Wrap(tail + j)]
  /\ Length <= MaxDelayElms \div 2 + 1
  /\ pc = "put" => Length <= MaxDelayElms \div 2

PlaceInv ==
  /\ \A n \in Bins : \A b \in headFree[n] : BinNum[b] = n /\ b \notin Delayed
  /\ pc # "idle" => hdr \in InUse

Inv == TypeInv /\ RingInv /\ PlaceInv /\ Protection

LEMMA InitInv == Init => Inv
<1> SUFFICES ASSUME Init PROVE Inv
  OBVIOUS
<1>1. MaxDelayElms \in Nat /\ MaxDelayElms >= 3
  BY DelayAssumption
<1>2. TypeInv
  <2>1. \A n \in Bins : Cardinality({b \in Blocks : BinNum[b] = n}) \in Int
    BY FS_Subset, FS_CardinalityType, DelayAssumption
  <2>2. QED
    BY <1>1, <2>1 DEF Init, TypeInv, Index
<1>3. Length = 0 /\ Delayed = {}
  BY <1>1 DEF Init, Length, Delayed
<1>4. RingInv
  BY <1>1, <1>3 DEF RingInv, Init
<1>5. PlaceInv
  BY <1>3 DEF PlaceInv, Init
<1>6. Protection
  BY <1>3 DEF Protection, Init
<1>7. QED
  BY <1>2, <1>4, <1>5, <1>6 DEF Inv

(* How circPut and circGet change the set of delayed blocks. *)
LEMMA PutDelayed ==
  ASSUME TypeInv, RingInv, NEW b \in Blocks, circPut(b)
  PROVE  Delayed' = Delayed \cup {b}
<1>1. Length \in Nat /\ Length' = Length + 1
  BY RingShape, PutShape
<1>2. Delayed' = {elms'[Wrap(tail' + i)] : i \in 0 .. Length}
  BY <1>1 DEF Delayed, Wrap
<1>3. QED
  BY <1>1, <1>2, PutShape DEF Delayed

LEMMA GetDelayed ==
  ASSUME TypeInv, RingInv, circGet
  PROVE  /\ elms[tail] \in Delayed
         /\ elms[tail] \in Blocks
         /\ Delayed' = Delayed \ {elms[tail]}
<1>1. Length \in Nat /\ Length >= 1 /\ Length' = Length - 1
  BY RingShape, GetShape
<1>2. elms[tail] \in Delayed /\ elms[tail] \in Blocks
  BY <1>1, GetShape DEF Delayed, RingInv
<1>3. Delayed' = {elms'[Wrap(tail' + i)] : i \in 0 .. Length - 2}
  BY <1>1 DEF Delayed, Wrap
<1>4. Delayed' = {elms[Wrap(tail + (i + 1))] : i \in 0 .. Length - 2}
  BY <1>1, <1>3, GetShape
<1>5. Delayed' \subseteq Delayed \ {elms[tail]}
  BY <1>1, <1>4, GetShape DEF Delayed, RingInv
<1>6. Delayed \ {elms[tail]} \subseteq Delayed'
  <2>1. SUFFICES ASSUME NEW i \in 0 .. Length - 1, elms[Wrap(tail + i)] # elms[tail]
                 PROVE  elms[Wrap(tail + i)] \in Delayed'
    BY DEF Delayed
  <2>2. i # 0
    BY <2>1, GetShape
  <2>3. i - 1 \in 0 .. Length - 2 /\ (i - 1) + 1 = i
    BY <1>1, <2>1, <2>2
  <2>4. QED
    BY <1>4, <2>3
<1>7. QED
  BY <1>2, <1>5, <1>6

(* What delayPut and delayFreeBatch compare is the length of the ring. *)
LEMMA CountIsLength ==
  ASSUME TypeInv, RingInv
  PROVE  circCount = Length /\ Length \in Nat /\ MaxDelayElms \div 2 \in Nat
<1>1. Length \in Nat /\ (Length = 0 <=> circEmpty)
  BY RingShape
<1>2. MaxDelayElms \div 2 \in Nat
  BY DelayAssumption
<1>3. QED
  BY <1>1, <1>2 DEF circCount, RingInv

(* Each step preserves the invariant. *)
LEMMA StepKeepsType ==
  ASSUME TypeInv, RingInv, PlaceInv, [Next]_vars
  PROVE  TypeInv'
<1>0. MaxDelayElms \in Nat /\ MaxDelayElms >= 3
  BY DelayAssumption
<1>1. \A b \in Blocks : BinNum[b] \in Bins /\ ElmSize(b) \in Int
  BY DelayAssumption DEF Bins, ElmSize
<1>2. \A i \in Index : NextIndex(i) \in Index
  BY <1>0, NextIndexValue DEF Index
<1>3. ASSUME NEW b \in Blocks, Alloc(b) PROVE TypeInv'
  BY <1>1, <1>3 DEF Alloc, TypeInv, ring
<1>4. ASSUME NEW b \in Blocks, DelayPut(b) PROVE TypeInv'
  BY <1>4 DEF DelayPut, TypeInv, ring
<1>5. CASE delayFreeBatch
  <2> DEFINE b == elms[tail]
  <2>1. b \in Blocks \cup {NoBlock} /\ NextIndex(tail) \in Index
    BY <1>2 DEF TypeInv
  <2>2. /\ head' = head /\ tail' = NextIndex(tail) /\ elms' = elms
        /\ numDelayed > 0 /\ numDelayed' = numDelayed - 1
        /\ bytesDelayed' = bytesDelayed - ElmSize(b)
        /\ headFree' = [headFree EXCEPT ![BinNum[b]] = @ \cup {b}]
        /\ numFree' = [numFree EXCEPT ![BinNum[b]] = @ + 1]
        /\ noAccess' = [noAccess EXCEPT ![b] = @ \ OpenedPages(b)]
        /\ pc' = pc /\ hdr' = hdr
    BY <1>5 DEF delayFreeBatch, circGet, ToBin
  <2>3. b \in Blocks
    BY <1>5, GetDelayed DEF delayFreeBatch
  <2>4. bytesDelayed' \in Int /\ numDelayed' \in Nat
    BY <1>1, <2>2, <2>3 DEF TypeInv
  <2>5. /\ headFree' \in [Bins -> SUBSET Blocks]
        /\ numFree' \in [Bins -> Int]
        /\ noAccess' \in [Blocks -> SUBSET {0, 1}]
    BY <1>1, <2>2, <2>3 DEF TypeInv
  <2>6. QED
    BY <2>1, <2>2, <2>4, <2>5 DEF TypeInv
<1>6. CASE EndBatch
  BY <1>6 DEF EndBatch, TypeInv, ring
<1>7. CASE Put
  <2>1. hdr \in Blocks
    BY <1>7 DEF Put, PlaceInv, InUse
  <2>2. NextIndex(head) \in Index /\ ElmSize(hdr) \in Int
    BY <1>1, <1>2, <2>1 DEF TypeInv
  <2>3. ElmPages(hdr) \in SUBSET {0, 1}
    BY DEF ElmPages
  <2>4. QED
    BY <1>7, <2>1, <2>2, <2>3 DEF Put, circPut, TypeInv
<1>8. CASE UNCHANGED vars
  BY <1>8 DEF vars, TypeInv
<1>9. QED
  BY <1>3, <1>4, <1>5, <1>6, <1>7, <1>8 DEF Next

LEMMA AllocKeepsInv ==
  ASSUME Inv, NEW b \in Blocks, Alloc(b)
  PROVE  RingInv' /\ PlaceInv' /\ Protection'
<1>1. UNCHANGED <<head, tail, elms, numDelayed, noAccess, pc, hdr>> /\ pc = "idle"
  BY DEF Alloc, ring
<1>2. Length' = Length /\ Delayed' = Delayed
  BY <1>1 DEF Length, Delayed, Wrap
<1>3. RingInv'
  BY <1>1, <1>2 DEF Inv, RingInv, Wrap
<1>4. PlaceInv'
  BY <1>1, <1>2 DEF Inv, PlaceInv, TypeInv, Alloc
<1>5. Protection'
  BY <1>1, <1>2 DEF Inv, Protection
<1>6. QED
  BY <1>3, <1>4, <1>5

LEMMA DelayPutKeepsInv ==
  ASSUME Inv, NEW b \in Blocks, DelayPut(b)
  PROVE  RingInv' /\ PlaceInv' /\ Protection'
<1>1. UNCHANGED <<head, tail, elms, numDelayed, noAccess, headFree>>
  BY DEF DelayPut, ring
<1>2. Length' = Length /\ Delayed' = Delayed /\ Available' = Available
  BY <1>1 DEF Length, Delayed, Wrap, Available
<1>3. RingInv'
  <2>1. circCount = Length /\ Length \in Nat /\ MaxDelayElms \div 2 \in Nat
    BY CountIsLength DEF Inv
  <2>2. pc' = "put" => Length' <= MaxDelayElms \div 2
    BY <1>2, <2>1 DEF DelayPut, BatchNeeded
  <2>3. QED
    BY <1>1, <1>2, <2>2 DEF Inv, RingInv, Wrap
<1>4. PlaceInv'
  BY <1>1, <1>2 DEF Inv, PlaceInv, DelayPut, InUse
<1>5. Protection'
  BY <1>1, <1>2 DEF Inv, Protection
<1>6. QED
  BY <1>3, <1>4, <1>5

LEMMA BatchKeepsInv ==
  ASSUME Inv, delayFreeBatch
  PROVE  RingInv' /\ PlaceInv' /\ Protection'
<1> DEFINE b == elms[tail]
<1>1. circGet /\ pc = "batch" /\ UNCHANGED <<pc, hdr>>
  BY DEF delayFreeBatch
<1>2. /\ b \in Delayed /\ b \in Blocks
      /\ Delayed' = Delayed \ {b}
  BY <1>1, GetDelayed DEF Inv
<1>3. /\ headFree' = [headFree EXCEPT ![BinNum[b]] = @ \cup {b}]
      /\ noAccess' = [noAccess EXCEPT ![b] = @ \ OpenedPages(b)]
  BY DEF delayFreeBatch, ToBin
<1>4. RingInv'
  <2>1. /\ Length \in Nat /\ Length >= 1 /\ Length' = Length - 1
        /\ \A i \in 0 .. Length - 2 :
             elms'[Wrap(tail' + i)] = elms[Wrap(tail + (i + 1))]
    BY <1>1, GetShape, RingShape DEF Inv
  <2>2. numDelayed' = Length'
    BY <1>1, <2>1 DEF Inv, RingInv, circGet
  <2>3. \A i \in 0 .. Length' - 1 : elms'[Wrap(tail' + i)] \in Blocks
    BY <2>1 DEF Inv, RingInv
  <2>4. \A i, j \in 0 .. Length' - 1 :
          i # j => elms'[Wrap(tail' + i)] # elms'[Wrap(tail' + j)]
    <3>1. SUFFICES ASSUME NEW i \in 0 .. Length - 2, NEW j \in 0 .. Length - 2,
                          i # j
                   PROVE  elms[Wrap(tail + (i + 1))] # elms[Wrap(tail + (j + 1))]
      BY <2>1
    <3>2. i + 1 \in 0 .. Length - 1 /\ j + 1 \in 0 .. Length - 1 /\ i + 1 # j + 1
      BY <2>1, <3>1
    <3>3. QED
      BY <3>2 DEF Inv, RingInv
  <2>5. Length' <= MaxDelayElms \div 2 + 1 /\ pc' # "put"
    BY <1>1, <2>1, DelayAssumption DEF Inv, RingInv
  <2>6. QED
    BY <2>2, <2>3, <2>4, <2>5 DEF RingInv
<1>5. PlaceInv'
  <2>1. BinNum[b] \in Bins
    BY <1>2 DEF Bins
  <2>2. ASSUME NEW n \in Bins, NEW c \in headFree'[n]
        PROVE  BinNum[c] = n /\ c \notin Delayed'
    BY <1>2, <1>3, <2>1, <2>2 DEF Inv, PlaceInv, TypeInv
  <2>3. hdr \in InUse /\ hdr # b
    BY <1>1, <1>2 DEF Inv, PlaceInv, InUse
  <2>4. hdr \notin Available'
    BY <1>3, <2>1, <2>3 DEF Inv, TypeInv, Available, InUse
  <2>5. hdr' \in InUse'
    BY <1>1, <1>2, <2>3, <2>4 DEF InUse
  <2>6. QED
    BY <2>2, <2>5 DEF PlaceInv
<1>6. Protection'
  <2>1. noAccess[b] = ElmPages(b) /\ ElmPages(b) \ OpenedPages(b) = {}
    BY <1>2 DEF Inv, Protection, ElmPages, OpenedPages
  <2>2. noAccess'[b] = {}
    BY <1>2, <1>3, <2>1 DEF Inv, TypeInv
  <2>3. \A c \in Blocks : c # b => noAccess'[c] = noAccess[c]
    BY <1>2, <1>3 DEF Inv, TypeInv
  <2>4. QED
    BY <1>2, <2>2, <2>3 DEF Inv, Protection, ElmPages
<1>7. QED
  BY <1>4, <1>5, <1>6

LEMMA EndBatchKeepsInv ==
  ASSUME Inv, EndBatch
  PROVE  RingInv' /\ PlaceInv' /\ Protection'
<1>1. UNCHANGED <<head, tail, elms, numDelayed, noAccess, headFree, hdr>>
  BY DEF EndBatch, ring
<1>2. Length' = Length /\ Delayed' = Delayed /\ Available' = Available
  BY <1>1 DEF Length, Delayed, Wrap, Available
<1>3. Length' <= MaxDelayElms \div 2
  <2>1. circCount = Length /\ Length \in Nat
    BY CountIsLength DEF Inv
  <2>2. Length <= MaxDelayElms \div 4 /\ MaxDelayElms \in Nat
    BY <2>1, DelayAssumption DEF EndBatch, BatchGoesOn
  <2>3. QED
    BY <1>2, <2>1, <2>2
<1>4. RingInv'
  BY <1>1, <1>2, <1>3 DEF Inv, RingInv, Wrap
<1>5. PlaceInv' /\ Protection'
  BY <1>1, <1>2 DEF Inv, PlaceInv, Protection, EndBatch, InUse
<1>6. QED
  BY <1>4, <1>5

LEMMA PutKeepsInv ==
  ASSUME Inv, Put
  PROVE  RingInv' /\ PlaceInv' /\ Protection'
<1>1. /\ pc = "put" /\ pc' = "idle" /\ headFree' = headFree
      /\ circPut(hdr)
      /\ noAccess' = [noAccess EXCEPT ![hdr] = ElmPages(hdr)]
  BY DEF Put
<1>2. hdr \in Blocks /\ hdr \notin Delayed /\ hdr \notin Available
  BY <1>1 DEF Inv, PlaceInv, InUse
<1>3. Delayed' = Delayed \cup {hdr}
  BY <1>1, <1>2, PutDelayed DEF Inv
<1>4. RingInv'
  <2>1. /\ Length \in Nat /\ Length' = Length + 1
        /\ \A i \in 0 .. Length - 1 :
             elms'[Wrap(tail' + i)] = elms[Wrap(tail + i)]
        /\ elms'[Wrap(tail' + Length)] = hdr
    BY <1>1, <1>2, PutShape, RingShape DEF Inv
  <2>2. numDelayed' = Length'
    BY <1>1, <2>1 DEF Inv, RingInv, circPut
  <2>3. \A i \in 0 .. Length' - 1 : elms'[Wrap(tail' + i)] \in Blocks
    BY <1>2, <2>1 DEF Inv, RingInv
  <2>4. \A i, j \in 0 .. Length' - 1 :
          i # j => elms'[Wrap(tail' + i)] # elms'[Wrap(tail' + j)]
    <3>1. \A i \in 0 .. Length - 1 : elms[Wrap(tail + i)] # hdr
      BY <1>2 DEF Delayed
    <3>2. QED
      BY <2>1, <3>1 DEF Inv, RingInv
  <2>5. Length' <= MaxDelayElms \div 2 + 1 /\ pc' # "put"
    BY <1>1, <2>1, DelayAssumption DEF Inv, RingInv
  <2>6. QED
    BY <2>2, <2>3, <2>4, <2>5 DEF RingInv
<1>5. PlaceInv'
  BY <1>1, <1>2, <1>3 DEF Inv, PlaceInv, Available
<1>6. Protection'
  BY <1>1, <1>2, <1>3 DEF Inv, Protection, TypeInv
<1>7. QED
  BY <1>4, <1>5, <1>6

(***************************************************************************)
(* The theorems.                                                           *)
(***************************************************************************)
LEMMA StepKeepsInv ==
  ASSUME Inv, [Next]_vars
  PROVE  Inv'
<1>1. TypeInv'
  BY StepKeepsType DEF Inv
<1>2. ASSUME NEW b \in Blocks, Alloc(b) PROVE Inv'
  BY <1>1, <1>2, AllocKeepsInv DEF Inv
<1>3. ASSUME NEW b \in Blocks, DelayPut(b) PROVE Inv'
  BY <1>1, <1>3, DelayPutKeepsInv DEF Inv
<1>4. CASE delayFreeBatch
  BY <1>1, <1>4, BatchKeepsInv DEF Inv
<1>5. CASE EndBatch
  BY <1>1, <1>5, EndBatchKeepsInv DEF Inv
<1>6. CASE Put
  BY <1>1, <1>6, PutKeepsInv DEF Inv
<1>7. CASE UNCHANGED vars
  BY <1>1, <1>7 DEF vars, Inv, RingInv, PlaceInv, Protection, Length, Delayed,
                    Available, InUse, Wrap
<1>8. QED
  BY <1>2, <1>3, <1>4, <1>5, <1>6, <1>7 DEF Next

LEMMA SpecInv == Spec => []Inv
BY InitInv, StepKeepsInv, PTL DEF Spec

(* No assertion of DelayFree.c can abort the process, whatever the ring's  *)
(* size (3 or more): the ring is never full when circPut runs, never empty *)
(* when circGet runs, and circCount's two counts of it agree.              *)
THEOREM NeverAborts == Spec => []AssertionsHold
<1>1. ASSUME Inv PROVE AssertionsHold
  <2>1. MaxDelayElms \in Nat /\ MaxDelayElms >= 3
    BY DelayAssumption
  <2>2. /\ Length \in Nat
        /\ Length = 0 <=> circEmpty
        /\ circFull <=> Length = MaxDelayElms - 1
        /\ ~circEmpty => Span = Length
    BY <1>1, RingShape DEF Inv
  <2>3. CountAsserted
    BY <1>1, <2>2 DEF Inv, RingInv, CountAsserted
  <2>4. BatchGoesOn => ~circEmpty /\ numDelayed > 0
    <3>1. circCount = Length
      BY <1>1, CountIsLength DEF Inv
    <3>2. MaxDelayElms \div 4 \in Nat
      BY <2>1
    <3>3. BatchGoesOn => Length > 0
      BY <2>2, <3>1, <3>2 DEF BatchGoesOn
    <3>4. QED
      BY <1>1, <2>2, <3>3 DEF Inv, RingInv
  <2>5. pc = "put" => ~circFull
    <3>1. MaxDelayElms \div 2 < MaxDelayElms - 1
      BY <2>1
    <3>2. pc = "put" => Length <= MaxDelayElms \div 2
      BY <1>1 DEF Inv, RingInv
    <3>3. QED
      BY <2>1, <2>2, <3>1, <3>2
  <2>6. QED
    BY <2>3, <2>4, <2>5 DEF AssertionsHold
<1>2. QED
  BY <1>1, SpecInv, PTL

(* A block's pages are PROT_NONE exactly while it waits in the ring: every *)
(* use after free of a delayed block faults, no use of a live block does.  *)
THEOREM DelayedIsProtected == Spec => []Protection
<1>1. Inv => Protection
  BY DEF Inv
<1>2. QED
  BY <1>1, SpecInv, PTL

(* The count of each bin needs one more fact: it is the length of its list.*)
CountInv == \A n \in Bins : numFree[n] = Cardinality(headFree[n])

LEMMA InitCount == Init => CountInv
BY DEF Init, CountInv

LEMMA StepKeepsCount ==
  ASSUME Inv, CountInv, [Next]_vars
  PROVE  CountInv'
<1>1. \A n \in Bins : IsFiniteSet(headFree[n])
  BY DelayAssumption, FS_Subset DEF Inv, TypeInv
<1>2. ASSUME NEW b \in Blocks, Alloc(b) PROVE CountInv'
  <2>1. BinNum[b] \in Bins
    BY DEF Bins
  <2>2. Cardinality(headFree[BinNum[b]] \ {b})
          = Cardinality(headFree[BinNum[b]]) - 1
    BY <1>1, <1>2, <2>1, FS_RemoveElement DEF Alloc
  <2>3. QED
    BY <1>2, <2>1, <2>2 DEF Alloc, Inv, TypeInv, CountInv
<1>3. CASE delayFreeBatch
  <2> DEFINE b == elms[tail]
  <2>1. b \in Blocks /\ b \in Delayed
    BY <1>3, GetDelayed DEF Inv, delayFreeBatch
  <2>2. BinNum[b] \in Bins
    BY <2>1 DEF Bins
  <2>3. b \notin headFree[BinNum[b]]
    BY <2>1, <2>2 DEF Inv, PlaceInv
  <2>4. Cardinality(headFree[BinNum[b]] \cup {b})
          = Cardinality(headFree[BinNum[b]]) + 1
    BY <1>1, <2>2, <2>3, FS_AddElement
  <2>5. QED
    BY <1>3, <2>2, <2>4 DEF delayFreeBatch, ToBin, Inv, TypeInv, CountInv
<1>4. ASSUME UNCHANGED <<headFree, numFree>> PROVE CountInv'
  BY <1>4 DEF CountInv
<1>5. QED
  BY <1>2, <1>3, <1>4 DEF Next, DelayPut, EndBatch, Put, vars

(* Blocks return to the bin they came from, once, and numFree counts them. *)
THEOREM BinsAreExact == Spec => []BinsExact
<1>1. Inv /\ CountInv => BinsExact
  BY DEF Inv, PlaceInv, CountInv, BinsExact
<1>2. Inv /\ CountInv /\ [Next]_vars => CountInv'
  BY StepKeepsCount
<1>3. Spec => []CountInv
  BY <1>2, InitCount, SpecInv, PTL DEF Spec
<1>4. QED
  BY <1>1, <1>3, SpecInv, PTL

(***************************************************************************)
(* bytesDelayed, which only ever grows by one block and shrinks by one, is *)
(* the sum over the ring.                                                  *)
(***************************************************************************)
ElmSizes == [b \in Blocks |-> ElmSize(b)]
BytesInv == bytesDelayed = SumFunctionOnSet(ElmSizes, Delayed)

LEMMA SizesAreInt == \A b \in Blocks : ElmSizes[b] = ElmSize(b) /\ ElmSize(b) \in Int
<1>1. \A b \in Blocks : BinNum[b] \in Nat
  BY DelayAssumption
<1>2. QED
  BY <1>1, SMT DEF ElmSizes, ElmSize

LEMMA DelayedFinite == RingInv => Delayed \subseteq Blocks /\ IsFiniteSet(Delayed)
<1> SUFFICES ASSUME RingInv PROVE Delayed \subseteq Blocks /\ IsFiniteSet(Delayed)
  OBVIOUS
<1>1. Delayed \subseteq Blocks
  BY DEF RingInv, Delayed
<1>2. QED
  BY <1>1, DelayAssumption, FS_Subset

LEMMA InitBytes == Init => BytesInv
<1> SUFFICES ASSUME Init PROVE BytesInv
  OBVIOUS
<1>1. Delayed = {} /\ bytesDelayed = 0
  BY DelayAssumption DEF Init, Length, Delayed
<1>2. QED
  BY <1>1, SumEmpty DEF BytesInv

LEMMA StepKeepsBytes ==
  ASSUME Inv, BytesInv, [Next]_vars
  PROVE  BytesInv'
<1>1. Delayed \subseteq Blocks /\ IsFiniteSet(Delayed)
  BY DelayedFinite DEF Inv
<1>2. CASE delayFreeBatch
  <2> DEFINE b == elms[tail]
  <2>1. /\ b \in Delayed /\ Delayed' = Delayed \ {b}
        /\ bytesDelayed' = bytesDelayed - ElmSize(b)
    BY <1>2, GetDelayed DEF Inv, delayFreeBatch, circGet
  <2>2. SumFunctionOnSet(ElmSizes, Delayed \ {b}) = SumFunctionOnSet(ElmSizes, Delayed) - ElmSizes[b]
    BY <1>1, <2>1, SizesAreInt, SumRemove
  <2>3. QED
    BY <1>1, <2>1, <2>2, SizesAreInt DEF BytesInv
<1>3. CASE Put
  <2>1. hdr \in Blocks /\ hdr \notin Delayed
    BY <1>3 DEF Inv, PlaceInv, InUse, Put
  <2>2. Delayed' = Delayed \cup {hdr} /\ bytesDelayed' = bytesDelayed + ElmSize(hdr)
    BY <1>3, <2>1, PutDelayed DEF Inv, Put, circPut
  <2>3. SumFunctionOnSet(ElmSizes, Delayed \cup {hdr})
          = SumFunctionOnSet(ElmSizes, Delayed) + ElmSizes[hdr]
    BY <1>1, <2>1, SizesAreInt, SumAdd
  <2>4. QED
    BY <2>1, <2>2, <2>3, SizesAreInt DEF BytesInv
<1>4. CASE UNCHANGED ring
  BY <1>4 DEF ring, BytesInv, Delayed, Length, Wrap
<1>5. QED
  BY <1>2, <1>3, <1>4 DEF Next, Alloc, DelayPut, EndBatch, vars, ring

(* bytesDelayed is exactly the memory that waits, after any sequence of    *)
(* puts and batches of blocks of any sizes.                                *)
THEOREM BytesAreExact == Spec => []BytesExact
<1>1. BytesInv => BytesExact
  BY DEF BytesInv, BytesExact, ElmSizes
<1>2. Inv /\ BytesInv /\ [Next]_vars => BytesInv'
  BY StepKeepsBytes
<1>3. Spec => []BytesInv
  BY <1>2, InitBytes, SpecInv, PTL DEF Spec
<1>4. QED
  BY <1>1, <1>3, PTL

(* Every variable keeps its type, whatever the ring's size: neither the    *)
(* loop of delayFreeBatch nor getBuf ever takes a counter below 0, where a *)
(* size_t wraps, because each counts what is there.                        *)
THEOREM TypeCorrect == Spec => []TypeOK
<1>1. ASSUME Inv, CountInv, BytesInv PROVE TypeOK
  <2>1. bytesDelayed \in Nat
    <3>1. Delayed \subseteq Blocks /\ IsFiniteSet(Delayed)
      BY <1>1, DelayedFinite DEF Inv
    <3>2. \A b \in Delayed : ElmSizes[b] \in Nat
      BY <3>1, PowersAssumption DEF ElmSizes
    <3>3. QED
      BY <1>1, <3>1, <3>2, SumNat DEF BytesInv
  <2>2. ASSUME NEW n \in Bins PROVE numFree[n] \in Nat
    <3>1. IsFiniteSet(headFree[n])
      BY <1>1, DelayAssumption, FS_Subset DEF Inv, TypeInv
    <3>2. QED
      BY <1>1, <3>1, FS_CardinalityType DEF CountInv
  <2>3. QED
    BY <1>1, <2>1, <2>2 DEF Inv, TypeInv, TypeOK
<1>2. Inv /\ CountInv /\ [Next]_vars => CountInv'
  BY StepKeepsCount
<1>3. Inv /\ BytesInv /\ [Next]_vars => BytesInv'
  BY StepKeepsBytes
<1>4. Spec => []CountInv
  BY <1>2, InitCount, SpecInv, PTL DEF Spec
<1>5. Spec => []BytesInv
  BY <1>3, InitBytes, SpecInv, PTL DEF Spec
<1>6. QED
  BY <1>1, <1>4, <1>5, SpecInv, PTL

(***************************************************************************)
(* The ring implements the abstract queue.                                 *)
(***************************************************************************)
HeldIsSeq == Held \in Seq(Blocks) /\ Len(Held) = Length

LEMMA HeldShape ==
  ASSUME Inv
  PROVE  HeldIsSeq /\ Queue!Waiting = Delayed
<1>1. Length \in Nat
  BY RingShape DEF Inv
<1>2. \A i \in 1 .. Length : i - 1 \in 0 .. Length - 1
                             /\ tail + i - 1 = tail + (i - 1)
  BY <1>1 DEF Inv, TypeInv, Index
<1>3. \A i \in 1 .. Length : Held[i] \in Blocks
  BY <1>2 DEF Held, Inv, RingInv
<1>4. Held \in Seq(Blocks) /\ Len(Held) = Length
  BY <1>1, <1>3 DEF Held
<1>5. Delayed = {Held[i] : i \in 1 .. Length}
  <2>1. \A i \in 0 .. Length - 1 : /\ i + 1 \in 1 .. Length
                                   /\ tail + (i + 1) - 1 = tail + i
    BY <1>1 DEF Inv, TypeInv, Index
  <2>2. QED
    BY <1>2, <2>1 DEF Held, Delayed
<1>6. QED
  BY <1>4, <1>5 DEF Queue!Waiting, HeldIsSeq

LEMMA InitRefines == Init => Queue!Init
<1> SUFFICES ASSUME Init PROVE Queue!Init
  OBVIOUS
<1>1. Length = 0
  BY DEF Init, Length
<1>2. Held = <<>>
  BY <1>1 DEF Held
<1>3. Available = Blocks
  <2>1. \A n \in Bins : headFree[n] = {b \in Blocks : BinNum[b] = n}
    BY DEF Init
  <2>2. \A b \in Blocks : BinNum[b] \in Bins /\ b \in headFree[BinNum[b]]
    BY <2>1 DEF Bins
  <2>3. QED
    BY <2>1, <2>2 DEF Available
<1>4. QED
  BY <1>2, <1>3 DEF Queue!Init

LEMMA StepRefines ==
  ASSUME Inv, HeldIsSeq', [Next]_vars
  PROVE  [Queue!Next]_(Queue!vars)
<1>0. Held' \in Seq(Blocks) /\ Len(Held') = Length'
  BY DEF HeldIsSeq
<1>1. ASSUME NEW b \in Blocks, Alloc(b) PROVE Queue!Reuse(b)
  <2>1. UNCHANGED <<head, tail, elms>>
    BY <1>1 DEF Alloc, ring
  <2>2. Held' = Held
    BY <2>1 DEF Held, Length, Wrap
  <2>3. BinNum[b] \in Bins
    BY DEF Bins
  <2>4. b \in Available /\ Available' = Available \ {b}
    BY <1>1, <2>3 DEF Alloc, Available, Inv, TypeInv, PlaceInv
  <2>5. QED
    BY <2>2, <2>4 DEF Queue!Reuse
<1>2. ASSUME UNCHANGED <<head, tail, elms, headFree>>
      PROVE  UNCHANGED Queue!vars
  BY <1>2 DEF Queue!vars, Held, Length, Wrap, Available
<1>3. CASE delayFreeBatch
  <2> DEFINE b == elms[tail]
  <2>1. circGet /\ BatchGoesOn
    BY <1>3 DEF delayFreeBatch
  <2>2. /\ Length \in Nat /\ Length >= 1 /\ Length' = Length - 1
        /\ \A i \in 0 .. Length - 2 :
             elms'[Wrap(tail' + i)] = elms[Wrap(tail + (i + 1))]
        /\ b = elms[Wrap(tail + 0)]
    BY <2>1, GetShape, RingShape DEF Inv
  <2>3. b \in Blocks
    BY <2>1, GetDelayed DEF Inv
  <2>4. Held \in Seq(Blocks) /\ Len(Held) = Length
    BY HeldShape DEF HeldIsSeq
  <2>5. Head(Held) = b
    BY <2>2, <2>4 DEF Held, Inv, TypeInv, Index
  <2>6. Held' = Tail(Held)
    <3>1. Held' = [i \in 1 .. Length - 1 |-> Held[i + 1]]
      <4>1. \A i \in 1 .. Length - 1 :
              /\ i - 1 \in 0 .. Length - 2 /\ i + 1 \in 1 .. Length
              /\ tail' + i - 1 = tail' + (i - 1)
              /\ tail + (i + 1) - 1 = tail + ((i - 1) + 1)
        BY <2>2 DEF Inv, TypeInv, Index
      <4>2. QED
        BY <2>2, <4>1 DEF Held
    <3>2. /\ Tail(Held) \in Seq(Blocks) /\ Len(Tail(Held)) = Length - 1
          /\ \A i \in 1 .. Length - 1 : Tail(Held)[i] = Held[i + 1]
      BY <2>2, <2>4
    <3>3. Held' \in Seq(Blocks) /\ Len(Held') = Length - 1
      BY <1>0, <2>2
    <3>4. QED
      BY <3>1, <3>2, <3>3, SeqEqual
  <2>7. Available' = Available \cup {b}
    <3>1. BinNum[b] \in Bins
      BY <2>3 DEF Bins
    <3>2. headFree' = [headFree EXCEPT ![BinNum[b]] = @ \cup {b}]
      BY <1>3 DEF delayFreeBatch, ToBin
    <3>3. QED
      BY <3>1, <3>2 DEF Available, Inv, TypeInv
  <2>8. Len(Held) > MaxDelayElms \div 4
    BY <2>1, <2>4, CountIsLength DEF Inv, BatchGoesOn
  <2>9. Queue!Release
    BY <2>5, <2>6, <2>7, <2>8 DEF Queue!Release
  <2>10. QED
    BY <2>9 DEF Queue!Next
<1>4. CASE Put
  <2>1. circPut(hdr) /\ pc = "put" /\ headFree' = headFree
    BY <1>4 DEF Put
  <2>2. hdr \in Blocks /\ hdr \in InUse
    BY <2>1 DEF Inv, PlaceInv, InUse
  <2>3. /\ Length \in Nat /\ Length' = Length + 1
        /\ \A i \in 0 .. Length - 1 :
             elms'[Wrap(tail' + i)] = elms[Wrap(tail + i)]
        /\ elms'[Wrap(tail' + Length)] = hdr
    BY <2>1, <2>2, PutShape, RingShape DEF Inv
  <2>4. Held \in Seq(Blocks) /\ Len(Held) = Length /\ Queue!Waiting = Delayed
    BY HeldShape DEF HeldIsSeq
  <2>5. Held' = Append(Held, hdr)
    <3>1. Held' = [i \in 1 .. Length + 1 |-> IF i = Length + 1 THEN hdr ELSE Held[i]]
      <4>1. tail \in Int /\ tail' \in Int
        BY <2>1 DEF circPut, Inv, TypeInv, Index
      <4>2. \A i \in 1 .. Length : /\ i - 1 \in 0 .. Length - 1
                                   /\ tail' + i - 1 = tail' + (i - 1)
                                   /\ tail + i - 1 = tail + (i - 1)
        BY <2>3, <4>1
      <4>3. tail' + (Length + 1) - 1 = tail' + Length
        BY <2>3, <4>1
      <4>4. QED
        BY <2>3, <4>2, <4>3 DEF Held
    <3>2. /\ Append(Held, hdr) \in Seq(Blocks)
          /\ Len(Append(Held, hdr)) = Length + 1
          /\ \A i \in 1 .. Length + 1 :
               Append(Held, hdr)[i] = IF i = Length + 1 THEN hdr ELSE Held[i]
      BY <2>2, <2>3, <2>4, AppendProperties
    <3>3. Held' \in Seq(Blocks) /\ Len(Held') = Length + 1
      BY <1>0, <2>3
    <3>4. QED
      BY <3>1, <3>2, <3>3, SeqEqual
  <2>6. Len(Held) < MaxDelayElms \div 2 + 1
    <3>1. MaxDelayElms \div 2 \in Nat /\ Length <= MaxDelayElms \div 2
      BY <2>1, CountIsLength DEF Inv, RingInv
    <3>2. QED
      BY <2>3, <2>4, <3>1
  <2>7. Available' = Available
    BY <2>1 DEF Available
  <2>8. Queue!Quarantine(hdr)
    BY <2>2, <2>4, <2>5, <2>6, <2>7 DEF Queue!Quarantine, InUse
  <2>9. QED
    BY <2>2, <2>8 DEF Queue!Next
<1>5. QED
  BY <1>1, <1>2, <1>3, <1>4
     DEF Next, DelayPut, EndBatch, ring, vars, Queue!Next

(* First freed is first recycled; a block is recycled only while at least  *)
(* a quarter of the ring, all freed later, keeps waiting; and no more than *)
(* half of the ring and one block ever wait: for every size of the ring.   *)
THEOREM RingImplementsQueue == Spec => ImplementsQueue
<1>1. Inv => HeldIsSeq
  BY HeldShape
<1>2. Inv /\ HeldIsSeq' /\ [Next]_vars => [Queue!Next]_(Queue!vars)
  BY StepRefines
<1>3. QED
  BY <1>1, <1>2, InitRefines, SpecInv, PTL DEF Spec, ImplementsQueue, Queue!Spec
===============================================================================
