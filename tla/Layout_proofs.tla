----------------------------- MODULE Layout_proofs ----------------------------
(***************************************************************************)
(* Proofs about Layout, for programs whose calls come after the            *)
(* constructor (with EarlyCalls, RegionsApart does not hold).              *)
(***************************************************************************)
EXTENDS Layout, Sums

Asked == Alignments \cup {Word, 2 * Word}
Width == 0 .. 2^WordBits - 1

(***************************************************************************)
(* Arithmetic.                                                             *)
(***************************************************************************)
(* Powers of two grow. *)
LEMMA PowersGrow ==
  \A n \in 0 .. WordBits : 2^n \in Nat \ {0} /\ \A j \in 0 .. n - 1 : 2^j < 2^n
<1> DEFINE Good(n) == 2^n \in Nat \ {0} /\ \A j \in 0 .. n - 1 : 2^j < 2^n
           G == {n \in Nat : n <= WordBits => Good(n)}
<1>1. WordBits \in Nat
  BY LayoutAssumption
<1>2. 0 \in G
  <2>1. 2^0 = 1
    OBVIOUS
  <2>2. QED
    BY <2>1
<1>3. ASSUME NEW n \in Nat, n \in G PROVE n + 1 \in G
  <2> SUFFICES ASSUME n + 1 <= WordBits PROVE Good(n + 1)
    OBVIOUS
  <2>1. Good(n) /\ 2^(n + 1) = 2 * 2^n
    BY <1>1, <1>3, PowersAssumption
  <2>2. 2^(n + 1) \in Nat \ {0} /\ 2^n < 2^(n + 1)
    BY <2>1
  <2>3. ASSUME NEW j \in 0 .. (n + 1) - 1 PROVE 2^j < 2^(n + 1)
    <3>1. CASE j = n
      BY <2>2, <3>1
    <3>2. CASE j # n
      <4>1. j \in 0 .. n - 1 /\ 2^j \in Int /\ 2^n \in Int /\ 2^(n + 1) \in Int
        BY <2>1, <2>2, <3>2
      <4>2. QED
        BY <2>1, <2>2, <4>1
    <3>3. QED
      BY <3>1, <3>2
  <2>4. QED
    BY <2>2, <2>3
<1> HIDE DEF G
<1>4. Nat \subseteq G
  BY <1>2, <1>3, InductionSet
<1>5. QED
  BY <1>1, <1>4 DEF G

(* Every size lies between two powers of two. *)
LEMMA Powers ==
  /\ \A k \in 0 .. WordBits : 2^k \in Nat \ {0}
  /\ \A j, k \in 0 .. WordBits : j < k => 2^j < 2^k
  /\ \A v \in 1 .. 2^WordBits - 1 : \E z \in 0 .. WordBits - 1 :
       2^(WordBits - 1 - z) <= v /\ v < 2^(WordBits - z)
  /\ PageSize < 2^WordBits
<1>1. WordBits \in Nat /\ WordBits > 0
  BY LayoutAssumption
<1>2. \A k \in 0 .. WordBits : 2^k \in Nat \ {0}
  BY PowersGrow
<1>3. \A j, k \in 0 .. WordBits : j < k => 2^j < 2^k
  BY <1>1, PowersGrow
<1>4. ASSUME NEW v \in 1 .. 2^WordBits - 1
      PROVE  \E z \in 0 .. WordBits - 1 : 2^(WordBits - 1 - z) <= v /\ v < 2^(WordBits - z)
  <2> DEFINE T == {k \in 0 .. WordBits : v < 2^k}
  <2>1. T \in SUBSET Nat /\ WordBits \in T
    BY <1>1, <1>2
  <2> HIDE DEF T
  <2>2. PICK k \in T : \A m \in T : k <= m
    BY <2>1, LeastNumber
  <2>3. k \in 0 .. WordBits /\ v < 2^k
    BY DEF T
  <2>4. k # 0
    <3>1. 2^0 = 1 /\ v \in Int /\ v >= 1
      BY <1>1, <1>2
    <3>2. SUFFICES ASSUME k = 0 PROVE FALSE
      OBVIOUS
    <3>3. v < 2^0
      BY <2>3, <3>2
    <3>4. QED
      BY <3>1, <3>3
  <2>5. k - 1 \in 0 .. WordBits /\ k - 1 \notin T
    <3>1. k \in Nat /\ k - 1 \in 0 .. WordBits /\ ~(k <= k - 1)
      BY <1>1, <2>3, <2>4
    <3>2. QED
      BY <2>2, <3>1
  <2>6. 2^(k - 1) <= v
    <3>1. 2^(k - 1) \in Nat /\ ~(v < 2^(k - 1))
      BY <1>2, <2>5 DEF T
    <3>2. QED
      BY <3>1
  <2> DEFINE z == WordBits - k
  <2>7. z \in 0 .. WordBits - 1 /\ WordBits - 1 - z = k - 1 /\ WordBits - z = k
    BY <1>1, <2>3, <2>4
  <2>8. 2^(WordBits - 1 - z) <= v /\ v < 2^(WordBits - z)
    BY <2>3, <2>6, <2>7
  <2> HIDE DEF z
  <2>9. QED
    BY <2>7, <2>8
<1>5. QED
  BY <1>2, <1>3, <1>4, LayoutAssumption

LEMMA ModRange ==
  ASSUME NEW x \in Int, NEW m \in Nat \ {0}
  PROVE  x % m \in 0 .. m - 1
BY Z3

LEMMA ModBelow ==
  ASSUME NEW m \in Nat \ {0}, NEW x \in 0 .. m - 1
  PROVE  x % m = x
BY Z3

LEMMA ModAligned ==
  ASSUME NEW x \in Int, NEW m \in Nat \ {0}
  PROVE  (x - (x % m)) % m = 0
<1>1. x = m * (x \div m) + (x % m)
  BY Z3
<1>2. x \div m \in Int /\ x % m \in Int
  BY Z3
<1>3. ASSUME NEW q \in Int, NEW y \in Int, y = m * q PROVE y % m = 0
  BY <1>3, Z3
<1>4. x - (x % m) = m * (x \div m)
  BY <1>1, <1>2, Z3
<1> QED
  BY <1>2, <1>3, <1>4

(* log2fast rounds up: the bin that it names is large enough. *)
LEMMA Log2Covers ==
  ASSUME NEW v \in Width, v # 0
  PROVE  log2fast(v) \in 0 .. WordBits /\ v <= 2^log2fast(v)
<1> DEFINE z == Clz(v)
<1>1. WordBits \in Nat /\ \A k \in 0 .. WordBits : 2^k \in Nat
  BY LayoutAssumption, Powers
<1>2. v \in 1 .. 2^WordBits - 1
  BY <1>1 DEF Width
<1>3. z \in 0 .. WordBits - 1 /\ 2^(WordBits - 1 - z) <= v /\ v < 2^(WordBits - z)
  BY <1>2, Powers DEF Clz
<1>4. CASE IsPow2(v)
  <2>1. PICK k \in 0 .. WordBits - 1 : v = 2^k
    BY <1>4 DEF IsPow2
  <2>2. ~(k < WordBits - 1 - z)
    BY <1>1, <1>3, <2>1, Powers
  <2>3. ~(WordBits - z < k) /\ k # WordBits - z
    <3>1. WordBits - z \in 0 .. WordBits
      BY <1>1, <1>3
    <3>2. k \in 0 .. WordBits
      BY <1>1, <2>1
    <3> QED
      BY <1>1, <1>3, <2>1, <3>1, <3>2, Powers
  <2>4. k = WordBits - z - 1
    BY <1>1, <1>3, <2>1, <2>2, <2>3
  <2>5. log2fast(v) = k
    BY <1>4, <2>4 DEF log2fast, Width
  <2> QED
    BY <1>1, <2>1, <2>5
<1>5. CASE ~IsPow2(v)
  <2>1. log2fast(v) = WordBits - z
    BY <1>5 DEF log2fast
  <2>2. WordBits - z \in 0 .. WordBits
    BY <1>1, <1>3
  <2> QED
    BY <1>1, <1>3, <2>1, <2>2 DEF Width
<1> QED
  BY <1>4, <1>5

(* A block of the bin that getBuf takes has room for all that memalignInt  *)
(* adds to the size, and the sum has not wrapped.                          *)
LEMMA Room ==
  ASSUME NEW al \in Asked, NEW n \in Width,
         BinNum(TRUE, al, n) < MaxAllocPower, SizeAsserted(n)
  PROVE  /\ BinNum(TRUE, al, n) \in Nat
         /\ HdrSize + Word + n + (IF al > 1 THEN al ELSE 0) <= 2^BinNum(TRUE, al, n)
<1> DEFINE sum == HdrSize + Word + n + (IF al > 1 THEN al ELSE 0)
           req == Most(PageSize, AllocSize(TRUE, al, n))
<1>1. /\ WordBits \in Nat /\ \A k \in 0 .. WordBits : 2^k \in Nat \ {0}
      /\ MaxAllocPower \in Nat /\ MaxAllocPower > 0 /\ MaxAllocPower <= WordBits
      /\ Word \in Nat /\ Word > 0 /\ PageSize \in Nat /\ PageSize > 0
      /\ al \in Nat
  BY LayoutAssumption, Powers DEF Asked
<1>2. HdrSize \in Nat
  <2>1. /\ FixedHdr \in Nat /\ TrackFrames \in Nat /\ TrackFreeFrames \in Nat
    BY LayoutAssumption
  <2>2. Word * (TrackFrames + TrackFreeFrames) \in Nat
    BY <1>1, <2>1, Z3
  <2> QED
    BY <2>1, <2>2 DEF HdrSize, HdrSizeOf
<1>3. n <= 2^(MaxAllocPower - 1)
  <2>1. 2^(MaxAllocPower - 1) \in Nat
    BY <1>1
  <2>2. CASE n = 0
    BY <2>1, <2>2
  <2>3. CASE n # 0
    <3>1. log2fast(n) \in 0 .. WordBits /\ n <= 2^log2fast(n)
      BY <2>3, Log2Covers
    <3>2. log2fast(n) <= MaxAllocPower - 1
      BY <1>1, <3>1 DEF SizeAsserted
    <3>3. 2^log2fast(n) <= 2^(MaxAllocPower - 1)
      <4>1. CASE log2fast(n) = MaxAllocPower - 1
        BY <4>1, <2>1
      <4>2. CASE log2fast(n) < MaxAllocPower - 1
        BY <4>2, <1>1, <3>1, Powers
      <4> QED
        BY <1>1, <3>1, <3>2, <4>1, <4>2
    <3> QED
      BY <1>1, <2>1, <3>1, <3>3 DEF Width
  <2> QED
    BY <2>2, <2>3
<1>4. sum \in 0 .. 2^WordBits - 1
  <2>1. HdrSize + Word + al + 2^(MaxAllocPower - 1) < 2^WordBits
    BY AlignmentAssumption DEF Asked
  <2>2. 2^WordBits \in Nat /\ 2^(MaxAllocPower - 1) \in Nat /\ n \in Nat
    BY <1>1 DEF Width
  <2> QED
    BY <1>1, <1>2, <1>3, <2>1, <2>2
<1>5. AllocSize(TRUE, al, n) = sum
  <2>1. 2^WordBits \in Nat \ {0}
    BY <1>1
  <2> QED
    BY <1>4, <2>1, ModBelow DEF AllocSize, HdrSize
<1>6. req \in Width /\ req # 0 /\ sum <= req
  <2>1. PageSize < 2^WordBits /\ 2^WordBits \in Nat
    BY <1>1, Powers
  <2>2. \A x \in Nat : /\ Most(PageSize, x) \in {PageSize, x}
                       /\ PageSize <= Most(PageSize, x) /\ x <= Most(PageSize, x)
    BY <1>1 DEF Most
  <2>3. req \in {PageSize, sum} /\ PageSize <= req /\ sum <= req /\ sum \in Nat
    <3>1. req = Most(PageSize, sum)
      BY <1>5
    <3> HIDE DEF sum, req
    <3>2. sum \in Nat
      BY <1>4, <2>1
    <3> QED
      BY <3>1, <3>2, <2>2
  <2> HIDE DEF sum, req
  <2> QED
    BY <1>1, <1>4, <2>1, <2>3 DEF Width
<1>7. log2fast(req) \in 0 .. WordBits /\ req <= 2^log2fast(req)
  <2> HIDE DEF req
  <2> QED
    BY <1>6, Log2Covers
<1>8. 2^log2fast(req) \in Nat
  BY <1>1, <1>7
<1>9. BinNum(TRUE, al, n) = log2fast(req)
  BY DEF BinNum
<1> HIDE DEF sum, req
<1>10. log2fast(req) \in Nat /\ sum <= 2^log2fast(req)
  BY <1>1, <1>4, <1>6, <1>7, <1>8 DEF Width
<1> QED
  BY <1>9, <1>10 DEF sum

(***************************************************************************)
(* The invariant.                                                          *)
(***************************************************************************)
Headers == [magic : {"free", "inuse"}, usrData : Int, usrDataSize : Nat, misalignment : Nat]

(* What a block that the program has looks like. *)
HeldInv(b) ==
  /\ \E al \in Asked, n \in Width : \E d :
       held[b] = [al |-> al, size |-> n, data |-> d] /\ DOMAIN d = 0 .. n - 1
  /\ hdr[b].magic = "inuse"

Space(b) ==
  LET h == hdr[b]
  IN  /\ HdrSize + Word <= Offset(b, h)
      /\ h.usrDataSize = held[b].size
      /\ Offset(b, h) + held[b].size + h.misalignment = BinSize(b)
      /\ held[b].al > 1 => h.usrData % held[b].al = 0 /\ h.misalignment < held[b].al

DataOf(b) ==
  /\ \A i \in 0 .. held[b].size - 1 : mem[b][Offset(b, hdr[b]) + i] = held[b].data[i]
  /\ \A o \in SelfBytes(b, hdr[b]) : mem[b][o] = "self"

(* The bytes that the program wrote behind the data of a block that it has *)
(* lie in front of the guard page and are there to be seen; the slop is    *)
(* whole but for them.                                                     *)
Behind(b) == Offset(b, hdr[b]) + hdr[b].usrDataSize

OverrunInv(b) ==
  /\ \A k \in overrun[b] : k < hdr[b].misalignment /\ mem[b][Behind(b) + k] = "x"
  /\ \A j \in 0 .. Least(hdr[b].misalignment, MaxSlop) - 1 :
       j \in overrun[b] \/ mem[b][Behind(b) + j] = "slop"

Inv ==
  /\ isInit = TRUE /\ overrun \in [Blocks -> SUBSET Nat]
  /\ ended \in {"no", "size", "slop", "fault"}
  /\ ended = "slop" => \E b \in Live : HitSlop(b)
  /\ hdr \in [Blocks -> Headers] /\ Live \subseteq Blocks /\ DOMAIN mem = Blocks
  /\ \A b \in Blocks :
       /\ mem[b] \in [0 .. BinSize(b) - 1 -> Bytes]
       /\ b \notin Live => hdr[b].magic = "free" /\ ~HitSlop(b)
       /\ b \in Live => HeldInv(b) /\ Space(b) /\ DataOf(b) /\ OverrunInv(b)

LEMMA ConstantTypes ==
  /\ {PageSize, FixedHdr, Word, MaxSlop, WordBits, MaxAllocPower} \subseteq Nat \ {0}
  /\ HdrSize \in Nat /\ FixedHdr + Word * TrackFrames <= HdrSize
  /\ \A b \in Blocks : b.at \in Nat /\ b.bin \in Nat /\ BinSize(b) \in Nat \ {0}
  /\ Width \subseteq Nat /\ 2^WordBits \in Nat
  /\ Asked \subseteq Nat
<1>1. /\ {PageSize, FixedHdr, Word, MaxSlop, WordBits, MaxAllocPower} \subseteq Nat \ {0}
      /\ {TrackFrames, TrackFreeFrames} \subseteq Nat
      /\ MaxAllocPower <= WordBits
      /\ \A b \in Blocks : b.at \in Nat /\ b.bin \in 0 .. MaxAllocPower - 1
  BY LayoutAssumption
<1>2. HdrSize \in Nat /\ FixedHdr + Word * TrackFrames <= HdrSize
  <2>1. /\ Word * TrackFrames \in Nat /\ Word * TrackFreeFrames \in Nat
        /\ Word * (TrackFrames + TrackFreeFrames) = Word * TrackFrames + Word * TrackFreeFrames
    BY <1>1, Z3
  <2>2. HdrSize = FixedHdr + Word * (TrackFrames + TrackFreeFrames)
    BY DEF HdrSize, HdrSizeOf
  <2> QED
    BY <1>1, <2>1, <2>2
<1>3. \A b \in Blocks : b.bin \in 0 .. WordBits
  BY <1>1
<1>4. \A b \in Blocks : BinSize(b) \in Nat \ {0}
  BY <1>3, Powers DEF BinSize
<1>5. 2^WordBits \in Nat
  BY <1>1, Powers
<1> QED
  BY <1>1, <1>2, <1>3, <1>4, <1>5, LayoutAssumption DEF Width, Asked

(* memalignInt's header is right for a block of the bin. *)
LEMMA HeaderRight ==
  ASSUME NEW b \in Blocks, NEW al \in Asked, NEW n \in Width,
         b.bin = BinNum(TRUE, al, n), BinNum(TRUE, al, n) < MaxAllocPower, SizeAsserted(n)
  PROVE  LET h == Header(b, al, n)
         IN  /\ h \in Headers /\ h.magic = "inuse" /\ h.usrDataSize = n
             /\ HdrSize + Word <= Offset(b, h)
             /\ Offset(b, h) + n + h.misalignment = BinSize(b)
             /\ al > 1 => h.usrData % al = 0 /\ h.misalignment < al
             /\ b.at + BinSize(b) > n /\ h.usrData > b.at
<1> DEFINE h == Header(b, al, n)
           end == b.at + BinSize(b) - n
           mis == Misalignment(b, al, n)
<1>1. /\ HdrSize \in Nat /\ Word \in Nat \ {0} /\ b.at \in Nat
      /\ BinSize(b) \in Nat \ {0} /\ n \in Nat /\ al \in Nat
  BY ConstantTypes
<1>2. end \in Int
  BY <1>1
<1>3. mis \in Nat /\ (al > 1 => mis < al /\ (end - mis) % al = 0) /\ (~(al > 1) => mis = 0)
  <2>1. CASE al > 1
    <3>1. mis = end % al /\ al \in Nat \ {0}
      BY <1>1, <2>1 DEF Misalignment
    <3> HIDE DEF end, mis
    <3>2. mis \in 0 .. al - 1 /\ (end - mis) % al = 0
      BY <1>2, <3>1, ModRange, ModAligned
    <3> QED
      BY <1>1, <2>1, <3>2
  <2>2. CASE ~(al > 1)
    BY <2>2 DEF Misalignment
  <2> QED
    BY <2>1, <2>2
<1>4. HdrSize + Word + n + (IF al > 1 THEN al ELSE 0) <= BinSize(b)
  BY Room DEF BinSize
<1>5. HdrSize + Word + n + mis <= BinSize(b)
  <2> HIDE DEF mis
  <2>1. CASE al > 1
    BY <1>1, <1>3, <1>4, <2>1
  <2>2. CASE ~(al > 1)
    BY <1>1, <1>3, <1>4, <2>2
  <2> QED
    BY <2>1, <2>2
<1>6. h = [magic |-> "inuse", usrData |-> end - mis, usrDataSize |-> n, misalignment |-> mis]
  <2>1. end - mis = b.at + BinSize(b) - n - mis
    <3> HIDE DEF mis
    <3> QED
      BY <1>1, <1>3
  <2> HIDE DEF end
  <2> QED
    BY <2>1 DEF Header
<1>7. end = b.at + BinSize(b) - n
  OBVIOUS
<1> HIDE DEF h, end, mis
<1>8. /\ h \in Headers /\ h.magic = "inuse" /\ h.usrDataSize = n /\ h.misalignment = mis
      /\ h.usrData = end - mis
  BY <1>1, <1>2, <1>3, <1>6 DEF Headers
<1>9. Offset(b, h) = end - mis - b.at
  BY <1>8 DEF Offset
<1>10. /\ HdrSize + Word <= Offset(b, h) /\ Offset(b, h) + n + mis = BinSize(b)
       /\ b.at + BinSize(b) > n /\ end - mis > b.at
  BY <1>1, <1>2, <1>3, <1>5, <1>7, <1>9
<1> QED
  BY <1>3, <1>8, <1>10 DEF h

(***************************************************************************)
(* The bytes of a block.                                                   *)
(***************************************************************************)
(* What memalignInt's caller needs of the bytes m that a block gets. *)
GoodBytes(b, h, m, data) ==
  /\ m \in [0 .. BinSize(b) - 1 -> Bytes] /\ DOMAIN data = 0 .. h.usrDataSize - 1
  /\ \A o \in SlopBytes(b, h) : m[o] = "slop"
  /\ \A o \in SelfBytes(b, h) : m[o] = "self"
  /\ \A i \in 0 .. h.usrDataSize - 1 : m[Offset(b, h) + i] = data[i]

(* A header whose pointers lie in the block. *)
Inside(b, h) ==
  /\ h \in Headers /\ Word \in Nat \ {0} /\ MaxSlop \in Nat \ {0}
  /\ BinSize(b) \in Nat /\ Offset(b, h) \in Nat /\ Word <= Offset(b, h)
  /\ Offset(b, h) + h.usrDataSize + h.misalignment = BinSize(b)

LEMMA WrittenBytes ==
  ASSUME NEW N \in Nat, NEW m \in [0 .. N - 1 -> Bytes], NEW S, NEW v \in Bytes
  PROVE  /\ Written(m, S, v) \in [0 .. N - 1 -> Bytes]
         /\ \A o \in 0 .. N - 1 : Written(m, S, v)[o] = IF o \in S THEN v ELSE m[o]
BY DEF Written

(* Slop, pointer and data lie in the block and apart. *)
LEMMA PartsApart ==
  ASSUME NEW b, NEW h, Inside(b, h)
  PROVE  /\ SlopBytes(b, h) \subseteq 0 .. BinSize(b) - 1
         /\ SelfBytes(b, h) \subseteq 0 .. BinSize(b) - 1
         /\ DataBytes(b, h) \subseteq 0 .. BinSize(b) - 1
         /\ \A o \in SlopBytes(b, h) : o \notin SelfBytes(b, h) /\ o \notin DataBytes(b, h)
         /\ \A o \in SelfBytes(b, h) : o \notin DataBytes(b, h)
         /\ \A i \in 0 .. h.usrDataSize - 1 : Offset(b, h) + i \in DataBytes(b, h)
<1>1. /\ h.usrDataSize \in Nat /\ h.misalignment \in Nat
      /\ Least(h.misalignment, MaxSlop) \in Nat
      /\ Least(h.misalignment, MaxSlop) <= h.misalignment
  BY DEF Inside, Headers, Least
<1> QED
  BY <1>1 DEF Inside, SlopBytes, SelfBytes, DataBytes

LEMMA LaidOutRight ==
  ASSUME NEW b \in Blocks, NEW h, Inside(b, h), mem[b] \in [0 .. BinSize(b) - 1 -> Bytes]
  PROVE  /\ LaidOut(b, h) \in [0 .. BinSize(b) - 1 -> Bytes]
         /\ \A o \in SlopBytes(b, h) : LaidOut(b, h)[o] = "slop"
         /\ \A o \in SelfBytes(b, h) : LaidOut(b, h)[o] = "self"
         /\ \A o \in DataBytes(b, h) : LaidOut(b, h)[o] = "poison"
<1> DEFINE traced == Written(mem[b], FixedHdr .. FixedHdr + Word * TrackFrames - 1, "trace")
           slop == Written(traced, SlopBytes(b, h), "slop")
           self == Written(slop, SelfBytes(b, h), "self")
<1>1. BinSize(b) \in Nat
  BY DEF Inside
<1>2. traced \in [0 .. BinSize(b) - 1 -> Bytes]
  BY <1>1, WrittenBytes DEF Bytes
<1>3. /\ slop \in [0 .. BinSize(b) - 1 -> Bytes]
      /\ \A o \in 0 .. BinSize(b) - 1 : o \in SlopBytes(b, h) => slop[o] = "slop"
  <2> HIDE DEF traced
  <2> QED
    BY <1>1, <1>2, WrittenBytes DEF Bytes
<1>4. /\ self \in [0 .. BinSize(b) - 1 -> Bytes]
      /\ \A o \in 0 .. BinSize(b) - 1 : self[o] = IF o \in SelfBytes(b, h) THEN "self" ELSE slop[o]
  <2> HIDE DEF slop
  <2> QED
    BY <1>1, <1>3, WrittenBytes DEF Bytes
<1>5. LaidOut(b, h) = Written(self, DataBytes(b, h), "poison")
  BY DEF LaidOut
<1> HIDE DEF traced, slop, self
<1>6. /\ LaidOut(b, h) \in [0 .. BinSize(b) - 1 -> Bytes]
      /\ \A o \in 0 .. BinSize(b) - 1 :
           LaidOut(b, h)[o] = IF o \in DataBytes(b, h) THEN "poison" ELSE self[o]
  BY <1>1, <1>4, <1>5, WrittenBytes DEF Bytes
<1> QED
  BY <1>3, <1>4, <1>6, PartsApart

LEMMA GoodPoison ==
  ASSUME NEW b \in Blocks, NEW h, Inside(b, h), mem[b] \in [0 .. BinSize(b) - 1 -> Bytes]
  PROVE  GoodBytes(b, h, LaidOut(b, h), [i \in 0 .. h.usrDataSize - 1 |-> "poison"])
BY LaidOutRight, PartsApart DEF GoodBytes

LEMMA GoodZero ==
  ASSUME NEW b \in Blocks, NEW h, Inside(b, h), mem[b] \in [0 .. BinSize(b) - 1 -> Bytes]
  PROVE  GoodBytes(b, h, Written(LaidOut(b, h), DataBytes(b, h), "zero"),
                   [i \in 0 .. h.usrDataSize - 1 |-> "zero"])
<1> DEFINE m == Written(LaidOut(b, h), DataBytes(b, h), "zero")
<1>1. /\ m \in [0 .. BinSize(b) - 1 -> Bytes]
      /\ \A o \in 0 .. BinSize(b) - 1 :
           m[o] = IF o \in DataBytes(b, h) THEN "zero" ELSE LaidOut(b, h)[o]
  BY LaidOutRight, WrittenBytes, SMTT(30) DEF Bytes, Inside
<1> HIDE DEF m
<1>2. GoodBytes(b, h, m, [i \in 0 .. h.usrDataSize - 1 |-> "zero"])
  BY <1>1, LaidOutRight, PartsApart DEF GoodBytes
<1> QED
  BY <1>2 DEF m

(* The arithmetic of copying between two offsets. *)
LEMMA CopyIndex ==
  ASSUME NEW at \in Nat, NEW src \in Nat, NEW i \in Nat, NEW k \in Nat
  PROVE  /\ i < k => at + i \in at .. at + k - 1
         /\ ~(i < k) => at + i \notin at .. at + k - 1
         /\ (at + i) - at + src = src + i
OBVIOUS

LEMMA CopyRange ==
  ASSUME NEW at \in Nat, NEW src \in Nat, NEW k \in Nat, NEW size \in Nat, NEW rest \in Nat,
         NEW end \in Nat, k <= size, src + size + rest = end, NEW o \in at .. at + k - 1
  PROVE  /\ o - at \in 0 .. size - 1 /\ o - at + src = src + (o - at)
         /\ o - at + src \in 0 .. end - 1
OBVIOUS

LEMMA GoodCopy ==
  ASSUME NEW b \in Blocks, NEW h, Inside(b, h), mem[b] \in [0 .. BinSize(b) - 1 -> Bytes],
         NEW from \in Blocks, Inside(from, hdr[from]), mem[from] \in [0 .. BinSize(from) - 1 -> Bytes],
         hdr[from].usrDataSize = held[from].size, DataOf(from)
  PROVE  GoodBytes(b, h, Copied(b, h, from),
                   [i \in 0 .. h.usrDataSize - 1 |->
                      IF i < held[from].size THEN held[from].data[i] ELSE "poison"])
<1> DEFINE m == Copied(b, h, from)
           at == Offset(b, h)
           src == Offset(from, hdr[from])
           k == Least(h.usrDataSize, hdr[from].usrDataSize)
<1>1. /\ at \in Nat /\ src \in Nat /\ h.usrDataSize \in Nat /\ hdr[from].usrDataSize \in Nat
      /\ k \in Nat /\ k <= h.usrDataSize /\ k <= hdr[from].usrDataSize
      /\ \A i \in Nat : i < k <=> i < h.usrDataSize /\ i < held[from].size
  <2>1. \A x, y \in Nat : /\ Least(x, y) \in Nat /\ Least(x, y) <= x /\ Least(x, y) <= y
                          /\ \A i \in Nat : i < Least(x, y) <=> i < x /\ i < y
    BY DEF Least
  <2>2. /\ at \in Nat /\ src \in Nat /\ h.usrDataSize \in Nat
        /\ hdr[from].usrDataSize \in Nat /\ held[from].size \in Nat
    BY DEF Inside, Headers
  <2> QED
    BY <2>1, <2>2
<1>2. DOMAIN mem[b] = 0 .. BinSize(b) - 1
  OBVIOUS
<1>3. m = [o \in 0 .. BinSize(b) - 1 |->
             IF o \in at .. at + k - 1 THEN mem[from][o - at + src] ELSE LaidOut(b, h)[o]]
  BY <1>2 DEF Copied
<1>4. \A o \in at .. at + k - 1 :
        /\ o \in DataBytes(b, h) /\ o - at \in 0 .. held[from].size - 1
        /\ o - at + src = src + (o - at) /\ o - at + src \in 0 .. BinSize(from) - 1
  <2>1. /\ hdr[from].misalignment \in Nat /\ BinSize(from) \in Nat
        /\ src + hdr[from].usrDataSize + hdr[from].misalignment = BinSize(from)
    <3> HIDE DEF k
    <3> QED
      BY DEF Inside, Headers
  <2>2. DataBytes(b, h) = at .. at + h.usrDataSize - 1
    BY DEF DataBytes
  <2> HIDE DEF at, src, k
  <2>3. ASSUME NEW o \in at .. at + k - 1 PROVE o \in DataBytes(b, h)
    BY <1>1, <2>2
  <2>4. ASSUME NEW o \in at .. at + k - 1
        PROVE  /\ o - at \in 0 .. hdr[from].usrDataSize - 1 /\ o - at + src = src + (o - at)
               /\ o - at + src \in 0 .. BinSize(from) - 1
    BY <1>1, <2>1, CopyRange, SMTT(30)
  <2> QED
    BY <2>3, <2>4
<1>5. \A i \in 0 .. held[from].size - 1 : mem[from][src + i] = held[from].data[i]
  BY DEF DataOf
<1>6. m \in [0 .. BinSize(b) - 1 -> Bytes]
  <2>1. LaidOut(b, h) \in [0 .. BinSize(b) - 1 -> Bytes]
    BY LaidOutRight
  <2> HIDE DEF m, at, src, k
  <2>2. ASSUME NEW o \in 0 .. BinSize(b) - 1 PROVE m[o] \in Bytes
    BY <1>3, <1>4, <2>1, <2>2
  <2> QED
    BY <1>3, <2>2
<1>7. /\ \A o \in SlopBytes(b, h) : m[o] = "slop"
      /\ \A o \in SelfBytes(b, h) : m[o] = "self"
  <2> HIDE DEF m, at, src, k
  <2> QED
    BY <1>3, <1>4, LaidOutRight, PartsApart
<1>8. ASSUME NEW i \in 0 .. h.usrDataSize - 1
      PROVE  m[at + i] = IF i < held[from].size THEN held[from].data[i] ELSE "poison"
  <2>1. at + i \in 0 .. BinSize(b) - 1 /\ at + i \in DataBytes(b, h)
    BY PartsApart
  <2>2. CASE i < held[from].size
    <3>1. at + i \in at .. at + k - 1 /\ ((at + i) - at) + src = src + i
      <4> HIDE DEF at, src, k
      <4>1. i \in Nat /\ i < k
        BY <1>1, <2>2
      <4> QED
        BY <1>1, <4>1, CopyIndex
    <3>2. i \in 0 .. held[from].size - 1
      BY <1>1, <2>2
    <3>3. m[at + i] = mem[from][src + i]
      <4> HIDE DEF m, at, src, k
      <4> QED
        BY <1>3, <2>1, <3>1
    <3> HIDE DEF m, at, src, k
    <3> QED
      BY <1>5, <2>2, <3>2, <3>3
  <2>3. CASE ~(i < held[from].size)
    <3>1. at + i \notin at .. at + k - 1
      <4> HIDE DEF at, src, k
      <4>1. i \in Nat /\ ~(i < k)
        BY <1>1, <2>3
      <4> QED
        BY <1>1, <4>1, CopyIndex
    <3> HIDE DEF m, at, src, k
    <3> QED
      BY <1>3, <2>1, <2>3, <3>1, LaidOutRight
  <2> QED
    BY <2>2, <2>3
<1> QED
  BY <1>6, <1>7, <1>8 DEF GoodBytes

(***************************************************************************)
(* The steps.                                                              *)
(***************************************************************************)
(* What the invariant says of one block. *)
BlockInv(b) ==
  /\ mem[b] \in [0 .. BinSize(b) - 1 -> Bytes]
  /\ b \notin Live => hdr[b].magic = "free" /\ ~HitSlop(b)
  /\ b \in Live => HeldInv(b) /\ Space(b) /\ DataOf(b) /\ OverrunInv(b)

LEMMA InvByBlock ==
  Inv <=> /\ isInit = TRUE /\ overrun \in [Blocks -> SUBSET Nat]
          /\ ended \in {"no", "size", "slop", "fault"}
          /\ ended = "slop" => \E b \in Live : HitSlop(b)
          /\ hdr \in [Blocks -> Headers] /\ Live \subseteq Blocks /\ DOMAIN mem = Blocks
          /\ \A b \in Blocks : BlockInv(b)
BY DEF Inv, BlockInv

LEMMA InvNext ==
  ASSUME isInit' = TRUE, overrun' \in [Blocks -> SUBSET Nat],
         ended' \in {"no", "size", "slop", "fault"},
         ended' = "slop" => \E b \in Live' : HitSlop(b)',
         hdr' \in [Blocks -> Headers], Live' \subseteq Blocks, DOMAIN mem' = Blocks,
         \A b \in Blocks : BlockInv(b)'
  PROVE  Inv'
BY DEF Inv, BlockInv

(* A block whose header, bytes and owner stay keeps its invariant. *)
LEMMA SameBlock ==
  ASSUME NEW b \in Blocks, BlockInv(b), hdr'[b] = hdr[b], mem'[b] = mem[b],
         b \in Live' <=> b \in Live, b \in Live => held'[b] = held[b],
         overrun'[b] = overrun[b]
  PROVE  BlockInv(b)'
<1>1. /\ Offset(b, hdr[b])' = Offset(b, hdr[b]) /\ SelfBytes(b, hdr[b])' = SelfBytes(b, hdr[b])
      /\ BinSize(b)' = BinSize(b)
  BY DEF Offset, SelfBytes, BinSize
<1>2. HitSlop(b)' = HitSlop(b)
  BY DEF HitSlop
<1>3. OverrunInv(b) => OverrunInv(b)'
  BY <1>1 DEF OverrunInv, Behind
<1>4. ASSUME b \in Live, HeldInv(b), Space(b), DataOf(b) PROVE (HeldInv(b) /\ Space(b) /\ DataOf(b))'
  <2>1. held'[b] = held[b]
    BY <1>4
  <2>2. HeldInv(b)'
    BY <1>4, <2>1 DEF HeldInv, Width, Asked
  <2>3. Space(b)'
    BY <1>1, <1>4, <2>1 DEF Space, HdrSize
  <2>4. DataOf(b)'
    BY <1>1, <1>4, <2>1 DEF DataOf
  <2> QED
    BY <2>2, <2>3, <2>4
<1> QED
  BY <1>1, <1>2, <1>3, <1>4 DEF BlockInv

LEMMA LiveInside ==
  ASSUME Inv, NEW b \in Live
  PROVE  /\ b \in Blocks /\ Inside(b, hdr[b]) /\ BlockInv(b)
         /\ hdr[b].usrDataSize = held[b].size /\ hdr[b] \in Headers
<1>1. b \in Blocks /\ BlockInv(b) /\ hdr[b] \in Headers
  BY InvByBlock DEF Live
<1>2. /\ HdrSize + Word <= Offset(b, hdr[b]) /\ hdr[b].usrDataSize = held[b].size
      /\ Offset(b, hdr[b]) + held[b].size + hdr[b].misalignment = BinSize(b)
  BY <1>1 DEF BlockInv, Space
<1>3. HdrSize \in Nat /\ Word \in Nat \ {0} /\ MaxSlop \in Nat \ {0} /\ BinSize(b) \in Nat /\ b.at \in Nat
  BY <1>1, ConstantTypes
<1>4. Offset(b, hdr[b]) \in Int
  BY <1>1, <1>3 DEF Offset, Headers
<1>5. Offset(b, hdr[b]) \in Nat /\ Word <= Offset(b, hdr[b])
  BY <1>2, <1>3, <1>4
<1> QED
  BY <1>1, <1>2, <1>3, <1>5 DEF Inside

(* free's comparison of the slop finds what was written into it, and finds *)
(* nothing else.                                                           *)
LEMMA SlopTells ==
  ASSUME Inv, NEW b \in Live
  PROVE  SlopIntact(b) <=> ~HitSlop(b)
<1> DEFINE mis == hdr[b].misalignment
           at == Behind(b)
<1>1. Inside(b, hdr[b]) /\ OverrunInv(b) /\ b \in Blocks /\ overrun[b] \subseteq Nat
  BY LiveInside, InvByBlock DEF BlockInv
<1>2. mis \in Nat /\ MaxSlop \in Nat /\ at \in Nat
  BY <1>1 DEF Inside, Headers, Behind
<1>3. /\ Least(mis, MaxSlop) \in Nat
      /\ \A k \in Nat : k < Least(mis, MaxSlop) <=> k < mis /\ k < MaxSlop
  <2> HIDE DEF mis
  <2> QED
    BY <1>2 DEF Least
<1>4. SlopBytes(b, hdr[b]) = at .. at + Least(mis, MaxSlop) - 1
  BY DEF SlopBytes, Behind
<1>5. /\ \A k \in overrun[b] : k \in Nat /\ k < mis /\ mem[b][at + k] = "x"
      /\ \A j \in 0 .. Least(mis, MaxSlop) - 1 : j \in overrun[b] \/ mem[b][at + j] = "slop"
  BY <1>1 DEF OverrunInv
<1>6. SlopIntact(b) <=> (mis > 0 => \A o \in SlopBytes(b, hdr[b]) : mem[b][o] = "slop")
  BY DEF SlopIntact
<1> HIDE DEF mis, at
<1>7. ASSUME SlopIntact(b) PROVE ~HitSlop(b)
  <2>1. SUFFICES ASSUME NEW k \in overrun[b], k < MaxSlop PROVE FALSE
    BY DEF HitSlop
  <2>2. k \in Nat /\ k < mis /\ mem[b][at + k] = "x"
    BY <1>5
  <2>3. at + k \in SlopBytes(b, hdr[b])
    BY <1>2, <1>3, <1>4, <2>1, <2>2
  <2>4. mis > 0
    BY <1>2, <2>2
  <2> QED
    BY <1>6, <1>7, <2>2, <2>3, <2>4
<1>8. ASSUME ~HitSlop(b) PROVE SlopIntact(b)
  <2>1. SUFFICES ASSUME NEW o \in SlopBytes(b, hdr[b]) PROVE mem[b][o] = "slop"
    BY <1>6
  <2>2. PICK j \in 0 .. Least(mis, MaxSlop) - 1 : o = at + j
    <3>1. o - at \in 0 .. Least(mis, MaxSlop) - 1 /\ o = at + (o - at)
      BY <1>2, <1>3, <1>4, <2>1
    <3> QED
      BY <3>1
  <2>3. j < MaxSlop
    BY <1>2, <1>3, <2>2
  <2>4. j \notin overrun[b]
    BY <1>8, <2>3 DEF HitSlop
  <2> QED
    BY <1>5, <2>2, <2>4
<1> QED
  BY <1>7, <1>8

(* free leaves a block with nobody. *)
LEMMA FreedBlock ==
  ASSUME Inv, NEW b \in Live, Freeable(b), hdr'[b] = FreedHdr(b), mem'[b] = FreedMem(b),
         b \notin Live', overrun'[b] = overrun[b]
  PROVE  BlockInv(b)' /\ hdr'[b] \in Headers
<1>1. b \in Blocks /\ hdr[b] \in Headers /\ mem[b] \in [0 .. BinSize(b) - 1 -> Bytes]
  BY LiveInside DEF BlockInv
<1>2. ~HitSlop(b)'
  BY SlopTells DEF Freeable, HitSlop
<1>3. hdr'[b] \in Headers /\ hdr'[b].magic = "free"
  BY <1>1 DEF FreedHdr, Headers
<1>4. mem'[b] \in [0 .. BinSize(b) - 1 -> Bytes]
  BY <1>1 DEF FreedMem, Bytes
<1> QED
  BY <1>2, <1>3, <1>4 DEF BlockInv, BinSize

(* memalignInt never fails an assertion but that of the size, and keeps    *)
(* the invariant, whatever good bytes it leaves in the block.              *)
LEMMA MemalignInv ==
  ASSUME Inv, NEW b \in Blocks, NEW al \in Asked, NEW n \in Width, NEW m, NEW data,
         NEW freeing \in SUBSET Live,
         Inside(b, Header(b, al, n)) => GoodBytes(b, Header(b, al, n), m, data),
         memalignInt(b, al, n, m, data, freeing)
  PROVE  Inv'
<1> DEFINE h == Header(b, al, n)
<1>1. /\ b \notin Live /\ b.bin = BinNum(TRUE, al, n) /\ BinNum(TRUE, al, n) < MaxAllocPower
      /\ SizeAsserted(n) /\ isInit' = TRUE
      /\ overrun \in [Blocks -> SUBSET Nat]
  BY DEF memalignInt, Taken, InReach, Inv
<1>2. /\ h \in Headers /\ h.magic = "inuse" /\ h.usrDataSize = n
      /\ HdrSize + Word <= Offset(b, h)
      /\ Offset(b, h) + n + h.misalignment = BinSize(b)
      /\ al > 1 => h.usrData % al = 0 /\ h.misalignment < al
      /\ b.at + BinSize(b) > n /\ h.usrData > b.at
  <2> HIDE DEF h
  <2> QED
    BY <1>1, HeaderRight DEF h
<1>3. Asserted(b, h)
  <2>1. hdr[b].magic = "free"
    BY <1>1, InvByBlock DEF BlockInv
  <2> HIDE DEF h
  <2>2. h.usrData + h.misalignment > b.at
    BY <1>2, ConstantTypes DEF Headers
  <2> QED
    BY <1>2, <2>1, <2>2 DEF Asserted
<1>4. GoodBytes(b, h, m, data)
  <2>1. HdrSize \in Nat /\ Word \in Nat \ {0} /\ MaxSlop \in Nat \ {0} /\ BinSize(b) \in Nat /\ b.at \in Nat
    BY ConstantTypes
  <2> HIDE DEF h
  <2>2. Offset(b, h) \in Int
    BY <1>2, <2>1 DEF Offset, Headers
  <2>3. Offset(b, h) \in Nat /\ Word <= Offset(b, h)
    BY <1>2, <2>1, <2>2
  <2>4. Inside(b, h)
    BY <1>2, <2>1, <2>3 DEF Inside
  <2> QED
    BY <2>4 DEF h
<1>5. b \notin freeing
  BY <1>1
<1>6. CASE \A x \in freeing : Freeable(x)
  <2>1. /\ hdr' = [x \in Blocks |-> IF x = b THEN h ELSE IF x \in freeing THEN FreedHdr(x) ELSE hdr[x]]
        /\ mem' = [x \in Blocks |-> IF x = b THEN m ELSE IF x \in freeing THEN FreedMem(x) ELSE mem[x]]
        /\ held' = [x \in (Live \ freeing) \cup {b} |->
                      IF x = b THEN [al |-> al, size |-> n, data |-> data] ELSE held[x]]
        /\ overrun' = [overrun EXCEPT ![b] = {}] /\ ended' = ended /\ ended = "no"
    BY <1>3, <1>6 DEF memalignInt
  <2>0. Live' = (Live \ freeing) \cup {b}
    BY <2>1 DEF Live
  <2> HIDE DEF h
  <2>2. BlockInv(b)' /\ hdr'[b] \in Headers
    <3>1. hdr'[b] = h /\ mem'[b] = m /\ held'[b] = [al |-> al, size |-> n, data |-> data]
      BY <2>1
    <3>2. /\ held'[b].al = al /\ held'[b].size = n /\ held'[b].data = data
      BY <3>1
    <3>3. HeldInv(b)'
      BY <1>2, <1>4, <3>1 DEF HeldInv, GoodBytes, Width, Asked
    <3>4. Space(b)'
      BY <1>2, <3>1, <3>2 DEF Space, Offset, BinSize, HdrSize
    <3>5. DataOf(b)'
      BY <1>2, <1>4, <3>1, <3>2 DEF DataOf, GoodBytes, Offset, SelfBytes
    <3>6. OverrunInv(b)'
      <4>1. /\ overrun'[b] = {} /\ h.usrDataSize \in Nat /\ h.misalignment \in Nat
            /\ Offset(b, h) \in Nat
        <5>1. HdrSize + Word \in Nat /\ b.at \in Nat
          BY ConstantTypes
        <5> QED
          BY <1>1, <1>2, <2>1, <5>1 DEF Headers, Offset
      <4>2. ASSUME NEW j \in 0 .. Least(h.misalignment, MaxSlop) - 1
            PROVE  Offset(b, h) + h.usrDataSize + j \in SlopBytes(b, h)
        <5>1. Least(h.misalignment, MaxSlop) \in Nat
          BY <4>1, ConstantTypes DEF Least
        <5> QED
          BY <4>1, <5>1 DEF SlopBytes
      <4>3. \A j \in 0 .. Least(h.misalignment, MaxSlop) - 1 :
              m[Offset(b, h) + h.usrDataSize + j] = "slop"
        BY <1>4, <4>2 DEF GoodBytes
      <4> QED
        BY <3>1, <4>1, <4>3 DEF OverrunInv, Behind, Offset
    <3>7. mem'[b] \in [0 .. BinSize(b) - 1 -> Bytes]
      BY <1>4, <3>1 DEF GoodBytes
    <3> QED
      BY <1>1, <1>2, <1>5, <2>0, <3>1, <3>3, <3>4, <3>5, <3>6, <3>7 DEF BlockInv, BinSize
  <2>3. ASSUME NEW x \in Blocks, x # b PROVE BlockInv(x)' /\ hdr'[x] \in Headers
    <3>1. BlockInv(x) /\ hdr[x] \in Headers /\ overrun'[x] = overrun[x]
      BY <1>1, <2>1, <2>3, InvByBlock
    <3>2. CASE x \in freeing
      BY <1>1, <1>5, <1>6, <2>0, <2>1, <2>3, <3>1, <3>2, FreedBlock
    <3>3. CASE x \notin freeing
      <4>1. /\ hdr'[x] = hdr[x] /\ mem'[x] = mem[x] /\ (x \in Live' <=> x \in Live)
            /\ x \in Live => held'[x] = held[x]
        BY <2>0, <2>1, <2>3, <3>3
      <4> QED
        BY <1>1, <3>1, <4>1, SameBlock
    <3> QED
      BY <3>2, <3>3
  <2>4. Live' \subseteq Blocks /\ hdr' \in [Blocks -> Headers] /\ DOMAIN mem' = Blocks
    BY <2>0, <2>1, <2>2, <2>3, InvByBlock
  <2>5. \A x \in Blocks : BlockInv(x)'
    BY <2>2, <2>3
  <2>6. ended' = "no" /\ isInit' = TRUE /\ overrun' \in [Blocks -> SUBSET Nat]
    BY <1>1, <2>1, InvByBlock
  <2> QED
    BY <2>4, <2>5, <2>6, InvNext
<1>7. CASE ~(\A x \in freeing : Freeable(x))
  <2>1. ended' = "slop" /\ UNCHANGED <<hdr, mem, held, overrun>>
    BY <1>3, <1>7 DEF memalignInt
  <2>2. PICK hit \in Live : HitSlop(hit)'
    BY <1>7, <2>1, LiveInside, SlopTells DEF Freeable, BlockInv, HeldInv, HitSlop
  <2>3. Live' = Live
    BY <2>1 DEF Live
  <2>4. \A x \in Blocks : BlockInv(x)'
    BY <1>1, <2>1, <2>3, InvByBlock, SameBlock
  <2> QED
    BY <1>1, <2>1, <2>2, <2>3, <2>4, InvByBlock, InvNext
<1> QED
  BY <1>6, <1>7

LEMMA FreeInv ==
  ASSUME Inv, NEW b \in Live, Free(b)
  PROVE  Inv'
<1>1. /\ b \in Blocks /\ isInit' = TRUE /\ overrun' = overrun
      /\ overrun \in [Blocks -> SUBSET Nat] /\ Live \subseteq Blocks
      /\ hdr \in [Blocks -> Headers] /\ DOMAIN mem = Blocks /\ ended = "no"
      /\ \A x \in Blocks : BlockInv(x)
  BY InvByBlock DEF Free
<1>2. CASE Freeable(b)
  <2>1. /\ hdr' = [hdr EXCEPT ![b] = FreedHdr(b)] /\ mem' = [mem EXCEPT ![b] = FreedMem(b)]
        /\ held' = [x \in Live \ {b} |-> held[x]] /\ ended' = ended
    BY <1>2 DEF Free
  <2>2. Live' = Live \ {b}
    BY <2>1 DEF Live
  <2>3. hdr'[b] = FreedHdr(b) /\ mem'[b] = FreedMem(b) /\ DOMAIN mem' = Blocks
    BY <1>1, <2>1
  <2>4. BlockInv(b)' /\ hdr'[b] \in Headers
    BY <1>1, <1>2, <2>2, <2>3, FreedBlock
  <2>5. ASSUME NEW x \in Blocks, x # b PROVE BlockInv(x)'
    <3>1. /\ hdr'[x] = hdr[x] /\ mem'[x] = mem[x] /\ (x \in Live' <=> x \in Live)
          /\ x \in Live => held'[x] = held[x]
      BY <1>1, <2>1, <2>2, <2>5
    <3> QED
      BY <1>1, <3>1, SameBlock
  <2>6. hdr' \in [Blocks -> Headers]
    BY <1>1, <2>1, <2>4
  <2> QED
    BY <1>1, <2>1, <2>2, <2>3, <2>4, <2>5, <2>6, InvNext
<1>3. CASE ~Freeable(b)
  <2>1. ended' = "slop" /\ UNCHANGED <<hdr, mem, held>>
    BY <1>3 DEF Free
  <2>2. HitSlop(b)'
    BY <1>1, <1>3, SlopTells DEF Freeable, BlockInv, HeldInv, HitSlop
  <2>3. Live' = Live
    BY <2>1 DEF Live
  <2>4. \A x \in Blocks : BlockInv(x)'
    BY <1>1, <2>1, <2>3, SameBlock
  <2> QED
    BY <1>1, <2>1, <2>2, <2>3, <2>4, InvNext
<1> QED
  BY <1>2, <1>3

(* A byte behind the data is neither data nor the pointer. *)
LEMMA BehindApart ==
  ASSUME NEW b, Inside(b, hdr[b]), NEW k \in Nat
  PROVE  /\ Behind(b) \in Nat /\ Behind(b) + hdr[b].misalignment = BinSize(b)
         /\ hdr[b].misalignment \in Nat
         /\ k < hdr[b].misalignment <=> Behind(b) + k < BinSize(b)
         /\ k < hdr[b].misalignment => Behind(b) + k \in 0 .. BinSize(b) - 1
         /\ Behind(b) + k \notin DataBytes(b, hdr[b])
         /\ Behind(b) + k \notin SelfBytes(b, hdr[b])
<1>1. /\ hdr[b].usrDataSize \in Nat /\ hdr[b].misalignment \in Nat /\ Word \in Nat
      /\ Offset(b, hdr[b]) \in Nat /\ Behind(b) = Offset(b, hdr[b]) + hdr[b].usrDataSize
      /\ BinSize(b) \in Nat
  BY DEF Inside, Headers, Behind
<1>2. Behind(b) + hdr[b].misalignment = BinSize(b)
  BY <1>1 DEF Inside
<1> QED
  BY <1>1, <1>2 DEF DataBytes, SelfBytes

(* Writing its data touches neither the slop nor the pointer. *)
LEMMA StoreInv ==
  ASSUME Inv, NEW b \in Live, Store(b)
  PROVE  Inv'
<1> DEFINE stored == Written(mem[b], DataBytes(b, hdr[b]), "x")
           kept == [i \in DOMAIN held[b].data |-> "x"]
<1>1. /\ b \in Blocks /\ isInit' = TRUE /\ overrun' = overrun /\ hdr' = hdr /\ ended' = "no"
      /\ overrun \in [Blocks -> SUBSET Nat] /\ Live \subseteq Blocks
      /\ hdr \in [Blocks -> Headers] /\ DOMAIN mem = Blocks
      /\ \A x \in Blocks : BlockInv(x)
  BY InvByBlock DEF Store
<1>2. /\ mem' = [mem EXCEPT ![b] = stored]
      /\ held' = [held EXCEPT ![b].data = kept]
  BY DEF Store
<1>3. Live' = Live
  BY <1>2 DEF Live
<1>4. Inside(b, hdr[b]) /\ hdr[b].usrDataSize = held[b].size /\ BlockInv(b)
  BY LiveInside
<1>5. PICK al \in Asked, n \in Width :
        \E d : held[b] = [al |-> al, size |-> n, data |-> d] /\ DOMAIN d = 0 .. n - 1
  BY <1>4 DEF BlockInv, HeldInv
<1>6. /\ kept = [i \in 0 .. n - 1 |-> "x"] /\ held'[b] = [al |-> al, size |-> n, data |-> kept]
      /\ mem'[b] = stored
  <2>1. PICK d : held[b] = [al |-> al, size |-> n, data |-> d] /\ DOMAIN d = 0 .. n - 1
    BY <1>5
  <2>2. held'[b] = [held[b] EXCEPT !.data = kept]
    BY <1>2 DEF Live
  <2>3. mem'[b] = stored
    BY <1>1, <1>2
  <2>4. kept = [i \in 0 .. n - 1 |-> "x"]
    BY <1>5, <2>1
  <2> HIDE DEF stored, kept
  <2>5. held'[b] = [al |-> al, size |-> n, data |-> kept]
    BY <1>5, <2>2
  <2> QED
    BY <2>3, <2>4, <2>5
<1>7. /\ stored \in [0 .. BinSize(b) - 1 -> Bytes]
      /\ \A o \in 0 .. BinSize(b) - 1 : stored[o] = IF o \in DataBytes(b, hdr[b]) THEN "x" ELSE mem[b][o]
  <2>1. mem[b] \in [0 .. BinSize(b) - 1 -> Bytes] /\ BinSize(b) \in Nat /\ "x" \in Bytes
    BY <1>4 DEF BlockInv, Inside, Bytes
  <2> QED
    BY <2>1, WrittenBytes
<1> HIDE DEF stored, kept
<1>8. /\ Offset(b, hdr[b])' = Offset(b, hdr[b]) /\ SlopBytes(b, hdr[b])' = SlopBytes(b, hdr[b])
      /\ SelfBytes(b, hdr[b])' = SelfBytes(b, hdr[b]) /\ BinSize(b)' = BinSize(b)
  BY <1>1 DEF Offset, SlopBytes, SelfBytes, BinSize
<1>9. HeldInv(b)' /\ Space(b)'
  <2>1. HeldInv(b) /\ Space(b) /\ held'[b].al = held[b].al /\ held'[b].size = held[b].size
    BY <1>4, <1>5, <1>6 DEF BlockInv
  <2>2. HeldInv(b)'
    BY <1>1, <1>6, <2>1 DEF HeldInv, Width, Asked
  <2>3. Space(b)'
    BY <1>1, <1>8, <2>1 DEF Space, HdrSize
  <2> QED
    BY <2>2, <2>3
<1>10. DataOf(b)'
  <2>1. DataOf(b) /\ held'[b].size = n /\ held'[b].data = kept /\ hdr[b].usrDataSize = n
    BY <1>4, <1>5, <1>6 DEF BlockInv
  <2>2. \A i \in 0 .. n - 1 : mem'[b][Offset(b, hdr[b]) + i] = "x"
    BY <1>4, <1>6, <1>7, <2>1, PartsApart
  <2>3. \A o \in SelfBytes(b, hdr[b]) : mem'[b][o] = "self"
    BY <1>4, <1>6, <1>7, <2>1, PartsApart DEF DataOf
  <2> QED
    BY <1>1, <1>6, <1>8, <2>1, <2>2, <2>3 DEF DataOf
<1>11. \A o \in 0 .. BinSize(b) - 1 : o \notin DataBytes(b, hdr[b]) => mem'[b][o] = mem[b][o]
  BY <1>6, <1>7
<1>12. ASSUME NEW k \in Nat, k < hdr[b].misalignment
       PROVE  mem'[b][Behind(b) + k] = mem[b][Behind(b) + k]
  BY <1>4, <1>11, <1>12, BehindApart
<1>13. OverrunInv(b)'
  <2>1. OverrunInv(b) /\ overrun[b] \subseteq Nat /\ Behind(b)' = Behind(b)
    BY <1>1, <1>4, <1>8 DEF BlockInv, Behind
  <2>2. \A k \in overrun[b] : k < hdr[b].misalignment /\ mem'[b][Behind(b) + k] = "x"
    BY <1>12, <2>1 DEF OverrunInv
  <2>3. ASSUME NEW j \in 0 .. Least(hdr[b].misalignment, MaxSlop) - 1
        PROVE  j \in overrun[b] \/ mem'[b][Behind(b) + j] = "slop"
    <3>1. j \in Nat /\ j < hdr[b].misalignment
      BY <1>4 DEF Inside, Headers, Least
    <3> QED
      BY <1>12, <2>1, <3>1 DEF OverrunInv
  <2> QED
    BY <1>1, <2>1, <2>2, <2>3 DEF OverrunInv
<1>14. BlockInv(b)'
  <2>1. mem'[b] \in [0 .. BinSize(b)' - 1 -> Bytes]
    BY <1>6, <1>7, <1>8
  <2> QED
    BY <1>1, <1>3, <1>4, <1>9, <1>10, <1>13, <2>1 DEF BlockInv
<1>15. ASSUME NEW x \in Blocks, x # b PROVE BlockInv(x)'
  <2>1. mem'[x] = mem[x] /\ (x \in Live => held'[x] = held[x])
    BY <1>1, <1>2, <1>15 DEF Live
  <2> QED
    BY <1>1, <1>3, <2>1, SameBlock
<1>16. DOMAIN mem' = Blocks
  BY <1>1, <1>2
<1> QED
  BY <1>1, <1>3, <1>14, <1>15, <1>16, InvByBlock, InvNext

(* What is written behind the data is neither data nor the pointer; at the *)
(* guard page the process ends.                                            *)
LEMMA OverrunStepInv ==
  ASSUME Inv, NEW b \in Live, NEW k \in 0 .. MaxOverrun - 1, Overrun(b, k)
  PROVE  Inv'
<1> DEFINE at == Behind(b) + k
           after == Written(mem[b], {at}, "x")
<1>1. /\ b \in Blocks /\ isInit' = TRUE /\ hdr' = hdr /\ held' = held /\ ended = "no"
      /\ overrun \in [Blocks -> SUBSET Nat] /\ Live \subseteq Blocks /\ Live' = Live
      /\ hdr \in [Blocks -> Headers] /\ DOMAIN mem = Blocks
      /\ \A x \in Blocks : BlockInv(x)
  BY InvByBlock DEF Overrun, Live
<1>2. Inside(b, hdr[b]) /\ BlockInv(b) /\ k \in Nat
  <2>1. k \in Nat
    BY LayoutAssumption
  <2> QED
    BY <2>1, LiveInside
<1>3. CASE at < BinSize(b)
  <2>1. /\ mem' = [mem EXCEPT ![b] = after] /\ overrun' = [overrun EXCEPT ![b] = @ \cup {k}]
        /\ ended' = ended
    BY <1>3 DEF Overrun, Behind
  <2>2. /\ mem'[b] = after /\ DOMAIN mem' = Blocks /\ overrun'[b] = overrun[b] \cup {k}
        /\ overrun' \in [Blocks -> SUBSET Nat]
        /\ \A x \in Blocks : x # b => mem'[x] = mem[x] /\ overrun'[x] = overrun[x]
    BY <1>1, <1>2, <2>1
  <2>3. /\ after \in [0 .. BinSize(b) - 1 -> Bytes]
        /\ \A o \in 0 .. BinSize(b) - 1 : after[o] = IF o = at THEN "x" ELSE mem[b][o]
    <3>1. mem[b] \in [0 .. BinSize(b) - 1 -> Bytes] /\ BinSize(b) \in Nat /\ "x" \in Bytes
      BY <1>2 DEF BlockInv, Inside, Bytes
    <3> HIDE DEF at
    <3> QED
      BY <3>1, WrittenBytes
  <2>4. /\ k < hdr[b].misalignment /\ at \in 0 .. BinSize(b) - 1
        /\ at \notin DataBytes(b, hdr[b]) /\ at \notin SelfBytes(b, hdr[b])
    BY <1>2, <1>3, BehindApart
  <2> HIDE DEF after
  <2>5. /\ Offset(b, hdr[b])' = Offset(b, hdr[b]) /\ SelfBytes(b, hdr[b])' = SelfBytes(b, hdr[b])
        /\ BinSize(b)' = BinSize(b) /\ Behind(b)' = Behind(b)
    BY <1>1 DEF Offset, SelfBytes, BinSize, Behind
  <2>6. HeldInv(b)' /\ Space(b)'
    <3>1. HeldInv(b) /\ Space(b)
      BY <1>2 DEF BlockInv
    <3>2. HeldInv(b)'
      BY <1>1, <3>1 DEF HeldInv, Width, Asked
    <3>3. Space(b)'
      BY <1>1, <2>5, <3>1 DEF Space, HdrSize
    <3> QED
      BY <3>2, <3>3
  <2>7. DataOf(b)'
    <3>1. DataOf(b) /\ hdr[b].usrDataSize = held[b].size
      BY <1>2, LiveInside DEF BlockInv
    <3> HIDE DEF at
    <3>2. \A i \in 0 .. held[b].size - 1 : mem'[b][Offset(b, hdr[b]) + i] = mem[b][Offset(b, hdr[b]) + i]
      BY <1>2, <2>2, <2>3, <2>4, <3>1, PartsApart
    <3>3. \A o \in SelfBytes(b, hdr[b]) : mem'[b][o] = mem[b][o]
      BY <1>2, <2>2, <2>3, <2>4, PartsApart
    <3> QED
      BY <1>1, <2>5, <3>1, <3>2, <3>3 DEF DataOf
  <2>8. OverrunInv(b)'
    <3>1. OverrunInv(b) /\ overrun[b] \subseteq Nat
      BY <1>1, <1>2 DEF BlockInv
    <3>2. ASSUME NEW i \in Nat, i < hdr[b].misalignment
          PROVE  mem'[b][Behind(b) + i] = IF i = k THEN "x" ELSE mem[b][Behind(b) + i]
      <4>1. Behind(b) \in Nat /\ Behind(b) + i \in 0 .. BinSize(b) - 1
        BY <1>2, <3>2, BehindApart
      <4>2. Behind(b) + i = at <=> i = k
        BY <1>2, <4>1
      <4> HIDE DEF at
      <4> QED
        BY <2>2, <2>3, <4>1, <4>2
    <3>3. \A i \in overrun'[b] : i < hdr[b].misalignment /\ mem'[b][Behind(b) + i] = "x"
      BY <1>2, <2>2, <2>4, <3>1, <3>2 DEF OverrunInv
    <3>4. ASSUME NEW j \in 0 .. Least(hdr[b].misalignment, MaxSlop) - 1
          PROVE  j \in overrun'[b] \/ mem'[b][Behind(b) + j] = "slop"
      <4>1. j \in Nat /\ j < hdr[b].misalignment
        BY <1>2 DEF Inside, Headers, Least
      <4> QED
        BY <2>2, <3>1, <3>2, <4>1 DEF OverrunInv
    <3> QED
      BY <1>1, <2>5, <3>3, <3>4 DEF OverrunInv
  <2>9. BlockInv(b)'
    <3>1. mem'[b] \in [0 .. BinSize(b)' - 1 -> Bytes]
      BY <2>2, <2>3, <2>5
    <3> QED
      BY <1>1, <2>6, <2>7, <2>8, <3>1 DEF BlockInv
  <2>10. ASSUME NEW x \in Blocks, x # b PROVE BlockInv(x)'
    BY <1>1, <2>2, <2>10, SameBlock
  <2> QED
    BY <1>1, <2>1, <2>2, <2>9, <2>10, InvNext
<1>4. CASE ~(at < BinSize(b))
  <2>1. ended' = "fault" /\ mem' = mem /\ overrun' = overrun
    BY <1>4 DEF Overrun, Behind
  <2>2. \A x \in Blocks : BlockInv(x)'
    BY <1>1, <2>1, SameBlock
  <2> QED
    BY <1>1, <2>1, <2>2, InvNext
<1> QED
  BY <1>3, <1>4

(* Nothing of a block changes when the process ends at the size, or is     *)
(* gone.                                                                   *)
LEMMA SameInv ==
  ASSUME Inv, UNCHANGED <<hdr, mem, held, overrun>>, isInit' = TRUE, ended' \in {"size", ended}
  PROVE  Inv'
<1>1. Live' = Live /\ (\A x \in Blocks : BlockInv(x)' /\ (HitSlop(x)' = HitSlop(x)))
  BY InvByBlock, SameBlock DEF Live, HitSlop
<1> QED
  BY <1>1, InvByBlock, InvNext

LEMMA InitInv == ASSUME EarlyCalls = FALSE PROVE Init => Inv
<1> SUFFICES ASSUME Init PROVE Inv
  OBVIOUS
<1>1. Live = {}
  BY DEF Init, Live
<1>2. \A b \in Blocks : mem[b] \in [0 .. BinSize(b) - 1 -> Bytes]
  BY DEF Init, Bytes
<1>3. hdr \in [Blocks -> Headers] /\ \A b \in Blocks : hdr[b].magic = "free"
  BY DEF Init, Headers
<1>4. overrun \in [Blocks -> SUBSET Nat] /\ \A b \in Blocks : ~HitSlop(b)
  BY DEF Init, HitSlop
<1> QED
  BY <1>1, <1>2, <1>3, <1>4 DEF Init, Inv

LEMMA MemalignCall ==
  ASSUME Inv, NEW al \in Asked, NEW n \in Width, Memalign(al, n)
  PROVE  Inv'
<1> DEFINE h(b) == Header(b, al, n)
           data == [i \in 0 .. n - 1 |-> "poison"]
<1>1. PICK b \in Blocks : memalignInt(b, al, n, LaidOut(b, h(b)), data, {})
  BY DEF Memalign
<1>2. mem[b] \in [0 .. BinSize(b) - 1 -> Bytes] /\ h(b).usrDataSize = n
  BY InvByBlock DEF BlockInv, Header
<1>3. Inside(b, h(b)) => GoodBytes(b, h(b), LaidOut(b, h(b)), data)
  BY <1>2, GoodPoison
<1> QED
  BY <1>1, <1>3, MemalignInv

LEMMA CallocCall ==
  ASSUME Inv, NEW total \in Width, NEW b \in Blocks,
         memalignInt(b, Word, total,
                     Written(LaidOut(b, Header(b, Word, total)),
                             DataBytes(b, Header(b, Word, total)), "zero"),
                     [i \in 0 .. total - 1 |-> "zero"], {})
  PROVE  Inv'
<1> DEFINE h == Header(b, Word, total)
           m == Written(LaidOut(b, h), DataBytes(b, h), "zero")
           data == [i \in 0 .. total - 1 |-> "zero"]
<1>1. mem[b] \in [0 .. BinSize(b) - 1 -> Bytes] /\ h.usrDataSize = total /\ Word \in Asked
  BY InvByBlock DEF BlockInv, Header, Asked
<1>2. Inside(b, h) => GoodBytes(b, h, m, data)
  BY <1>1, GoodZero
<1> QED
  BY <1>1, <1>2, MemalignInv

LEMMA ReallocCall ==
  ASSUME Inv, NEW from \in Live, NEW n \in Width, Realloc(from, n)
  PROVE  Inv'
<1> DEFINE h(b) == Header(b, Word, n)
           data == [i \in 0 .. n - 1 |-> IF i < held[from].size THEN held[from].data[i] ELSE "poison"]
<1>1. PICK b \in Blocks : memalignInt(b, Word, n, Copied(b, h(b), from), data, {from})
  BY DEF Realloc
<1>2. /\ mem[b] \in [0 .. BinSize(b) - 1 -> Bytes] /\ h(b).usrDataSize = n /\ Word \in Asked
  BY InvByBlock DEF BlockInv, Header, Asked
<1>3. /\ from \in Blocks /\ Inside(from, hdr[from]) /\ mem[from] \in [0 .. BinSize(from) - 1 -> Bytes]
      /\ hdr[from].usrDataSize = held[from].size /\ DataOf(from)
  BY LiveInside DEF BlockInv
<1>4. Inside(b, h(b)) => GoodBytes(b, h(b), Copied(b, h(b), from), data)
  BY <1>2, <1>3, GoodCopy
<1> QED
  BY <1>1, <1>2, <1>4, MemalignInv

LEMMA NextInv == ASSUME Inv, [Next]_vars PROVE Inv'
<1>1. /\ Sizes \subseteq Width /\ Counts \subseteq Width /\ Alignments \subseteq Asked
      /\ Word \in Asked /\ 2 * Word \in Asked
  BY LayoutAssumption DEF Width, Asked
<1>2. ASSUME NEW n \in Sizes, Malloc(n) PROVE Inv'
  <2>1. MallocAlignment(n) \in Asked
    BY <1>1 DEF MallocAlignment
  <2> QED
    BY <1>1, <1>2, <2>1, MemalignCall DEF Malloc
<1>3. ASSUME NEW n \in Sizes, NEW al \in Alignments, Memalign(al, n) PROVE Inv'
  BY <1>1, <1>3, MemalignCall
<1>4. ASSUME NEW n \in Sizes, NEW al \in Alignments, PosixMemalign(al, n) PROVE Inv'
  BY <1>1, <1>4, MemalignCall DEF PosixMemalign
<1>5. ASSUME NEW n \in Sizes, NEW al \in Alignments, SizeAborts(al, n) PROVE Inv'
  BY <1>5, SameInv DEF SizeAborts
<1>6. ASSUME NEW n \in Sizes, NEW count \in Counts, Calloc(count, n) PROVE Inv'
  <2>1. CallocSize(count, n) \in Width
    <3>1. 2^WordBits \in Nat \ {0} /\ count \in Int /\ n \in Int
      <4>1. WordBits \in 0 .. WordBits
        BY ConstantTypes
      <4>2. 2^WordBits \in Nat \ {0}
        BY <4>1, Powers
      <4> QED
        BY <1>1, <4>2, ConstantTypes
    <3>2. count * n \in Int
      BY <3>1, Z3
    <3> QED
      BY <3>1, <3>2, ModRange DEF CallocSize, Width
  <2>2. PICK b \in Blocks :
          memalignInt(b, Word, CallocSize(count, n),
                      Written(LaidOut(b, Header(b, Word, CallocSize(count, n))),
                              DataBytes(b, Header(b, Word, CallocSize(count, n))), "zero"),
                      [i \in 0 .. CallocSize(count, n) - 1 |-> "zero"], {})
    BY <1>6 DEF Calloc
  <2> QED
    BY <2>1, <2>2, CallocCall
<1>7. ASSUME NEW n \in Sizes, NEW count \in Counts, SizeAborts(Word, CallocSize(count, n))
      PROVE  Inv'
  BY <1>7, SameInv DEF SizeAborts
<1>8. ASSUME NEW n \in Sizes, NEW b \in Live, Realloc(b, n) PROVE Inv'
  BY <1>1, <1>8, ReallocCall
<1>9. ASSUME NEW b \in Live, Free(b) PROVE Inv'
  BY <1>9, FreeInv
<1>10. ASSUME NEW b \in Live, Store(b) PROVE Inv'
  BY <1>10, StoreInv
<1>11. ASSUME NEW b \in Live, NEW k \in 0 .. MaxOverrun - 1, Overrun(b, k) PROVE Inv'
  BY <1>11, OverrunStepInv
<1>12. CASE Gone \/ UNCHANGED vars
  BY <1>12, SameInv DEF Gone, vars, Inv
<1> QED
  BY <1>2, <1>3, <1>4, <1>5, <1>6, <1>7, <1>8, <1>9, <1>10, <1>11, <1>12 DEF Next

LEMMA Invariant == ASSUME EarlyCalls = FALSE PROVE Spec => []Inv
<1>1. Init => Inv
  BY InitInv
<1>2. Inv /\ [Next]_vars => Inv'
  BY NextInv
<1> QED
  BY <1>1, <1>2, PTL DEF Spec

(***************************************************************************)
(* The theorems.                                                           *)
(***************************************************************************)
(* Every variable keeps its type, a block's magic says whether the program *)
(* has it, and the user's pointer lies in the block.                       *)
THEOREM TypeCorrect == ASSUME EarlyCalls = FALSE PROVE Spec => []TypeOK
<1>1. Inv => TypeOK
  <2> SUFFICES ASSUME Inv PROVE TypeOK
    OBVIOUS
  <2>1. ASSUME NEW b \in Blocks
        PROVE  /\ hdr[b].magic = IF b \in Live THEN "inuse" ELSE "free"
               /\ {hdr[b].usrDataSize, hdr[b].misalignment} \subseteq Nat
               /\ mem[b] \in [0 .. BinSize(b) - 1 -> Bytes]
               /\ b \in Live => held[b].al \in Nat /\ held[b].size \in Nat
    <3>1. BlockInv(b) /\ hdr[b] \in Headers
      BY InvByBlock
    <3>2. b \in Live => hdr[b].magic = "inuse" /\ held[b].al \in Nat /\ held[b].size \in Nat
      <4>1. SUFFICES ASSUME b \in Live
                     PROVE  hdr[b].magic = "inuse" /\ held[b].al \in Nat /\ held[b].size \in Nat
        OBVIOUS
      <4>2. HeldInv(b)
        BY <3>1, <4>1 DEF BlockInv
      <4> QED
        BY <4>2, ConstantTypes DEF HeldInv
    <3>3. {hdr[b].usrDataSize, hdr[b].misalignment} \subseteq Nat
      BY <3>1 DEF Headers
    <3>4. mem[b] \in [0 .. BinSize(b) - 1 -> Bytes] /\ (b \notin Live => hdr[b].magic = "free")
      BY <3>1 DEF BlockInv
    <3> QED
      BY <3>2, <3>3, <3>4
  <2>2. ASSUME NEW b \in Live PROVE hdr[b].usrData \in b.at .. b.at + BinSize(b)
    BY LiveInside, ConstantTypes DEF Inside, Headers, Offset
  <2> QED
    BY <2>1, <2>2, InvByBlock DEF TypeOK
<1> QED
  BY <1>1, Invariant, PTL

(* memalignInt and getBuf: whatever the size and the depths of the traces, *)
(* for every alignment that AlignmentAssumption keeps away from the end of *)
(* the address space, the parts of a block never overlap, the data are     *)
(* aligned and end as close to the guard page as the alignment lets them.  *)
THEOREM NoOverlap == ASSUME EarlyCalls = FALSE PROVE Spec => []RegionsApart
<1>1. Inv => RegionsApart
  BY InvByBlock DEF BlockInv, Space, RegionsApart
<1> QED
  BY <1>1, Invariant, PTL

(* calloc, realloc and free: a block's data are what the program wrote or  *)
(* what realloc brought along, and the pointer in front of them stays.     *)
THEOREM DataSafe == ASSUME EarlyCalls = FALSE PROVE Spec => []DataKept
<1>1. Inv => DataKept
  BY InvByBlock DEF BlockInv, DataOf, DataKept
<1> QED
  BY <1>1, Invariant, PTL

(* free's check of the slop: a block that was written in the MAX_SLOP      *)
(* bytes behind its data, next to the data or not, gets past neither free  *)
(* nor realloc, whatever the program does before and after.  Of a write    *)
(* that lands further away, in front of the guard page, this says nothing, *)
(* and the code does not notice one.                                       *)
THEOREM OverrunsCaught == ASSUME EarlyCalls = FALSE PROVE Spec => []OverrunCaught
<1>1. Inv => OverrunCaught
  BY InvByBlock DEF BlockInv, OverrunCaught
<1> QED
  BY <1>1, Invariant, PTL

(* memalignInt's and free's assertions: of a block that was not written in *)
(* those bytes the slop is whole, so that free accepts it; a process that  *)
(* ends at that check holds a block that was; no other assertion but the   *)
(* one on the size ever fails.                                             *)
THEOREM NoFalseAlarms == ASSUME EarlyCalls = FALSE PROVE Spec => []NoFalseAlarm
<1>1. Inv => NoFalseAlarm
  BY SlopTells, InvByBlock DEF NoFalseAlarm
<1> QED
  BY <1>1, Invariant, PTL
===============================================================================
