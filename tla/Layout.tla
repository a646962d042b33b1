-------------------------------- MODULE Layout --------------------------------
(***************************************************************************)
(* GuardRails.c: what is where inside a block (memalignInt, getBuf's sizes,*)
(* malloc, calloc, realloc, posix_memalign, free), byte by byte.           *)
(*                                                                         *)
(* A block is its header, with the two traces of -t and -T; unused bytes;  *)
(* a word that points back to the header; the user's data; and, when the   *)
(* alignment keeps the data from the end of the block, slop.  A guard page *)
(* follows (Pool).  Which of a bin's blocks is taken, locks and counters   *)
(* are those of SlotHeap; a call that finds no block changes nothing here. *)
(* A program may write behind its data; it may not write in front of it.   *)
(***************************************************************************)
EXTENDS Integers

CONSTANTS
  PageSize,
  FixedHdr,        \* sizeof(ElmHdr)
  Word,            \* sizeof(void *)
  TrackFrames,     \* -t
  TrackFreeFrames, \* -T
  MaxSlop,
  WordBits,        \* of size_t
  MaxAllocPower,
  EarlyCalls,      \* whether a call comes before the constructor
  Blocks,          \* records: the address "at" and the bin
  Sizes, Alignments, Counts, \* bounds of the model: what the program asks for
  MaxOverrun         \* a bound of the model: how far behind the data the
                     \* program writes

HdrSizeOf(init) == FixedHdr + (IF init THEN Word * (TrackFrames + TrackFreeFrames) ELSE 0)
HdrSize == HdrSizeOf(TRUE)

ASSUME LayoutAssumption ==
  /\ {PageSize, FixedHdr, Word, MaxSlop, WordBits, MaxAllocPower} \subseteq Nat \ {0}
  /\ {TrackFrames, TrackFreeFrames, MaxOverrun} \subseteq Nat
  /\ MaxAllocPower <= WordBits /\ PageSize < 2^WordBits /\ EarlyCalls \in BOOLEAN
  /\ \A b \in Blocks : b.at \in Nat /\ b.bin \in 0 .. MaxAllocPower - 1
  /\ Sizes \cup Counts \subseteq 0 .. 2^WordBits - 1
  /\ Alignments \cup {Word, 2 * Word} \subseteq Nat

(* No alignment is near the size of the address space. *)
ASSUME AlignmentAssumption ==
  \A al \in Alignments \cup {Word, 2 * Word} :
    HdrSize + Word + al + 2^(MaxAllocPower - 1) < 2^WordBits

(* The recursion of powers of two, which is how ^ is defined; the provers  *)
(* know no more of it than 2^0.                                            *)
ASSUME PowersAssumption == \A n \in 0 .. WordBits - 1 : 2^(n + 1) = 2 * 2^n

VARIABLES
  isInit,
  hdr,     \* of each block: magic, usrData, usrDataSize, misalignment
  mem,     \* the bytes of each block: what wrote them last
  held,    \* of each block that the program has: the alignment and the size
           \* asked for and the data that should be there
  overrun, \* of each block, the bytes behind its data, counted from 0,
           \* that the program wrote since it got the block
  ended    \* how the process ended: at an assertion, or at the guard page

vars == <<isInit, hdr, mem, held, overrun, ended>>

BinSize(b) == 2^b.bin
Live == DOMAIN held
Least(x, y) == IF x < y THEN x ELSE y
Most(x, y) == IF x > y THEN x ELSE y

(***************************************************************************)
(* Sizes.                                                                  *)
(***************************************************************************)
IsPow2(v) == \E k \in 0 .. WordBits - 1 : v = 2^k

(* __builtin_clzll *)
Clz(v) == CHOOSE z \in 0 .. WordBits - 1 :
            2^(WordBits - 1 - z) <= v /\ v < 2^(WordBits - z)

log2fast(v) ==
  IF v = 0 THEN 0
  ELSE IF IsPow2(v) THEN WordBits - Clz(v) - 1 ELSE WordBits - Clz(v)

AllocSizeUnaligned(init, al, n) ==                                \* a mutant
  (HdrSizeOf(init) + Word + n) % 2^WordBits
AllocSize(init, al, n) ==
  (HdrSizeOf(init) + Word + n + (IF al > 1 THEN al ELSE 0)) % 2^WordBits

BinNum(init, al, n) == log2fast(Most(PageSize, AllocSize(init, al, n)))

(* A bound of the model: memBins is not indexed beyond its last entry. *)
InReach(al, n) == BinNum(isInit, al, n) < MaxAllocPower
SizeAsserted(n) == log2fast(n) < MaxAllocPower

(***************************************************************************)
(* memalignInt in a block b.                                               *)
(***************************************************************************)
Misalignment(b, al, n) ==
  IF al > 1 THEN (b.at + BinSize(b) - n) % al ELSE 0

Header(b, al, n) ==
  [magic |-> "inuse",
   usrData |-> b.at + BinSize(b) - n - Misalignment(b, al, n),
   usrDataSize |-> n,
   misalignment |-> Misalignment(b, al, n)]

Offset(b, h) == h.usrData - b.at
SlopBytes(b, h) == LET from == Offset(b, h) + h.usrDataSize
                   IN  from .. from + Least(h.misalignment, MaxSlop) - 1
SelfBytes(b, h) == Offset(b, h) - Word .. Offset(b, h) - 1
DataBytes(b, h) == Offset(b, h) .. Offset(b, h) + h.usrDataSize - 1
Written(m, offsets, v) == [o \in DOMAIN m |-> IF o \in offsets THEN v ELSE m[o]]

(* In the order of the code: the trace, the slop, the pointer, the poison. *)
LaidOutToEnd(b, h) ==                                             \* a mutant
  LET traced == Written(mem[b], FixedHdr .. FixedHdr + Word * TrackFrames - 1, "trace")
      slop == Written(traced, SlopBytes(b, h), "slop")
      self == Written(slop, SelfBytes(b, h), "self")
  IN  Written(self, Offset(b, h) .. BinSize(b) - 1, "poison")
LaidOut(b, h) ==
  LET traced == Written(mem[b], FixedHdr .. FixedHdr + Word * TrackFrames - 1, "trace")
      slop == Written(traced, SlopBytes(b, h), "slop")
      self == Written(slop, SelfBytes(b, h), "self")
  IN  Written(self, DataBytes(b, h), "poison")

(* The block that the call gets, unless the size ends the process. *)
Taken(al, n) == {b \in Blocks \ Live : b.bin = BinNum(isInit, al, n)}
SizeAborts(al, n) ==
  /\ ended = "no" /\ InReach(al, n) /\ Taken(al, n) # {}
  /\ ~SizeAsserted(n)
  /\ ended' = "size" /\ isInit' = TRUE
  /\ UNCHANGED <<hdr, mem, held, overrun>>

Asserted(b, h) == /\ hdr[b].magic = "free"
                  /\ b.at + BinSize(b) > h.usrDataSize
                  /\ h.usrData + h.misalignment > b.at \* before it is aligned

(* free compares the slop; what is in a free block is nobody's. *)
SlopIntactShort(b) ==                                             \* a mutant
  \A o \in SlopBytes(b, hdr[b]) : o + 1 \in SlopBytes(b, hdr[b]) => mem[b][o] = "slop"
SlopIntact(b) ==
  hdr[b].misalignment > 0 => \A o \in SlopBytes(b, hdr[b]) : mem[b][o] = "slop"
Freeable(b) == hdr[b].magic = "inuse" /\ SlopIntact(b)
FreedHdrInUse(b) == hdr[b]                                        \* a mutant
FreedHdr(b) == [hdr[b] EXCEPT !.magic = "free"]
FreedMem(b) == [o \in DOMAIN mem[b] |-> "stale"]

(* The program gets b, with the bytes m; realloc frees another block. *)
memalignInt(b, al, n, m, data, freeing) ==
  LET h == Header(b, al, n)
  IN  /\ ended = "no" /\ InReach(al, n) /\ SizeAsserted(n)
      /\ b \in Taken(al, n)
      /\ isInit' = TRUE
      /\ IF Asserted(b, h) /\ \A x \in freeing : Freeable(x)
         THEN /\ hdr' = [x \in Blocks |-> IF x = b THEN h
                                          ELSE IF x \in freeing THEN FreedHdr(x) ELSE hdr[x]]
              /\ mem' = [x \in Blocks |-> IF x = b THEN m
                                          ELSE IF x \in freeing THEN FreedMem(x) ELSE mem[x]]
              /\ held' = [x \in (Live \ freeing) \cup {b} |->
                            IF x = b THEN [al |-> al, size |-> n, data |-> data] ELSE held[x]]
              /\ overrun' = [overrun EXCEPT ![b] = {}]
              /\ UNCHANGED ended
         ELSE /\ ended' = IF Asserted(b, h) THEN "slop" ELSE "assert"
              /\ UNCHANGED <<hdr, mem, held, overrun>>

(***************************************************************************)
(* The calls.  realloc of a null pointer is Memalign(Word, n).             *)
(***************************************************************************)
Memalign(al, n) ==
  \E b \in Blocks : memalignInt(b, al, n, LaidOut(b, Header(b, al, n)),
                                [i \in 0 .. n - 1 |-> "poison"], {})

MallocAlignment(n) == IF n > Word THEN 2 * Word ELSE Word
Malloc(n) == Memalign(MallocAlignment(n), n)

PosixMemalign(al, n) ==
  /\ IsPow2(al) /\ al % Word = 0
  /\ Memalign(al, n)

(* The product may wrap. *)
CallocSize(count, n) == (count * n) % 2^WordBits
Calloc(count, n) ==
  LET total == CallocSize(count, n)
  IN  \E b \in Blocks :
        LET h == Header(b, Word, total)
        IN  memalignInt(b, Word, total, Written(LaidOut(b, h), DataBytes(b, h), "zero"),
                        [i \in 0 .. total - 1 |-> "zero"], {})

(* memcpy of the smaller size. *)
CopiedNew(b, h, from) ==                                          \* a mutant
  [o \in DOMAIN mem[b] |->
     LET i == o - Offset(b, h) + Offset(from, hdr[from])
     IN  IF o \in DataBytes(b, h) /\ i \in DOMAIN mem[from] THEN mem[from][i]
         ELSE LaidOut(b, h)[o]]
Copied(b, h, from) ==
  [o \in DOMAIN mem[b] |->
     IF o \in Offset(b, h) .. Offset(b, h) + Least(h.usrDataSize, hdr[from].usrDataSize) - 1
     THEN mem[from][o - Offset(b, h) + Offset(from, hdr[from])]
     ELSE LaidOut(b, h)[o]]

Realloc(from, n) ==
  \E b \in Blocks :
    memalignInt(b, Word, n, Copied(b, Header(b, Word, n), from),
                [i \in 0 .. n - 1 |->
                   IF i < held[from].size THEN held[from].data[i] ELSE "poison"],
                {from})

Free(b) ==
  /\ ended = "no"
  /\ IF Freeable(b)
     THEN /\ hdr' = [hdr EXCEPT ![b] = FreedHdr(b)]
          /\ mem' = [mem EXCEPT ![b] = FreedMem(b)]
          /\ held' = [x \in Live \ {b} |-> held[x]]
          /\ UNCHANGED ended
     ELSE ended' = "slop" /\ UNCHANGED <<hdr, mem, held>>
  /\ UNCHANGED <<isInit, overrun>>

(***************************************************************************)
(* The program writes its data, or a byte behind it, k bytes away.         *)
(***************************************************************************)
Store(b) ==
  /\ ended = "no"
  /\ mem' = [mem EXCEPT ![b] = Written(@, DataBytes(b, hdr[b]), "x")]
  /\ held' = [held EXCEPT ![b].data = [i \in DOMAIN @ |-> "x"]]
  /\ UNCHANGED <<isInit, hdr, overrun, ended>>

Overrun(b, k) ==
  LET at == Offset(b, hdr[b]) + hdr[b].usrDataSize + k
  IN  /\ ended = "no"
      /\ IF at < BinSize(b)
         THEN /\ mem' = [mem EXCEPT ![b] = Written(@, {at}, "x")]
              /\ overrun' = [overrun EXCEPT ![b] = @ \cup {k}]
              /\ UNCHANGED ended
         ELSE ended' = "fault" /\ UNCHANGED <<mem, overrun>>
      /\ UNCHANGED <<isInit, hdr, held>>

Init ==
  /\ isInit = ~EarlyCalls
  /\ hdr = [b \in Blocks |-> [magic |-> "free", usrData |-> 0, usrDataSize |-> 0,
                              misalignment |-> 0]]
  /\ mem = [b \in Blocks |-> [o \in 0 .. BinSize(b) - 1 |-> "stale"]]
  /\ held = [b \in {} |-> 0]
  /\ overrun = [b \in Blocks |-> {}] /\ ended = "no"

Gone == ended # "no" /\ UNCHANGED vars

Next ==
  \/ \E n \in Sizes :
       \/ Malloc(n)
       \/ \E al \in Alignments : Memalign(al, n) \/ PosixMemalign(al, n) \/ SizeAborts(al, n)
       \/ \E count \in Counts : \/ Calloc(count, n)
                                 \/ SizeAborts(Word, CallocSize(count, n))
       \/ \E b \in Live : Realloc(b, n)
  \/ \E b \in Live :
       \/ Free(b) \/ Store(b)
       \/ \E k \in 0 .. MaxOverrun - 1 : Overrun(b, k)
  \/ Gone

Spec == Init /\ [][Next]_vars

(***************************************************************************)
(* Properties.                                                             *)
(***************************************************************************)
Bytes == {"stale", "trace", "slop", "self", "poison", "zero", "x"}

(* Every variable keeps its type, and pointers stay in their blocks. *)
TypeOK ==
  /\ isInit \in BOOLEAN /\ Live \subseteq Blocks
  /\ overrun \in [Blocks -> SUBSET Nat]
  /\ ended \in {"no", "size", "slop", "assert", "fault"}
  /\ \A b \in Blocks :
       /\ hdr[b].magic = IF b \in Live THEN "inuse" ELSE "free"
       /\ b \in Live => hdr[b].usrData \in b.at .. b.at + BinSize(b)
       /\ {hdr[b].usrDataSize, hdr[b].misalignment} \subseteq Nat
       /\ mem[b] \in [0 .. BinSize(b) - 1 -> Bytes]
       /\ b \in Live => held[b].al \in Nat /\ held[b].size \in Nat

(* memalignInt: "Add space to the request to satisfy header needs, header  *)
(* pointer and alignment request".  The block that a caller gets has room  *)
(* for all it asked for: the header with its traces, the pointer and the   *)
(* data do not overlap, the data are aligned, and they end as close to the *)
(* guard page as the alignment lets them.  A size that wraps gets none.    *)
RegionsApart ==
  \A b \in Live :
    LET h == hdr[b]
    IN  /\ HdrSize + Word <= Offset(b, h)
        /\ h.usrDataSize = held[b].size
        /\ Offset(b, h) + held[b].size + h.misalignment = BinSize(b)
        /\ held[b].al > 1 => h.usrData % held[b].al = 0 /\ h.misalignment < held[b].al

(* Nothing but the program writes its data, and realloc brings them along; *)
(* the pointer that free goes by is still in front of them.                *)
DataKept ==
  \A b \in Live :
    /\ \A i \in 0 .. held[b].size - 1 : mem[b][Offset(b, hdr[b]) + i] = held[b].data[i]
    /\ \A o \in SelfBytes(b, hdr[b]) : mem[b][o] = "self"

(* Whether the program wrote into the MAX_SLOP bytes behind its data.      *)
HitSlop(b) == \E k \in overrun[b] : k < MaxSlop

(* free: "it's possible for some small overruns to not reach the guard     *)
(* page, so detect that here".  A program that writes any of the MAX_SLOP  *)
(* bytes behind its data, next to the data or not, is stopped at the guard *)
(* page or when it gives the block back by free or realloc: no such block  *)
(* is ever free.                                                           *)
OverrunCaught == \A b \in Blocks : HitSlop(b) => b \in Live

(* A block that the program did not write behind, or only further away,    *)
(* has all its slop and can be freed: what stops the process is an overrun *)
(* of the very block, whatever the calls for other blocks wrote since.     *)
NoFalseAlarm ==
  /\ \A b \in Live : ~HitSlop(b) => SlopIntact(b)
  /\ ended = "slop" => \E b \in Live : HitSlop(b)
  /\ ended # "assert"
===============================================================================
