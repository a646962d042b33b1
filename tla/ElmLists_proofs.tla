---------------------------- MODULE ElmLists_proofs ----------------------------
EXTENDS ElmLists, Sums, SequenceTheorems

(***************************************************************************)
(* The stack.                                                              *)
(***************************************************************************)
Cell == Blocks \cup {NoBlock}
Removing == {"rm1", "rm2", "rm3", "rm4", "rm5"}
Inserting == {"in1", "in2", "in3", "in4", "linked"}
LinkLabels == Removing \cup Inserting
Frames == [fn : {"malloc", "free", "report"}, pc : Labels, elm : Cell, list : Lists,
           mine : Cell, why : {"call", "signal", "hwm", "limit", "oom"}, seen : SUBSET Blocks]

(* The labels of each function, and what its locals hold there. *)
MallocFrameOk(g) ==
  /\ g.fn = "malloc" /\ g.mine = NoBlock /\ g.why = "call"
  /\ g.pc \in LinkLabels \cup {"replenish", "pool", "load", "limit", "publish"}
  /\ g.pc \in LinkLabels \cup {"limit", "publish"} => g.elm \in Blocks
  /\ g.pc \in Removing => g.list = "free"
FreeFrameOk(g) ==
  /\ g.fn = "free" /\ g.mine = NoBlock /\ g.why = "call"
  /\ g.pc \in LinkLabels \cup {"mark"} /\ g.elm \in Blocks
  /\ g.pc \in Removing => g.list = "inuse"
  /\ g.pc \in Inserting => g.list = "free"
ReportFrameOk(g) ==
  /\ g.fn = "report" /\ g.why # "call"
  /\ g.pc \in {"open", "close", "locale", "kept", "walk", "print", "printed", "advance"}
  /\ g.pc \in {"kept", "walk"} => g.why = "signal"
  /\ g.pc \in {"printed", "advance"} => g.elm \in Blocks
  /\ g.pc \in {"open", "print"} => g.mine = NoBlock
FrameOk(g) == MallocFrameOk(g) \/ FreeFrameOk(g) \/ ReportFrameOk(g)

(* Who calls whom, and where the caller waits.  A report waits for free    *)
(* with the block that it has given away.                                  *)
Calls(g, h) ==
  /\ h.why # "signal"
  /\ \/ g.fn = "malloc" /\ g.pc = "limit" /\ h.fn = "report"
     \/ g.fn = "malloc" /\ g.pc = "pool" /\ h.fn = "report" /\ h.why = "oom"
     \/ g.fn = "report" /\ g.pc \in {"close", "kept", "printed"} /\ h.fn = "malloc"
        /\ g.mine = NoBlock
     \/ g.fn = "report" /\ g.pc \in {"locale", "advance"} /\ h.fn = "free"
        /\ g.mine = h.elm
TopOk(g) == g.fn = "report" /\ g.pc \in {"locale", "advance"} => g.mine = NoBlock

StackOk(st) ==
  /\ st \in Seq(Frames)
  /\ \A k \in 1 .. Len(st) : FrameOk(st[k])
  /\ \A k \in 1 .. Len(st) - 1 : Calls(st[k], st[k + 1])
  /\ st # <<>> => TopOk(st[Len(st)])

DataOk ==
  /\ next \in [Blocks -> Cell] /\ prev \in [Blocks -> Cell]
  /\ magic \in [Blocks -> {"zero", "free", "inuse"}]
  /\ head \in [Lists -> Cell] /\ numFree \in Int
  /\ requested \in Nat /\ freed \in Nat /\ hwm \in Nat /\ lastDump \in Nat
  /\ fresh \subseteq Blocks /\ live \subseteq Blocks /\ kept \subseteq Blocks
  /\ gMutex \in BOOLEAN /\ aborted \in BOOLEAN

ShapeInv == DataOk /\ StackOk(stack)

(***************************************************************************)
(* The nesting of reports.                                                 *)
(***************************************************************************)
(* The block that a frame holds: one that is counted as in use. *)
Hold(g) == IF g.pc \in {"limit", "publish", "mark"} THEN g.elm
           ELSE IF g.pc \in {"close", "kept", "printed"} THEN g.mine
           ELSE NoBlock
Extra(st) == IF Hold(st[Len(st)]) # NoBlock THEN 1 ELSE 0

(* Inside a report for -D nobody but the running frame holds a block, and  *)
(* no more than that one block is in use above the mark that was noted.    *)
NestAt(st, k, used, high, dumped) ==
  /\ \A j \in k .. Len(st) - 1 : Hold(st[j]) = NoBlock
  /\ \A j \in k + 1 .. Len(st) : st[j].why # "hwm"
  /\ used <= dumped + Extra(st)
  /\ high <= dumped + 1
Flat(st) == \A k \in 1 .. Len(st) : st[k].why # "limit"
NestOk(st, used, high, dumped) ==
  /\ used <= high
  /\ Flat(st) => \A k \in 1 .. Len(st) :
                  st[k].why = "hwm" => NestAt(st, k, used, high, dumped)
Unlimited == Flat(stack)
NestInv == NestOk(stack, requested - freed, hwm, lastDump)

(***************************************************************************)
(* Lists: the blocks s that a walk from first comes to along nxt.          *)
(***************************************************************************)
Nth(s, k) == IF k \in 1 .. Len(s) THEN s[k] ELSE NoBlock
Path(first, nxt, s) ==
  /\ s \in Seq(Blocks) /\ \A i, j \in 1 .. Len(s) : s[i] = s[j] => i = j
  /\ first = Nth(s, 1) /\ \A k \in 1 .. Len(s) : nxt[s[k]] = Nth(s, k + 1)

(***************************************************************************)
(* A list is what a walk along next comes to.                              *)
(***************************************************************************)
WalkStep(first, nxt, at, k) ==
  IF k = 0 THEN first ELSE IF at[k - 1] = NoBlock THEN NoBlock ELSE nxt[at[k - 1]]

LEMMA PathIsShort ==
  ASSUME NEW first, NEW nxt, NEW s, Path(first, nxt, s)
  PROVE  Len(s) \in Nat /\ Cardinality(Blocks) \in Nat /\ Len(s) <= Cardinality(Blocks)
<1>1. IsFiniteSet(Blocks) /\ Cardinality(Blocks) \in Nat
  BY ListsAssumption, FS_CardinalityType
<1>2. s \in Seq(Blocks) /\ Len(s) \in Nat /\ \A i, j \in 1 .. Len(s) : s[i] = s[j] => i = j
  BY DEF Path
<1>3. s \in [1 .. Len(s) -> Blocks]
  BY <1>2
<1>4. s \in Injection(1 .. Len(s), Blocks)
  BY <1>2, <1>3 DEF Injection, IsInjective
<1>5. Cardinality(1 .. Len(s)) <= Cardinality(Blocks)
  BY <1>1, <1>4, FS_Injection
<1>6. Cardinality(1 .. Len(s)) = Len(s)
  <2> DEFINE n == Len(s)
  <2>1. n \in Nat
    BY <1>2
  <2> HIDE DEF n
  <2>2. Cardinality(1 .. n) = IF 1 > n THEN 0 ELSE n - 1 + 1
    BY <2>1, FS_Interval
  <2>3. Cardinality(1 .. n) = n
    BY <2>1, <2>2
  <2>4. QED
    BY <2>3 DEF n
<1>7. QED
  BY <1>1, <1>2, <1>5, <1>6

LEMMA WalkAt ==
  ASSUME NEW first, NEW nxt, NEW s, Path(first, nxt, s)
  PROVE  WalkFrom(first, nxt) = [k \in 0 .. Cardinality(Blocks) + 1 |-> Nth(s, k + 1)]
<1> DEFINE C == Cardinality(Blocks) + 1
           w == [k \in 0 .. C |-> Nth(s, k + 1)]
           W(at) == at = [k \in 0 .. C |-> WalkStep(first, nxt, at, k)]
<1>1. WalkFrom(first, nxt) = CHOOSE at : W(at)
  BY DEF WalkFrom, WalkStep
<1>2. C \in Nat /\ Len(s) \in Nat
  BY PathIsShort
<1>3. \A k \in 1 .. Len(s) : s[k] \in Blocks /\ s[k] # NoBlock
  BY ElementOfSeq, ListsAssumption DEF Path
<1>4. first = Nth(s, 1) /\ \A k \in 1 .. Len(s) : nxt[s[k]] = Nth(s, k + 1)
  BY DEF Path
<1> HIDE DEF C
<1>5. W(w)
  <2>1. ASSUME NEW k \in 0 .. C PROVE w[k] = WalkStep(first, nxt, w, k)
    <3>1. CASE k = 0
      BY <1>2, <1>4, <3>1 DEF WalkStep
    <3>2. CASE k # 0
      <4>1. k - 1 \in 0 .. C /\ w[k - 1] = Nth(s, k)
        BY <1>2, <3>2
      <4>2. CASE k \in 1 .. Len(s)
        <5>1. Nth(s, k) = s[k] /\ s[k] # NoBlock /\ nxt[s[k]] = Nth(s, k + 1)
          BY <1>3, <1>4, <4>2 DEF Nth
        <5>2. QED
          BY <3>2, <4>1, <5>1 DEF WalkStep
      <4>3. CASE k \notin 1 .. Len(s)
        <5>1. Nth(s, k) = NoBlock /\ Nth(s, k + 1) = NoBlock
          BY <1>2, <3>2, <4>3 DEF Nth
        <5>2. QED
          BY <3>2, <4>1, <5>1 DEF WalkStep
      <4>4. QED
        BY <4>2, <4>3
    <3>3. QED
      BY <3>1, <3>2
  <2> DEFINE v == [k \in 0 .. C |-> WalkStep(first, nxt, w, k)]
  <2>2. \A k \in 0 .. C : v[k] = w[k]
    BY <2>1
  <2>3. v = w
    BY <2>2
  <2>4. QED
    BY <2>3
<1>6. ASSUME NEW at, W(at) PROVE at = w
  <2> DEFINE G == {k \in Nat : k \in 0 .. C => at[k] = w[k]}
  <2>1. at = [k \in 0 .. C |-> WalkStep(first, nxt, at, k)]
    BY <1>6
  <2>2. w = [k \in 0 .. C |-> WalkStep(first, nxt, w, k)]
    BY <1>5
  <2>3. /\ \A k \in 0 .. C : at[k] = WalkStep(first, nxt, at, k)
        /\ \A k \in 0 .. C : w[k] = WalkStep(first, nxt, w, k)
    <3>1. \A f : f = [k \in 0 .. C |-> WalkStep(first, nxt, f, k)] =>
                   \A k \in 0 .. C : f[k] = WalkStep(first, nxt, f, k)
      OBVIOUS
    <3> HIDE DEF w
    <3>2. QED
      BY <2>1, <2>2, <3>1
  <2>4. DOMAIN at = 0 .. C /\ at = [k \in 0 .. C |-> at[k]]
    BY <2>1
  <2> HIDE DEF w
  <2>5. 0 \in G
    BY <1>2, <2>3 DEF WalkStep
  <2>6. ASSUME NEW k \in Nat, k \in G PROVE k + 1 \in G
    <3>1. SUFFICES ASSUME k + 1 \in 0 .. C PROVE at[k + 1] = w[k + 1]
      OBVIOUS
    <3>2. k \in 0 .. C
      BY <1>2, <3>1
    <3>3. at[k] = w[k] /\ (k + 1) - 1 = k /\ k + 1 # 0
      BY <2>6, <3>2
    <3>4. QED
      BY <2>3, <3>1, <3>3 DEF WalkStep
  <2>7. Nat \subseteq G
    <3> HIDE DEF G
    <3>1. QED
      BY <2>5, <2>6, InductionSet
  <2>8. \A k \in 0 .. C : at[k] = w[k]
    BY <1>2, <2>7
  <2>9. w = [k \in 0 .. C |-> w[k]]
    BY DEF w
  <2>10. QED
    BY <2>4, <2>8, <2>9
<1>7. WalkFrom(first, nxt) = w
  <2> HIDE DEF W, w
  <2>1. W(CHOOSE at : W(at))
    BY <1>5
  <2>2. QED
    BY <1>1, <1>6, <2>1
<1>8. QED
  BY <1>7 DEF w, C

LEMMA WalkIs ==
  ASSUME NEW first, NEW nxt, NEW s, Path(first, nxt, s)
  PROVE  Visited(WalkFrom(first, nxt)) = s
<1> DEFINE C == Cardinality(Blocks) + 1
           w == [k \in 0 .. C |-> Nth(s, k + 1)]
           n == Len(s)
<1>1. WalkFrom(first, nxt) = w
  BY WalkAt
<1>2. C \in Nat /\ n \in Nat /\ n <= C
  BY PathIsShort
<1>3. s \in Seq(Blocks) /\ \A k \in 1 .. n : s[k] \in Blocks /\ s[k] # NoBlock
  BY ElementOfSeq, ListsAssumption DEF Path
<1>4. {i \in DOMAIN w : w[i] # NoBlock} = 0 .. n - 1
  <2> HIDE DEF C
  <2>1. DOMAIN w = 0 .. C /\ \A i \in 0 .. C : w[i] = Nth(s, i + 1)
    OBVIOUS
  <2> HIDE DEF w
  <2>2. ASSUME NEW i \in 0 .. C PROVE w[i] # NoBlock <=> i \in 0 .. n - 1
    <3>1. i + 1 \in 1 .. n <=> i \in 0 .. n - 1
      BY <1>2
    <3>2. QED
      BY <1>3, <2>1, <3>1 DEF Nth
  <2>3. \A i \in 0 .. n - 1 : i \in 0 .. C
    BY <1>2
  <2>4. QED
    BY <2>1, <2>2, <2>3
<1>5. Cardinality(0 .. n - 1) = n
  <2> HIDE DEF n
  <2>1. Cardinality(0 .. n - 1) = IF 0 > n - 1 THEN 0 ELSE (n - 1) - 0 + 1
    BY <1>2, FS_Interval
  <2>2. QED
    BY <1>2, <2>1
<1>6. \A k \in 1 .. n : w[k - 1] = s[k]
  BY <1>2 DEF Nth
<1>7. Visited(w) = [k \in 1 .. n |-> w[k - 1]]
  <2> HIDE DEF w, n
  <2>1. QED
    BY <1>4, <1>5 DEF Visited
<1>8. [k \in 1 .. n |-> w[k - 1]] = [k \in 1 .. n |-> s[k]]
  BY <1>6
<1>9. s = [k \in 1 .. n |-> s[k]]
  BY <1>3
<1> HIDE DEF w, n
<1>10. QED
  BY <1>1, <1>7, <1>8, <1>9

(***************************************************************************)
(* One list, a pointer at a time.                                          *)
(***************************************************************************)
Headers(nx, pv) == nx \in [Blocks -> Cell] /\ pv \in [Blocks -> Cell]
Back(pv, s, j) == \A k \in 1 .. Len(s) : k # j => pv[s[k]] = Nth(s, k - 1)
On(s, x) == \E k \in 1 .. Len(s) : s[k] = x

(* Block x is between its neighbours j and j + 1, off the list itself. *)
Beside(nx, pv, x, s, j) == Back(pv, s, j + 1) /\ pv[x] = Nth(s, j) /\ nx[x] = Nth(s, j + 1)

(* List s while x is taken off it or put on it. *)
Changing(nx, pv, pc, x, s) ==
  /\ pc = "rm1" => On(s, x) /\ Back(pv, s, 0)
  /\ pc = "rm2" => \/ Back(pv, s, 0) /\ \E i \in 2 .. Len(s) : s[i] = x
                   \/ ~On(s, x) /\ Beside(nx, pv, x, s, 0)
  /\ pc = "rm3" => ~On(s, x) /\ \E j \in 0 .. Len(s) : Beside(nx, pv, x, s, j)
  /\ pc \in {"rm4", "rm5", "in1"} => ~On(s, x) /\ Back(pv, s, 0)
  /\ pc \in {"in2", "in3", "in4"} => /\ ~On(s, x) /\ Back(pv, s, 1)
                                     /\ s # <<>> => pv[s[1]] = x
  /\ pc \in {"in3", "in4"} => nx[x] = Nth(s, 1)
  /\ pc = "in4" => pv[x] = NoBlock
  /\ pc = "linked" => s # <<>> /\ s[1] = x /\ Back(pv, s, 0)

(* Sequence t is s without its element i, and s with x before it. *)
Cut(s, i, t) ==
  /\ t \in Seq(Blocks) /\ Len(t) = Len(s) - 1
  /\ \A k \in 1 .. Len(s) - 1 : t[k] = IF k < i THEN s[k] ELSE s[k + 1]
Pushed(s, x, t) ==
  /\ t \in Seq(Blocks) /\ Len(t) = Len(s) + 1 /\ t[1] = x
  /\ \A k \in 1 .. Len(s) : t[k + 1] = s[k]

LEMMA SeqFacts ==
  ASSUME NEW s \in Seq(Blocks)
  PROVE  /\ Len(s) \in Nat
         /\ \A k \in 1 .. Len(s) : s[k] \in Blocks /\ s[k] # NoBlock /\ Nth(s, k) = s[k]
         /\ \A k : k \notin 1 .. Len(s) => Nth(s, k) = NoBlock
         /\ s # <<>> <=> Len(s) > 0
<1>1. Len(s) \in Nat /\ s # <<>> <=> Len(s) > 0
  BY EmptySeq
<1>2. \A k \in 1 .. Len(s) : s[k] \in Blocks
  BY ElementOfSeq
<1>3. QED
  BY <1>1, <1>2, ListsAssumption DEF Nth

LEMMA CutTail ==
  ASSUME NEW s \in Seq(Blocks), s # <<>>
  PROVE  Cut(s, 1, Tail(s))
<1>1. /\ Tail(s) \in Seq(Blocks) /\ Len(Tail(s)) = Len(s) - 1
      /\ \A k \in 1 .. Len(Tail(s)) : Tail(s)[k] = s[k + 1]
  BY HeadTailProperties
<1>2. QED
  BY <1>1 DEF Cut

LEMMA CutAt ==
  ASSUME NEW s \in Seq(Blocks), NEW i \in 1 .. Len(s)
  PROVE  Cut(s, i, RemoveAt(s, i))
<1> DEFINE n == Len(s)
           a == SubSeq(s, 1, i - 1)
           b == SubSeq(s, i + 1, n)
<1>1. n \in Nat /\ i \in 1 .. n /\ \A k \in 1 .. n : s[k] \in Blocks
  BY SeqFacts
<1> HIDE DEF n
<1>2. a \in Seq(Blocks) /\ Len(a) = i - 1 /\ \A k \in 1 .. i - 1 : a[k] = s[k]
  <2>1. 1 \in Int /\ i - 1 \in Int /\ \A k \in 1 .. i - 1 : s[k] \in Blocks
    BY <1>1
  <2>2. /\ a \in Seq(Blocks) /\ Len(a) = IF 1 <= i - 1 THEN (i - 1) - 1 + 1 ELSE 0
        /\ \A k \in 1 .. (i - 1) - 1 + 1 : a[k] = s[1 + k - 1]
    BY <2>1, SubSeqProperties
  <2> HIDE DEF a
  <2>3. \A k \in 1 .. i - 1 : 1 + k - 1 = k /\ k \in 1 .. (i - 1) - 1 + 1
    BY <1>1
  <2>4. QED
    BY <1>1, <2>2, <2>3
<1>3. b \in Seq(Blocks) /\ Len(b) = n - i /\ \A k \in 1 .. n - i : b[k] = s[i + k]
  <2>1. i + 1 \in Int /\ n \in Int /\ \A k \in i + 1 .. n : s[k] \in Blocks
    BY <1>1
  <2>2. /\ b \in Seq(Blocks) /\ Len(b) = IF i + 1 <= n THEN n - (i + 1) + 1 ELSE 0
        /\ \A k \in 1 .. n - (i + 1) + 1 : b[k] = s[(i + 1) + k - 1]
    BY <2>1, SubSeqProperties
  <2> HIDE DEF b
  <2>3. \A k \in 1 .. n - i : (i + 1) + k - 1 = i + k /\ k \in 1 .. n - (i + 1) + 1
    BY <1>1
  <2>4. QED
    BY <1>1, <2>2, <2>3
<1>4. RemoveAt(s, i) = a \o b
  BY DEF RemoveAt, n
<1> HIDE DEF a, b
<1>5. /\ a \o b \in Seq(Blocks) /\ Len(a \o b) = Len(a) + Len(b)
      /\ \A k \in 1 .. Len(a) + Len(b) :
           (a \o b)[k] = IF k <= Len(a) THEN a[k] ELSE b[k - Len(a)]
  BY <1>2, <1>3, ConcatProperties
<1> DEFINE c == a \o b
<1>6. /\ c \in Seq(Blocks) /\ Len(c) = n - 1
      /\ \A k \in 1 .. n - 1 : c[k] = IF k <= i - 1 THEN a[k] ELSE b[k - (i - 1)]
  BY <1>1, <1>2, <1>3, <1>5
<1> HIDE DEF c
<1>7. ASSUME NEW k \in 1 .. n - 1 PROVE c[k] = IF k < i THEN s[k] ELSE s[k + 1]
  <2>1. CASE k < i
    BY <1>1, <1>2, <1>6, <2>1
  <2>2. CASE ~(k < i)
    <3>1. k - (i - 1) \in 1 .. n - i /\ i + (k - (i - 1)) = k + 1 /\ ~(k <= i - 1)
      BY <1>1, <2>2
    <3>2. b[k - (i - 1)] = s[i + (k - (i - 1))]
      BY <1>3, <3>1
    <3>3. QED
      BY <1>6, <2>2, <3>1, <3>2
  <2>3. QED
    BY <2>1, <2>2
<1>8. Cut(s, i, c)
  BY <1>6, <1>7 DEF Cut, n
<1>9. QED
  BY <1>4, <1>8 DEF c

LEMMA PushedIs ==
  ASSUME NEW s \in Seq(Blocks), NEW x \in Blocks
  PROVE  Pushed(s, x, <<x>> \o s)
<1> DEFINE a == <<x>>
<1>1. a \in Seq(Blocks) /\ Len(a) = 1 /\ a[1] = x
  OBVIOUS
<1> HIDE DEF a
<1>2. /\ a \o s \in Seq(Blocks) /\ Len(a \o s) = Len(a) + Len(s)
      /\ \A k \in 1 .. Len(a) + Len(s) :
           (a \o s)[k] = IF k <= Len(a) THEN a[k] ELSE s[k - Len(a)]
  BY <1>1, ConcatProperties
<1> DEFINE c == a \o s
<1>3. Len(s) \in Nat
  BY SeqFacts
<1>4. /\ c \in Seq(Blocks) /\ Len(c) = Len(s) + 1
      /\ \A k \in 1 .. Len(s) + 1 : c[k] = IF k <= 1 THEN a[k] ELSE s[k - 1]
  BY <1>1, <1>2, <1>3
<1> HIDE DEF c
<1>5. c[1] = x /\ \A k \in 1 .. Len(s) : c[k + 1] = s[k]
  BY <1>1, <1>3, <1>4
<1>6. Pushed(s, x, c)
  BY <1>3, <1>4, <1>5 DEF Pushed
<1>7. QED
  BY <1>6 DEF c, a

(* What is on the list after a cut or a push. *)
LEMMA CutOn ==
  ASSUME NEW s \in Seq(Blocks), NEW i \in 1 .. Len(s), NEW t, Cut(s, i, t),
         \A a, b \in 1 .. Len(s) : s[a] = s[b] => a = b
  PROVE  /\ \A a, b \in 1 .. Len(t) : t[a] = t[b] => a = b
         /\ \A y : On(t, y) <=> On(s, y) /\ y # s[i]
<1> DEFINE n == Len(s)
<1>1. /\ n \in Nat /\ i \in 1 .. n /\ Len(t) = n - 1
      /\ \A a, b \in 1 .. n : s[a] = s[b] => a = b
      /\ \A k \in 1 .. n - 1 : t[k] = IF k < i THEN s[k] ELSE s[k + 1]
  BY SeqFacts DEF Cut
<1> HIDE DEF n
<1>2. ASSUME NEW a \in 1 .. n - 1, NEW b \in 1 .. n - 1, t[a] = t[b] PROVE a = b
  BY <1>1, <1>2
<1>3. ASSUME NEW y, On(t, y) PROVE On(s, y) /\ y # s[i]
  <2>1. PICK k \in 1 .. n - 1 : t[k] = y
    BY <1>1, <1>3 DEF On
  <2> DEFINE m == IF k < i THEN k ELSE k + 1
  <2>2. m \in 1 .. n /\ m # i /\ s[m] = y
    BY <1>1, <2>1
  <2> HIDE DEF m
  <2>3. QED
    BY <1>1, <2>2 DEF On, n
<1>4. ASSUME NEW y, On(s, y), y # s[i] PROVE On(t, y)
  <2>1. PICK k \in 1 .. n : s[k] = y
    BY <1>4 DEF On, n
  <2> DEFINE m == IF k < i THEN k ELSE k - 1
  <2>2. k # i
    BY <1>4, <2>1
  <2>3. m \in 1 .. n - 1 /\ t[m] = y
    BY <1>1, <2>1, <2>2
  <2> HIDE DEF m
  <2>4. QED
    BY <1>1, <2>3 DEF On
<1>5. QED
  BY <1>1, <1>2, <1>3, <1>4

LEMMA PushOn ==
  ASSUME NEW s \in Seq(Blocks), NEW x \in Blocks, ~On(s, x), NEW t, Pushed(s, x, t),
         \A a, b \in 1 .. Len(s) : s[a] = s[b] => a = b
  PROVE  /\ \A a, b \in 1 .. Len(t) : t[a] = t[b] => a = b
         /\ \A y : On(t, y) <=> On(s, y) \/ y = x
<1> DEFINE n == Len(s)
<1>1. /\ n \in Nat /\ Len(t) = n + 1 /\ t[1] = x
      /\ \A a, b \in 1 .. n : s[a] = s[b] => a = b
      /\ \A k \in 1 .. n : t[k + 1] = s[k]
      /\ \A k \in 1 .. n : s[k] # x
  BY SeqFacts DEF Pushed, On
<1> HIDE DEF n
<1>2. \A a \in 2 .. n + 1 : a - 1 \in 1 .. n /\ t[a] = s[a - 1]
  <2>1. ASSUME NEW a \in 2 .. n + 1 PROVE a - 1 \in 1 .. n /\ t[a] = s[a - 1]
    <3>1. a - 1 \in 1 .. n /\ (a - 1) + 1 = a
      BY <1>1
    <3>2. QED
      BY <1>1, <3>1
  <2>2. QED
    BY <2>1
<1>3. ASSUME NEW a \in 1 .. n + 1, NEW b \in 1 .. n + 1, t[a] = t[b] PROVE a = b
  <2>1. ASSUME NEW c \in 2 .. n + 1 PROVE t[c] # t[1]
    BY <1>1, <1>2
  <2>2. CASE a = 1 \/ b = 1
    BY <1>1, <1>3, <2>1, <2>2
  <2>3. CASE a # 1 /\ b # 1
    <3>1. a - 1 \in 1 .. n /\ b - 1 \in 1 .. n /\ s[a - 1] = s[b - 1]
      BY <1>1, <1>2, <1>3, <2>3
    <3>2. a - 1 = b - 1
      BY <1>1, <3>1
    <3>3. QED
      BY <1>1, <3>2
  <2>4. QED
    BY <2>2, <2>3
<1>4. ASSUME NEW y, On(t, y) PROVE On(s, y) \/ y = x
  <2>1. PICK k \in 1 .. n + 1 : t[k] = y
    BY <1>1, <1>4 DEF On
  <2>2. CASE k = 1
    BY <1>1, <2>1, <2>2
  <2>3. CASE k # 1
    <3>1. k - 1 \in 1 .. n /\ s[k - 1] = y
      BY <1>1, <1>2, <2>1, <2>3
    <3>2. QED
      BY <3>1 DEF On, n
  <2>4. QED
    BY <2>2, <2>3
<1>5. ASSUME NEW y, On(s, y) PROVE On(t, y)
  <2>1. PICK k \in 1 .. n : s[k] = y
    BY <1>5 DEF On, n
  <2>2. k + 1 \in 1 .. n + 1 /\ t[k + 1] = y
    BY <1>1, <2>1
  <2>3. QED
    BY <1>1, <2>2 DEF On
<1>6. On(t, x)
  BY <1>1 DEF On
<1>7. QED
  BY <1>1, <1>3, <1>4, <1>5, <1>6

(* The path of a list whose first block goes, or another. *)
LEMMA PathTail ==
  ASSUME NEW h, NEW nx, NEW s, Path(h, nx, s), s # <<>>, NEW t, Cut(s, 1, t)
  PROVE  Path(nx[h], nx, t)
<1> DEFINE n == Len(s)
<1>1. /\ s \in Seq(Blocks) /\ n \in Nat /\ n > 0
      /\ \A a, b \in 1 .. n : s[a] = s[b] => a = b
      /\ h = s[1] /\ \A k \in 1 .. n : nx[s[k]] = Nth(s, k + 1)
  BY SeqFacts DEF Path
<1>2. /\ t \in Seq(Blocks) /\ Len(t) = n - 1
      /\ \A k \in 1 .. n - 1 : t[k] = s[k + 1]
  BY <1>1 DEF Cut
<1>3. \A a, b \in 1 .. Len(t) : t[a] = t[b] => a = b
  BY <1>1, CutOn
<1>4. \A k \in 1 .. n : Nth(t, k) = Nth(s, k + 1)
  BY <1>1, <1>2 DEF Nth
<1> HIDE DEF n
<1>5. nx[h] = Nth(t, 1)
  BY <1>1, <1>4
<1>6. ASSUME NEW k \in 1 .. n - 1 PROVE nx[t[k]] = Nth(t, k + 1)
  <2>1. k + 1 \in 1 .. n
    BY <1>1
  <2>2. QED
    BY <1>1, <1>2, <1>4, <2>1
<1>7. QED
  BY <1>2, <1>3, <1>5, <1>6 DEF Path

Bypassed(nx, s, i, ny) == ny = [nx EXCEPT ![s[i - 1]] = nx[s[i]]]
LEMMA PathCut ==
  ASSUME NEW h, NEW nx \in [Blocks -> Cell], NEW s, Path(h, nx, s), NEW i \in 2 .. Len(s),
         NEW t, Cut(s, i, t), NEW ny, Bypassed(nx, s, i, ny)
  PROVE  Path(h, ny, t)
<1> DEFINE n == Len(s)
<1>1. /\ s \in Seq(Blocks) /\ n \in Nat /\ i \in 2 .. n
      /\ \A a, b \in 1 .. n : s[a] = s[b] => a = b
      /\ h = Nth(s, 1) /\ \A k \in 1 .. n : nx[s[k]] = Nth(s, k + 1) /\ s[k] \in Blocks
  BY SeqFacts DEF Path
<1>2. /\ t \in Seq(Blocks) /\ Len(t) = n - 1
      /\ \A k \in 1 .. n - 1 : t[k] = IF k < i THEN s[k] ELSE s[k + 1]
  BY DEF Cut
<1>3. \A a, b \in 1 .. Len(t) : t[a] = t[b] => a = b
  BY <1>1, CutOn
<1>4. \A k \in 1 .. n : Nth(t, k) = IF k < i THEN Nth(s, k) ELSE Nth(s, k + 1)
  BY <1>1, <1>2 DEF Nth
<1>5. \A k \in 1 .. n : ny[s[k]] = IF k = i - 1 THEN nx[s[i]] ELSE nx[s[k]]
  <2>1. i - 1 \in 1 .. n
    BY <1>1
  <2>2. QED
    BY <1>1, <2>1 DEF Bypassed
<1> HIDE DEF n
<1>6. h = Nth(t, 1)
  BY <1>1, <1>4
<1>7. ASSUME NEW k \in 1 .. n - 1 PROVE ny[t[k]] = Nth(t, k + 1)
  <2>0. k \in 1 .. n /\ k + 1 \in 1 .. n
    BY <1>1
  <2>1. CASE k < i - 1
    <3>1. k < i /\ k # i - 1 /\ k + 1 < i
      BY <1>1, <2>1
    <3>2. t[k] = s[k] /\ ny[s[k]] = Nth(s, k + 1) /\ Nth(t, k + 1) = Nth(s, k + 1)
      BY <1>1, <1>2, <1>4, <1>5, <2>0, <3>1
    <3>3. QED
      BY <3>2
  <2>2. CASE k = i - 1
    <3>1. k < i /\ k + 1 = i /\ i \in 1 .. n
      BY <1>1, <2>2
    <3>2. t[k] = s[k] /\ ny[s[k]] = nx[s[i]] /\ nx[s[i]] = Nth(s, i + 1)
      BY <1>1, <1>2, <1>5, <2>0, <2>2, <3>1
    <3>3. Nth(t, k + 1) = Nth(s, i + 1)
      BY <1>1, <1>4, <3>1
    <3>4. QED
      BY <3>2, <3>3
  <2>3. CASE k >= i
    <3>1. ~(k < i) /\ ~(k + 1 < i) /\ k + 1 # i - 1
      BY <1>1, <2>3
    <3>2. t[k] = s[k + 1] /\ ny[s[k + 1]] = Nth(s, (k + 1) + 1)
      BY <1>1, <1>2, <1>5, <2>0, <3>1
    <3>3. Nth(t, k + 1) = Nth(s, (k + 1) + 1)
      BY <1>4, <2>0, <3>1
    <3>4. QED
      BY <3>2, <3>3
  <2>4. QED
    BY <1>1, <2>1, <2>2, <2>3
<1>8. QED
  BY <1>2, <1>3, <1>6, <1>7 DEF Path

(* A write to the header of a block that is elsewhere. *)
LEMMA PathElsewhere ==
  ASSUME NEW h, NEW nx \in [Blocks -> Cell], NEW s, Path(h, nx, s), NEW x, ~On(s, x),
         NEW v, NEW ny, ny = [nx EXCEPT ![x] = v]
  PROVE  Path(h, ny, s)
<1>1. \A k \in 1 .. Len(s) : s[k] # x /\ s[k] \in Blocks
  BY SeqFacts DEF Path, On
<1>2. \A k \in 1 .. Len(s) : ny[s[k]] = nx[s[k]]
  BY <1>1
<1>3. QED
  BY <1>2 DEF Path

LEMMA PathPush ==
  ASSUME NEW h, NEW nx, NEW s, Path(h, nx, s), NEW x \in Blocks, ~On(s, x), nx[x] = h,
         NEW t, Pushed(s, x, t)
  PROVE  Path(x, nx, t)
<1> DEFINE n == Len(s)
<1>1. /\ s \in Seq(Blocks) /\ n \in Nat
      /\ \A a, b \in 1 .. n : s[a] = s[b] => a = b
      /\ h = Nth(s, 1) /\ \A k \in 1 .. n : nx[s[k]] = Nth(s, k + 1)
  BY SeqFacts DEF Path
<1>2. /\ t \in Seq(Blocks) /\ Len(t) = n + 1 /\ t[1] = x
      /\ \A k \in 1 .. n : t[k + 1] = s[k]
  BY DEF Pushed
<1>3. \A a, b \in 1 .. Len(t) : t[a] = t[b] => a = b
  BY <1>1, PushOn
<1>4. \A k \in 1 .. n + 1 : Nth(t, k + 1) = Nth(s, k)
  BY <1>1, <1>2 DEF Nth
<1> HIDE DEF n
<1>5. x = Nth(t, 1)
  BY <1>1, <1>2 DEF Nth
<1>6. ASSUME NEW k \in 1 .. n + 1 PROVE nx[t[k]] = Nth(t, k + 1)
  <2>1. CASE k = 1
    BY <1>1, <1>2, <1>4, <2>1
  <2>2. CASE k # 1
    <3>1. k - 1 \in 1 .. n /\ (k - 1) + 1 = k
      BY <1>1, <2>2
    <3>2. t[k] = s[k - 1] /\ nx[s[k - 1]] = Nth(s, k)
      BY <1>1, <1>2, <3>1
    <3>3. QED
      BY <1>4, <3>2
  <2>3. QED
    BY <2>1, <2>2
<1>7. QED
  BY <1>2, <1>3, <1>5, <1>6 DEF Path

LEMMA BackElsewhere ==
  ASSUME NEW pv \in [Blocks -> Cell], NEW s \in Seq(Blocks), NEW j, Back(pv, s, j),
         NEW x, ~On(s, x), NEW v, NEW py, py = [pv EXCEPT ![x] = v]
  PROVE  Back(py, s, j)
<1>1. \A k \in 1 .. Len(s) : s[k] # x /\ s[k] \in Blocks
  BY SeqFacts DEF On
<1>2. QED
  BY <1>1 DEF Back

(***************************************************************************)
(* Both lists, a pointer at a time: x is taken off s or put on it, and r   *)
(* is the other list.                                                      *)
(***************************************************************************)
Apart(s, r) == \A y : ~(On(s, y) /\ On(r, y))
Mid(h, g, nx, pv, pc, x, s, r) ==
  /\ Headers(nx, pv) /\ x \in Blocks
  /\ Path(h, nx, s) /\ Path(g, nx, r)
  /\ Changing(nx, pv, pc, x, s)
  /\ Back(pv, r, 0) /\ ~On(r, x) /\ Apart(s, r)

LEMMA FirstTaken ==
  ASSUME NEW h, NEW g, NEW nx, NEW pv, NEW x, NEW s, NEW r,
         Mid(h, g, nx, pv, "rm1", x, s, r), h = x, NEW t, Cut(s, 1, t)
  PROVE  s # <<>> /\ s[1] = x /\ Mid(nx[x], g, nx, pv, "rm2", x, t, r)
<1> DEFINE n == Len(s)
<1>1. /\ Headers(nx, pv) /\ x \in Blocks /\ Path(h, nx, s) /\ Path(g, nx, r)
      /\ Back(pv, r, 0) /\ ~On(r, x) /\ Apart(s, r) /\ On(s, x) /\ Back(pv, s, 0)
  BY DEF Mid, Changing
<1>2. /\ s \in Seq(Blocks) /\ n \in Nat /\ h = Nth(s, 1)
      /\ \A a, b \in 1 .. n : s[a] = s[b] => a = b
      /\ \A k \in 1 .. n : nx[s[k]] = Nth(s, k + 1)
  BY <1>1, SeqFacts DEF Path
<1>3. n > 0 /\ s[1] = x
  BY <1>1, <1>2, ListsAssumption DEF Nth
<1>4. s # <<>>
  BY <1>2, <1>3, SeqFacts
<1>5. Path(nx[x], nx, t)
  BY <1>1, <1>4, PathTail
<1>6. /\ Len(t) = n - 1 /\ \A k \in 1 .. n - 1 : t[k] = s[k + 1]
  BY <1>2 DEF Cut
<1>7. \A y : On(t, y) <=> On(s, y) /\ y # x
  BY <1>2, <1>3, CutOn
<1>8. ~On(t, x) /\ Apart(t, r)
  BY <1>1, <1>7 DEF Apart
<1>9. pv[x] = NoBlock /\ nx[x] = Nth(s, 2)
  <2>1. 1 \in 1 .. n /\ 1 # 0 /\ 1 - 1 = 0 /\ 1 + 1 = 2
    BY <1>2, <1>3
  <2>2. pv[s[1]] = Nth(s, 0) /\ nx[s[1]] = Nth(s, 2)
    BY <1>1, <1>2, <2>1 DEF Back
  <2>3. Nth(s, 0) = NoBlock
    BY <1>2 DEF Nth
  <2>4. QED
    BY <1>3, <2>2, <2>3
<1>10. \A k \in 0 .. n : k # 0 => Nth(t, k) = Nth(s, k + 1)
  BY <1>2, <1>6 DEF Nth
<1>11. Nth(t, 0) = NoBlock
  BY DEF Nth
<1>12. Back(pv, t, 1)
  <2> HIDE DEF n
  <2>1. ASSUME NEW k \in 1 .. n - 1, k # 1 PROVE pv[t[k]] = Nth(t, k - 1)
    <3>1. k + 1 \in 1 .. n /\ (k + 1) - 1 = k /\ k - 1 \in 0 .. n /\ (k - 1) + 1 = k /\ k - 1 # 0
      BY <1>2, <2>1
    <3>2. pv[s[k + 1]] = Nth(s, (k + 1) - 1)
      BY <1>1, <1>2, <3>1 DEF Back, n
    <3>3. Nth(t, k - 1) = Nth(s, (k - 1) + 1)
      BY <1>10, <3>1
    <3>4. QED
      BY <1>6, <3>1, <3>2, <3>3
  <2>2. QED
    BY <1>6, <2>1 DEF Back
<1>13. Beside(nx, pv, x, t, 0)
  <2>1. nx[x] = Nth(t, 0 + 1)
    <3>1. Nth(s, 2) = Nth(t, 1)
      BY <1>2, <1>3, <1>10
    <3>2. QED
      BY <1>9, <3>1
  <2>2. Back(pv, t, 0 + 1)
    BY <1>12
  <2>3. QED
    BY <1>9, <1>11, <2>1, <2>2 DEF Beside
<1>14. Changing(nx, pv, "rm2", x, t)
  BY <1>8, <1>13 DEF Changing
<1>15. QED
  BY <1>1, <1>3, <1>4, <1>5, <1>8, <1>14 DEF Mid

LEMMA InnerFound ==
  ASSUME NEW h, NEW g, NEW nx, NEW pv, NEW x, NEW s, NEW r,
         Mid(h, g, nx, pv, "rm1", x, s, r), h # x
  PROVE  Mid(h, g, nx, pv, "rm2", x, s, r)
<1>1. /\ Path(h, nx, s) /\ On(s, x) /\ Back(pv, s, 0)
  BY DEF Mid, Changing
<1>2. s \in Seq(Blocks) /\ Len(s) \in Nat /\ h = Nth(s, 1)
  BY <1>1, SeqFacts DEF Path
<1>3. PICK k \in 1 .. Len(s) : s[k] = x
  BY <1>1 DEF On
<1>4. k # 1
  BY <1>2, <1>3 DEF Nth
<1>5. k \in 2 .. Len(s)
  BY <1>2, <1>3, <1>4
<1>6. Changing(nx, pv, "rm2", x, s)
  BY <1>1, <1>3, <1>5 DEF Changing
<1>7. QED
  BY <1>6 DEF Mid

(* The block before x gets the block after it. *)
LEMMA InnerTaken ==
  ASSUME NEW h, NEW g, NEW nx, NEW pv, NEW x, NEW s, NEW r,
         Mid(h, g, nx, pv, "rm2", x, s, r), NEW i \in 1 .. Len(s), s[i] = x,
         NEW t, Cut(s, i, t),
         NEW ny, ny = [nx EXCEPT ![pv[x]] = nx[x]]
  PROVE  pv[x] # NoBlock /\ Mid(h, g, ny, pv, "rm3", x, t, r)
<1> DEFINE n == Len(s)
<1>1. /\ Headers(nx, pv) /\ x \in Blocks /\ Path(h, nx, s) /\ Path(g, nx, r)
      /\ Back(pv, r, 0) /\ ~On(r, x) /\ Apart(s, r) /\ Changing(nx, pv, "rm2", x, s)
  BY DEF Mid
<1>2. On(s, x)
  BY DEF On
<1>3. /\ s \in Seq(Blocks) /\ n \in Nat /\ h = Nth(s, 1)
      /\ \A a, b \in 1 .. n : s[a] = s[b] => a = b
      /\ \A k \in 1 .. n : nx[s[k]] = Nth(s, k + 1) /\ s[k] \in Blocks /\ s[k] # NoBlock
                           /\ Nth(s, k) = s[k]
  BY <1>1, SeqFacts DEF Path
<1>4. Back(pv, s, 0) /\ \E k \in 2 .. n : s[k] = x
  BY <1>1, <1>2 DEF Changing
<1>5. i \in 2 .. n
  BY <1>3, <1>4
<1>6. pv[x] = s[i - 1] /\ pv[x] # NoBlock /\ i - 1 \in 1 .. n /\ nx[x] = Nth(s, i + 1)
  <2>1. i - 1 \in 1 .. n /\ i # 0
    BY <1>3, <1>5
  <2>2. pv[s[i]] = Nth(s, i - 1)
    BY <1>4, <2>1 DEF Back
  <2>3. QED
    BY <1>3, <2>1, <2>2
<1>7. ny = [nx EXCEPT ![s[i - 1]] = nx[s[i]]]
  BY <1>6
<1>8. nx \in [Blocks -> Cell] /\ pv \in [Blocks -> Cell]
  BY <1>1 DEF Headers
<1>9. Path(h, ny, t)
  <2>1. i \in 2 .. Len(s)
    BY <1>5
  <2>2. Path(h, nx, s) /\ Cut(s, i, t) /\ nx \in [Blocks -> Cell]
    BY <1>1, <1>8
  <2>3. Bypassed(nx, s, i, ny)
    BY <1>7 DEF Bypassed
  <2> HIDE DEF n
  <2>4. QED
    BY <2>1, <2>2, <2>3, PathCut
<1>10. \A y : On(t, y) <=> On(s, y) /\ y # x
  BY <1>3, CutOn
<1>11. On(s, s[i - 1])
  BY <1>6 DEF On
<1>12. ~On(r, s[i - 1])
  BY <1>1, <1>11 DEF Apart
<1>13. Path(g, ny, r)
  BY <1>1, <1>7, <1>8, <1>12, PathElsewhere
<1>14. /\ Len(t) = n - 1
       /\ \A k \in 1 .. n - 1 : t[k] = IF k < i THEN s[k] ELSE s[k + 1]
  BY DEF Cut
<1>15. \A k \in 0 .. n : Nth(t, k) = IF k < i THEN Nth(s, k) ELSE Nth(s, k + 1)
  BY <1>3, <1>14 DEF Nth
<1>16. Headers(ny, pv)
  <2>1. nx[x] \in Cell
    BY <1>1, <1>8
  <2>2. ny \in [Blocks -> Cell]
    BY <1>8, <2>1
  <2>3. QED
    BY <1>8, <2>2 DEF Headers
<1>17. ny[x] = nx[x]
  <2>1. s[i - 1] # x
    BY <1>3, <1>5, <1>6
  <2>2. QED
    BY <1>1, <1>7, <1>8, <2>1
<1>18. Back(pv, t, (i - 1) + 1)
  <2> HIDE DEF n
  <2>1. ASSUME NEW k \in 1 .. n - 1, k # i PROVE pv[t[k]] = Nth(t, k - 1)
    <3>0. \A m \in 1 .. n : pv[s[m]] = Nth(s, m - 1)
      BY <1>4, <1>3 DEF Back, n
    <3>1. CASE k < i
      <4>1. k - 1 \in 0 .. n /\ k - 1 < i /\ k \in 1 .. n
        BY <1>3, <3>1
      <4>2. QED
        BY <1>14, <1>15, <3>0, <3>1, <4>1
    <3>2. CASE ~(k < i)
      <4>1. k - 1 \in 0 .. n /\ ~(k - 1 < i) /\ k + 1 \in 1 .. n /\ (k - 1) + 1 = (k + 1) - 1
        BY <1>3, <2>1, <3>2
      <4>2. pv[s[k + 1]] = Nth(s, (k + 1) - 1)
        BY <3>0, <4>1
      <4>3. Nth(t, k - 1) = Nth(s, (k - 1) + 1)
        BY <1>15, <4>1
      <4>4. QED
        BY <1>14, <3>2, <4>1, <4>2, <4>3
    <3>3. QED
      BY <3>1, <3>2
  <2>2. (i - 1) + 1 = i
    BY <1>5
  <2>3. QED
    BY <1>14, <2>1, <2>2 DEF Back
<1>19. pv[x] = Nth(t, i - 1) /\ ny[x] = Nth(t, (i - 1) + 1)
  <2>1. i - 1 \in 0 .. n /\ i - 1 < i /\ i \in 0 .. n /\ ~(i < i) /\ (i - 1) + 1 = i
    BY <1>3, <1>5
  <2>2. QED
    BY <1>3, <1>6, <1>15, <1>17, <2>1
<1>20. Changing(ny, pv, "rm3", x, t)
  <2>1. Beside(ny, pv, x, t, i - 1)
    BY <1>18, <1>19 DEF Beside
  <2>2. i - 1 \in 0 .. Len(t)
    BY <1>3, <1>5, <1>14
  <2>3. ~On(t, x)
    BY <1>10
  <2>4. QED
    BY <2>1, <2>2, <2>3 DEF Changing
<1>21. Apart(t, r)
  BY <1>1, <1>10 DEF Apart
<1>22. QED
  BY <1>1, <1>6, <1>9, <1>13, <1>16, <1>20, <1>21 DEF Mid

LEMMA FirstLeft ==
  ASSUME NEW h, NEW g, NEW nx, NEW pv, NEW x, NEW s, NEW r,
         Mid(h, g, nx, pv, "rm2", x, s, r), ~On(s, x)
  PROVE  pv[x] = NoBlock /\ Mid(h, g, nx, pv, "rm3", x, s, r)
<1>1. Changing(nx, pv, "rm2", x, s) /\ Path(h, nx, s)
  BY DEF Mid
<1>2. s \in Seq(Blocks) /\ Len(s) \in Nat
  BY <1>1, SeqFacts DEF Path
<1>3. Beside(nx, pv, x, s, 0)
  BY <1>1, <1>2 DEF Changing, On
<1>4. pv[x] = NoBlock
  BY <1>3 DEF Beside, Nth
<1>5. 0 \in 0 .. Len(s)
  BY <1>2
<1>6. Changing(nx, pv, "rm3", x, s)
  BY <1>3, <1>5 DEF Changing
<1>7. QED
  BY <1>4, <1>6 DEF Mid

(* The block after x gets the block before it. *)
LEMMA Closed ==
  ASSUME NEW h, NEW g, NEW nx, NEW pv, NEW x, NEW s, NEW r,
         Mid(h, g, nx, pv, "rm3", x, s, r),
         NEW py, py = IF nx[x] = NoBlock THEN pv ELSE [pv EXCEPT ![nx[x]] = pv[x]]
  PROVE  Mid(h, g, nx, py, "rm4", x, s, r)
<1> DEFINE n == Len(s)
<1>1. /\ Headers(nx, pv) /\ x \in Blocks /\ Path(h, nx, s) /\ Path(g, nx, r)
      /\ Back(pv, r, 0) /\ ~On(r, x) /\ Apart(s, r) /\ Changing(nx, pv, "rm3", x, s)
  BY DEF Mid
<1>2. /\ s \in Seq(Blocks) /\ n \in Nat /\ r \in Seq(Blocks)
      /\ \A a, b \in 1 .. n : s[a] = s[b] => a = b
      /\ \A k \in 1 .. n : s[k] \in Blocks /\ s[k] # NoBlock /\ Nth(s, k) = s[k]
      /\ \A k : k \notin 1 .. n => Nth(s, k) = NoBlock
  BY <1>1, SeqFacts DEF Path
<1>3. ~On(s, x)
  BY <1>1 DEF Changing
<1>4. PICK j \in 0 .. n : Beside(nx, pv, x, s, j)
  BY <1>1 DEF Changing
<1>5. Back(pv, s, j + 1) /\ pv[x] = Nth(s, j) /\ nx[x] = Nth(s, j + 1)
  BY <1>4 DEF Beside
<1>6. nx \in [Blocks -> Cell] /\ pv \in [Blocks -> Cell]
  BY <1>1 DEF Headers
<1>7. CASE nx[x] = NoBlock
  <2>1. py = pv
    BY <1>7
  <2>2. j + 1 \notin 1 .. n
    BY <1>2, <1>5, <1>7
  <2>3. Back(py, s, 0)
    BY <1>5, <2>1, <2>2 DEF Back
  <2>4. Changing(nx, py, "rm4", x, s)
    BY <1>3, <2>3 DEF Changing
  <2>5. QED
    BY <1>1, <2>1, <2>4 DEF Mid
<1>8. CASE nx[x] # NoBlock
  <2>1. j + 1 \in 1 .. n /\ nx[x] = s[j + 1] /\ py = [pv EXCEPT ![s[j + 1]] = Nth(s, j)]
    BY <1>2, <1>5, <1>8
  <2>2. Back(py, s, 0)
    <3>1. ASSUME NEW k \in 1 .. n PROVE py[s[k]] = Nth(s, k - 1)
      <4>1. CASE k = j + 1
        BY <1>2, <1>6, <2>1, <4>1
      <4>2. CASE k # j + 1
        <5>1. s[k] # s[j + 1]
          BY <1>2, <2>1, <4>2
        <5>2. py[s[k]] = pv[s[k]]
          BY <1>2, <1>6, <2>1, <5>1
        <5>3. QED
          BY <1>5, <4>2, <5>2 DEF Back
      <4>3. QED
        BY <4>1, <4>2
    <3>2. QED
      BY <3>1 DEF Back
  <2>3. On(s, s[j + 1])
    BY <2>1 DEF On
  <2>4. ~On(r, s[j + 1])
    BY <1>1, <2>3 DEF Apart
  <2>5. Back(py, r, 0)
    <3> DEFINE y == s[j + 1]
               v == Nth(s, j)
    <3>1. py = [pv EXCEPT ![y] = v] /\ ~On(r, y)
      BY <2>1, <2>4
    <3>2. pv \in [Blocks -> Cell] /\ r \in Seq(Blocks) /\ Back(pv, r, 0)
      BY <1>1, <1>2, <1>6
    <3> HIDE DEF y, v
    <3>3. QED
      BY <3>1, <3>2, BackElsewhere
  <2>6. Nth(s, j) \in Cell
    BY <1>1, <1>5, <1>6
  <2>7. Headers(nx, py)
    BY <1>6, <2>1, <2>6 DEF Headers
  <2>8. Changing(nx, py, "rm4", x, s)
    BY <1>3, <2>2 DEF Changing
  <2>9. QED
    BY <1>1, <2>5, <2>7, <2>8 DEF Mid
<1>9. QED
  BY <1>7, <1>8

LEMMA PrevCleared ==
  ASSUME NEW h, NEW g, NEW nx, NEW pv, NEW x, NEW s, NEW r,
         Mid(h, g, nx, pv, "rm4", x, s, r), NEW py, py = [pv EXCEPT ![x] = NoBlock]
  PROVE  Mid(h, g, nx, py, "rm5", x, s, r)
<1>1. /\ Headers(nx, pv) /\ x \in Blocks /\ Path(h, nx, s) /\ Path(g, nx, r)
      /\ Back(pv, r, 0) /\ ~On(r, x) /\ Apart(s, r) /\ ~On(s, x) /\ Back(pv, s, 0)
  BY DEF Mid, Changing
<1>2. s \in Seq(Blocks) /\ r \in Seq(Blocks) /\ pv \in [Blocks -> Cell] /\ nx \in [Blocks -> Cell]
  BY <1>1 DEF Path, Headers
<1>3. Back(py, s, 0) /\ Back(py, r, 0)
  BY <1>1, <1>2, BackElsewhere
<1>4. Headers(nx, py)
  BY <1>2 DEF Headers, Cell
<1>5. Changing(nx, py, "rm5", x, s)
  BY <1>1, <1>3 DEF Changing
<1>6. QED
  BY <1>1, <1>3, <1>4, <1>5 DEF Mid

(* What is taken off a list goes on the other. *)
LEMMA NextCleared ==
  ASSUME NEW h, NEW g, NEW nx, NEW pv, NEW x, NEW s, NEW r,
         Mid(h, g, nx, pv, "rm5", x, s, r), NEW ny, ny = [nx EXCEPT ![x] = NoBlock]
  PROVE  Mid(g, h, ny, pv, "in1", x, r, s)
<1>1. /\ Headers(nx, pv) /\ x \in Blocks /\ Path(h, nx, s) /\ Path(g, nx, r)
      /\ Back(pv, r, 0) /\ ~On(r, x) /\ Apart(s, r) /\ ~On(s, x) /\ Back(pv, s, 0)
  BY DEF Mid, Changing
<1>2. pv \in [Blocks -> Cell] /\ nx \in [Blocks -> Cell]
  BY <1>1 DEF Headers
<1>3. Path(h, ny, s) /\ Path(g, ny, r)
  BY <1>1, <1>2, PathElsewhere
<1>4. Headers(ny, pv)
  BY <1>2 DEF Headers, Cell
<1>5. Changing(ny, pv, "in1", x, r)
  BY <1>1 DEF Changing
<1>6. Apart(r, s)
  BY <1>1 DEF Apart
<1>7. QED
  BY <1>1, <1>3, <1>4, <1>5, <1>6 DEF Mid

LEMMA HeadPointsBack ==
  ASSUME NEW h, NEW g, NEW nx, NEW pv, NEW x, NEW s, NEW r,
         Mid(h, g, nx, pv, "in1", x, s, r),
         NEW py, py = IF h = NoBlock THEN pv ELSE [pv EXCEPT ![h] = x]
  PROVE  Mid(h, g, nx, py, "in2", x, s, r)
<1> DEFINE n == Len(s)
<1>1. /\ Headers(nx, pv) /\ x \in Blocks /\ Path(h, nx, s) /\ Path(g, nx, r)
      /\ Back(pv, r, 0) /\ ~On(r, x) /\ Apart(s, r) /\ ~On(s, x) /\ Back(pv, s, 0)
  BY DEF Mid, Changing
<1>2. /\ s \in Seq(Blocks) /\ n \in Nat /\ r \in Seq(Blocks) /\ h = Nth(s, 1)
      /\ \A a, b \in 1 .. n : s[a] = s[b] => a = b
      /\ \A k \in 1 .. n : s[k] \in Blocks /\ s[k] # NoBlock /\ Nth(s, k) = s[k]
      /\ \A k : k \notin 1 .. n => Nth(s, k) = NoBlock
      /\ s # <<>> <=> n > 0
  BY <1>1, SeqFacts DEF Path
<1>3. nx \in [Blocks -> Cell] /\ pv \in [Blocks -> Cell]
  BY <1>1 DEF Headers
<1>4. CASE h = NoBlock
  <2>1. s = <<>> /\ n = 0 /\ py = pv
    BY <1>2, <1>4
  <2>2. Back(py, s, 1)
    BY <2>1 DEF Back
  <2>3. Changing(nx, py, "in2", x, s)
    BY <1>1, <2>1, <2>2 DEF Changing
  <2>4. QED
    BY <1>1, <2>1, <2>3 DEF Mid
<1>5. CASE h # NoBlock
  <2>1. 1 \in 1 .. n /\ h = s[1] /\ py = [pv EXCEPT ![s[1]] = x]
    BY <1>2, <1>5
  <2>2. py[s[1]] = x
    BY <1>2, <1>3, <2>1
  <2>3. Back(py, s, 1)
    <3>1. ASSUME NEW k \in 1 .. n, k # 1 PROVE py[s[k]] = Nth(s, k - 1)
      <4>1. s[k] # s[1]
        BY <1>2, <2>1, <3>1
      <4>2. py[s[k]] = pv[s[k]] /\ k # 0
        BY <1>2, <1>3, <2>1, <4>1
      <4>3. QED
        BY <1>1, <4>2 DEF Back
    <3>2. QED
      BY <3>1 DEF Back
  <2>4. On(s, s[1])
    BY <2>1 DEF On
  <2>5. ~On(r, s[1])
    BY <1>1, <2>4 DEF Apart
  <2>6. Back(py, r, 0)
    <3> DEFINE y == s[1]
    <3>1. py = [pv EXCEPT ![y] = x] /\ ~On(r, y)
      BY <2>1, <2>5
    <3>2. pv \in [Blocks -> Cell] /\ r \in Seq(Blocks) /\ Back(pv, r, 0)
      BY <1>1, <1>2, <1>3
    <3> HIDE DEF y
    <3>3. QED
      BY <3>1, <3>2, BackElsewhere
  <2>7. Headers(nx, py)
    BY <1>1, <1>3, <2>1 DEF Headers, Cell
  <2>8. Changing(nx, py, "in2", x, s)
    BY <1>1, <2>2, <2>3 DEF Changing
  <2>9. QED
    BY <1>1, <2>6, <2>7, <2>8 DEF Mid
<1>6. QED
  BY <1>4, <1>5

LEMMA NextSet ==
  ASSUME NEW h, NEW g, NEW nx, NEW pv, NEW x, NEW s, NEW r,
         Mid(h, g, nx, pv, "in2", x, s, r), NEW ny, ny = [nx EXCEPT ![x] = h], h \in Cell
  PROVE  Mid(h, g, ny, pv, "in3", x, s, r)
<1>1. /\ Headers(nx, pv) /\ x \in Blocks /\ Path(h, nx, s) /\ Path(g, nx, r)
      /\ Back(pv, r, 0) /\ ~On(r, x) /\ Apart(s, r) /\ ~On(s, x) /\ Back(pv, s, 1)
      /\ s # <<>> => pv[s[1]] = x
  BY DEF Mid, Changing
<1>2. pv \in [Blocks -> Cell] /\ nx \in [Blocks -> Cell]
  BY <1>1 DEF Headers
<1>3. Path(h, ny, s) /\ Path(g, ny, r)
  BY <1>1, <1>2, PathElsewhere
<1>4. Headers(ny, pv) /\ ny[x] = h
  BY <1>1, <1>2 DEF Headers
<1>5. h = Nth(s, 1)
  BY <1>1 DEF Path
<1>6. Changing(ny, pv, "in3", x, s)
  BY <1>1, <1>4, <1>5 DEF Changing
<1>7. QED
  BY <1>1, <1>3, <1>4, <1>6 DEF Mid

LEMMA PrevSet ==
  ASSUME NEW h, NEW g, NEW nx, NEW pv, NEW x, NEW s, NEW r,
         Mid(h, g, nx, pv, "in3", x, s, r), NEW py, py = [pv EXCEPT ![x] = NoBlock]
  PROVE  Mid(h, g, nx, py, "in4", x, s, r)
<1>1. /\ Headers(nx, pv) /\ x \in Blocks /\ Path(h, nx, s) /\ Path(g, nx, r)
      /\ Back(pv, r, 0) /\ ~On(r, x) /\ Apart(s, r) /\ ~On(s, x) /\ Back(pv, s, 1)
      /\ s # <<>> => pv[s[1]] = x
      /\ nx[x] = Nth(s, 1)
  BY DEF Mid, Changing
<1>2. s \in Seq(Blocks) /\ r \in Seq(Blocks) /\ pv \in [Blocks -> Cell] /\ nx \in [Blocks -> Cell]
  BY <1>1 DEF Path, Headers
<1>3. Back(py, s, 1) /\ Back(py, r, 0)
  BY <1>1, <1>2, BackElsewhere
<1>4. Headers(nx, py) /\ py[x] = NoBlock
  BY <1>1, <1>2 DEF Headers, Cell
<1>5. s # <<>> => py[s[1]] = x
  <2>1. ASSUME s # <<>> PROVE py[s[1]] = x
    <3>1. 1 \in 1 .. Len(s)
      BY <1>2, <2>1, SeqFacts
    <3>2. s[1] # x /\ s[1] \in Blocks
      BY <1>1, <1>2, <3>1, SeqFacts DEF On
    <3>3. QED
      BY <1>1, <1>2, <2>1, <3>2
  <2>2. QED
    BY <2>1
<1>6. Changing(nx, py, "in4", x, s)
  BY <1>1, <1>3, <1>4, <1>5 DEF Changing
<1>7. QED
  BY <1>1, <1>3, <1>4, <1>6 DEF Mid

LEMMA HeadSet ==
  ASSUME NEW h, NEW g, NEW nx, NEW pv, NEW x, NEW s, NEW r,
         Mid(h, g, nx, pv, "in4", x, s, r), NEW t, Pushed(s, x, t)
  PROVE  Mid(x, g, nx, pv, "linked", x, t, r)
<1> DEFINE n == Len(s)
<1>1. /\ Headers(nx, pv) /\ x \in Blocks /\ Path(h, nx, s) /\ Path(g, nx, r)
      /\ Back(pv, r, 0) /\ ~On(r, x) /\ Apart(s, r) /\ ~On(s, x) /\ Back(pv, s, 1)
      /\ s # <<>> => pv[s[1]] = x
      /\ nx[x] = Nth(s, 1) /\ pv[x] = NoBlock
  BY DEF Mid, Changing
<1>2. /\ s \in Seq(Blocks) /\ n \in Nat /\ h = Nth(s, 1)
      /\ \A a, b \in 1 .. n : s[a] = s[b] => a = b
      /\ \A k \in 1 .. n : Nth(s, k) = s[k]
      /\ s # <<>> <=> n > 0
  BY <1>1, SeqFacts DEF Path
<1>3. Path(x, nx, t)
  BY <1>1, <1>2, PathPush
<1>4. \A y : On(t, y) <=> On(s, y) \/ y = x
  BY <1>1, <1>2, PushOn
<1>5. Apart(t, r)
  BY <1>1, <1>4 DEF Apart
<1>6. /\ t \in Seq(Blocks) /\ Len(t) = n + 1 /\ t[1] = x
      /\ \A k \in 1 .. n : t[k + 1] = s[k]
  BY DEF Pushed
<1> HIDE DEF n
<1>7. \A k \in 1 .. n + 1 : Nth(t, k) = t[k]
  BY <1>6 DEF Nth
<1>8. ASSUME NEW k \in 1 .. n + 1 PROVE pv[t[k]] = Nth(t, k - 1)
  <2>1. CASE k = 1
    BY <1>1, <1>6, <2>1 DEF Nth
  <2>2. CASE k = 2
    <3>1. 1 \in 1 .. n /\ s # <<>> /\ 1 \in 1 .. n + 1
      BY <1>2, <2>2
    <3>2. t[1 + 1] = s[1] /\ Nth(t, 1) = x
      BY <1>6, <1>7, <3>1
    <3>3. QED
      BY <1>1, <2>2, <3>1, <3>2
  <2>3. CASE k > 2
    <3>1. /\ k - 1 \in 1 .. n /\ k - 1 # 1 /\ (k - 1) + 1 = k /\ (k - 1) - 1 \in 1 .. n
          /\ ((k - 1) - 1) + 1 = k - 1 /\ k - 1 \in 1 .. n + 1
      BY <1>2, <2>3
    <3>2. t[k] = s[k - 1] /\ t[k - 1] = s[(k - 1) - 1]
      BY <1>6, <3>1
    <3>3. pv[s[k - 1]] = Nth(s, (k - 1) - 1)
      BY <1>1, <3>1 DEF Back, n
    <3>4. QED
      BY <1>2, <1>7, <3>1, <3>2, <3>3
  <2>4. QED
    BY <1>2, <2>1, <2>2, <2>3
<1>9. Back(pv, t, 0)
  BY <1>6, <1>8 DEF Back
<1>10. t # <<>>
  BY <1>2, <1>6, SeqFacts
<1>11. Changing(nx, pv, "linked", x, t)
  BY <1>6, <1>9, <1>10 DEF Changing
<1>12. QED
  BY <1>1, <1>3, <1>5, <1>11 DEF Mid

(***************************************************************************)
(* Stacks.                                                                 *)
(***************************************************************************)
LEMMA FrontIs ==
  ASSUME NEW S, NEW st \in Seq(S), st # <<>>
  PROVE  /\ Len(st) \in Nat \ {0} /\ Front(st) \in Seq(S) /\ Len(Front(st)) = Len(st) - 1
         /\ \A k \in 1 .. Len(st) - 1 : Front(st)[k] = st[k]
         /\ st[Len(st)] \in S
<1>1. Len(st) \in Nat \ {0}
  BY EmptySeq
<1>2. \A k \in 1 .. Len(st) : st[k] \in S
  BY ElementOfSeq
<1>3. \A k \in 1 .. Len(st) - 1 : st[k] \in S
  BY <1>1, <1>2
<1>4. /\ SubSeq(st, 1, Len(st) - 1) \in Seq(S)
      /\ Len(SubSeq(st, 1, Len(st) - 1)) = Len(st) - 1
      /\ \A k \in 1 .. Len(st) - 1 : SubSeq(st, 1, Len(st) - 1)[k] = st[k]
  <2> DEFINE n == Len(st) - 1
             r == SubSeq(st, 1, n)
  <2>1. n \in Int /\ 1 \in Int /\ \A k \in 1 .. n : st[k] \in S
    BY <1>1, <1>3
  <2>2. r \in Seq(S)
    BY <2>1, SubSeqProperties
  <2>3. Len(r) = IF 1 <= n THEN n - 1 + 1 ELSE 0
    BY <2>1, SubSeqProperties
  <2>4. \A k \in 1 .. n - 1 + 1 : r[k] = st[1 + k - 1]
    BY <2>1, SubSeqProperties
  <2> HIDE DEF r
  <2>5. ASSUME NEW k \in 1 .. n PROVE r[k] = st[k]
    <3>1. k \in 1 .. n - 1 + 1 /\ 1 + k - 1 = k
      BY <1>1
    <3>2. QED
      BY <2>4, <3>1
  <2>6. Len(r) = n
    <3>1. n \in Nat
      BY <1>1
    <3> HIDE DEF n
    <3>2. QED
      BY <2>3, <3>1
  <2>7. QED
    BY <2>2, <2>5, <2>6 DEF r
<1>5. QED
  BY <1>1, <1>2, <1>4 DEF Front

Goes(st, t, f) == t = Append(Front(st), f)
Starts(st, t, f, c) == t = Append(Append(Front(st), f), c)
Gives(st, t, b) == t = [Front(st) EXCEPT ![Len(st) - 1].mine = b]

(* The running frame goes on as f. *)
LEMMA BecomeIs ==
  ASSUME NEW S, NEW st \in Seq(S), st # <<>>, NEW f \in S, NEW t, Goes(st, t, f)
  PROVE  /\ t \in Seq(S) /\ Len(t) = Len(st) /\ t # <<>> /\ t[Len(st)] = f
         /\ \A k \in 1 .. Len(st) - 1 : t[k] = st[k]
<1>1. /\ Len(st) \in Nat \ {0} /\ Front(st) \in Seq(S) /\ Len(Front(st)) = Len(st) - 1
      /\ \A k \in 1 .. Len(st) - 1 : Front(st)[k] = st[k]
  BY FrontIs
<1>2. QED
  BY <1>1, AppendProperties DEF Goes

(* It goes on as f when c, which it calls, is done. *)
LEMMA CallIs ==
  ASSUME NEW S, NEW st \in Seq(S), st # <<>>, NEW f \in S, NEW c \in S,
         NEW t, Starts(st, t, f, c)
  PROVE  /\ t \in Seq(S) /\ Len(t) = Len(st) + 1 /\ t # <<>>
         /\ t[Len(st)] = f /\ t[Len(st) + 1] = c
         /\ \A k \in 1 .. Len(st) - 1 : t[k] = st[k]
<1> DEFINE r == Append(Front(st), f)
<1>1. /\ r \in Seq(S) /\ Len(r) = Len(st) /\ r[Len(st)] = f
      /\ \A k \in 1 .. Len(st) - 1 : r[k] = st[k]
  <2>1. Goes(st, r, f)
    BY DEF Goes
  <2> HIDE DEF r
  <2>2. QED
    BY <2>1, BecomeIs
<1>2. t = Append(r, c) /\ Len(st) \in Nat \ {0}
  BY FrontIs DEF Starts
<1> HIDE DEF r
<1>3. /\ t \in Seq(S) /\ t # <<>> /\ Len(t) = Len(r) + 1
      /\ \A k \in 1 .. Len(r) : t[k] = r[k]
      /\ t[Len(r) + 1] = c
  BY <1>1, <1>2, AppendProperties
<1>4. QED
  BY <1>1, <1>2, <1>3

LEMMA FrameType ==
  /\ MallocFrame \in Frames /\ FrameOk(MallocFrame) /\ TopOk(MallocFrame)
  /\ \A b \in Blocks : FreeFrame(b) \in Frames /\ FrameOk(FreeFrame(b)) /\ TopOk(FreeFrame(b))
  /\ \A w \in {"signal", "hwm", "limit", "oom"} :
       ReportFrame(w) \in Frames /\ FrameOk(ReportFrame(w)) /\ TopOk(ReportFrame(w))
BY DEF MallocFrame, FreeFrame, ReportFrame, Frame, Frames, Cell, Labels, Lists, FrameOk,
       MallocFrameOk, FreeFrameOk, ReportFrameOk, TopOk, LinkLabels, Removing, Inserting

(* What a frame is when some of its locals have changed. *)
LEMMA Moved ==
  ASSUME NEW g \in Frames, NEW p \in Labels, NEW f, f = [g EXCEPT !.pc = p]
  PROVE  /\ f \in Frames /\ f.fn = g.fn /\ f.pc = p /\ f.elm = g.elm /\ f.list = g.list
         /\ f.mine = g.mine /\ f.why = g.why /\ f.seen = g.seen
BY DEF Frames

MovesTo(f, g, p, e, l) == f = [g EXCEPT !.pc = p, !.elm = e, !.list = l]
TurnsTo(f, g, p, l) == f = [g EXCEPT !.pc = p, !.list = l]
StepsTo(f, g, p, e) == f = [g EXCEPT !.pc = p, !.elm = e, !.mine = NoBlock]
SeesMore(f, g, p, b) == f = [g EXCEPT !.pc = p, !.seen = @ \cup {b}]

LEMMA MovedOn ==
  ASSUME NEW g \in Frames, NEW p \in Labels, NEW e \in Cell, NEW l \in Lists,
         NEW f, MovesTo(f, g, p, e, l)
  PROVE  /\ f \in Frames /\ f.fn = g.fn /\ f.pc = p /\ f.elm = e /\ f.list = l
         /\ f.mine = g.mine /\ f.why = g.why /\ f.seen = g.seen
BY DEF Frames, MovesTo

LEMMA Turned ==
  ASSUME NEW g \in Frames, NEW p \in Labels, NEW l \in Lists,
         NEW f, TurnsTo(f, g, p, l)
  PROVE  /\ f \in Frames /\ f.fn = g.fn /\ f.pc = p /\ f.elm = g.elm /\ f.list = l
         /\ f.mine = g.mine /\ f.why = g.why /\ f.seen = g.seen
BY DEF Frames, TurnsTo

LEMMA Stepped ==
  ASSUME NEW g \in Frames, NEW p \in Labels, NEW e \in Cell,
         NEW f, StepsTo(f, g, p, e)
  PROVE  /\ f \in Frames /\ f.fn = g.fn /\ f.pc = p /\ f.elm = e /\ f.list = g.list
         /\ f.mine = NoBlock /\ f.why = g.why /\ f.seen = g.seen
BY DEF Frames, Cell, StepsTo

LEMMA Saw ==
  ASSUME NEW g \in Frames, NEW p \in Labels, NEW b \in Blocks,
         NEW f, SeesMore(f, g, p, b)
  PROVE  /\ f \in Frames /\ f.fn = g.fn /\ f.pc = p /\ f.elm = g.elm /\ f.list = g.list
         /\ f.mine = g.mine /\ f.why = g.why /\ f.seen = g.seen \cup {b}
BY DEF Frames, SeesMore

LEMMA Given ==
  ASSUME NEW g \in Frames, NEW b \in Cell, NEW f, f = [g EXCEPT !.mine = b]
  PROVE  /\ f \in Frames /\ f.fn = g.fn /\ f.pc = g.pc /\ f.elm = g.elm /\ f.list = g.list
         /\ f.mine = b /\ f.why = g.why /\ f.seen = g.seen
BY DEF Frames

(* A call that ends, and the block that it gives to its caller. *)
LEMMA ReturnIs ==
  ASSUME NEW st \in Seq(Frames), Len(st) > 1, NEW b \in Cell,
         NEW t, Gives(st, t, b)
  PROVE  /\ t \in Seq(Frames) /\ Len(t) = Len(st) - 1 /\ Len(st) \in Nat
         /\ t[Len(st) - 1] = [st[Len(st) - 1] EXCEPT !.mine = b]
         /\ \A k \in 1 .. Len(st) - 2 : t[k] = st[k]
<1>1. st # <<>>
  BY EmptySeq
<1> DEFINE r == Front(st)
           n == Len(st) - 1
<1>2. /\ n \in 1 .. Len(r) /\ r \in Seq(Frames) /\ Len(r) = n /\ Len(st) \in Nat
      /\ \A k \in 1 .. n : r[k] = st[k]
  BY <1>1, FrontIs
<1>3. t = [r EXCEPT ![n] = [r[n] EXCEPT !.mine = b]]
  BY DEF Gives
<1> HIDE DEF r, n
<1>4. r[n] \in Frames
  BY <1>2, ElementOfSeq
<1>5. [r[n] EXCEPT !.mine = b] \in Frames
  BY <1>4, Given
<1> DEFINE g == [r[n] EXCEPT !.mine = b]
<1>6. /\ t \in Seq(Frames) /\ Len(t) = n
      /\ \A k \in 1 .. n : t[k] = IF k = n THEN g ELSE r[k]
  <2>1. t = [r EXCEPT ![n] = g] /\ g \in Frames
    BY <1>3, <1>5
  <2> HIDE DEF g
  <2> DEFINE q == [r EXCEPT ![n] = g]
  <2>2. r \in Seq(Frames) /\ n \in 1 .. Len(r) /\ g \in Frames /\ Len(r) = n
    BY <1>2, <2>1
  <2>3. /\ q \in Seq(Frames) /\ Len(q) = Len(r)
        /\ \A k \in 1 .. Len(r) : q[k] = IF k = n THEN g ELSE r[k]
    BY <2>2, ExceptSeq
  <2> HIDE DEF q
  <2>4. t = q
    BY <2>1 DEF q
  <2>5. QED
    BY <2>2, <2>3, <2>4
<1>7. n \in Nat /\ n >= 1 /\ n = Len(st) - 1
  BY <1>2 DEF n
<1>8. g = [st[n] EXCEPT !.mine = b]
  BY <1>2, <1>7
<1> HIDE DEF g
<1>9. t[n] = g /\ \A k \in 1 .. n - 1 : t[k] = st[k]
  BY <1>2, <1>6, <1>7
<1>10. QED
  BY <1>2, <1>6, <1>7, <1>8, <1>9 DEF n

(***************************************************************************)
(* How a step changes the stack, frame by frame.                           *)
(***************************************************************************)
Runs(st, t) ==
  /\ st # <<>> /\ t # <<>> /\ Len(st) \in Nat /\ Len(t) = Len(st)
  /\ \A k \in 1 .. Len(st) - 1 : t[k] = st[k]
Enters(st, t) ==
  /\ st # <<>> /\ t # <<>> /\ Len(st) \in Nat /\ Len(t) = Len(st) + 1
  /\ \A k \in 1 .. Len(st) - 1 : t[k] = st[k]
Leaves(st, t) ==
  /\ st # <<>> /\ Len(st) \in Nat /\ Len(t) = Len(st) - 1
  /\ \A k \in 1 .. Len(st) - 1 : t[k] = st[k]
Hands(st, t, b) ==
  /\ Len(st) \in Nat /\ Len(st) > 1 /\ t # <<>> /\ Len(t) = Len(st) - 1
  /\ \A k \in 1 .. Len(st) - 2 : t[k] = st[k]
  /\ LET g == st[Len(st) - 1]
         h == t[Len(st) - 1]
     IN  /\ h.fn = g.fn /\ h.pc = g.pc /\ h.elm = g.elm /\ h.list = g.list
         /\ h.mine = b /\ h.why = g.why /\ h.seen = g.seen

(* The running frame stays the same call. *)
SameCall(g, f) == f.fn = g.fn /\ f.why = g.why /\ (g.fn = "free" => f.elm = g.elm)

LEMMA StackFacts ==
  ASSUME NEW st, StackOk(st), st # <<>>
  PROVE  /\ st \in Seq(Frames) /\ Len(st) \in Nat \ {0} /\ Front(st) \in Seq(Frames)
         /\ st[Len(st)] \in Frames /\ FrameOk(st[Len(st)]) /\ TopOk(st[Len(st)])
         /\ \A k \in 1 .. Len(st) : st[k] \in Frames /\ FrameOk(st[k])
         /\ \A k \in 1 .. Len(st) - 1 : Calls(st[k], st[k + 1])
<1>1. st \in Seq(Frames)
  BY DEF StackOk
<1>2. Len(st) \in Nat \ {0} /\ Front(st) \in Seq(Frames) /\ st[Len(st)] \in Frames
  BY <1>1, FrontIs
<1>3. \A k \in 1 .. Len(st) : st[k] \in Frames
  BY <1>1, ElementOfSeq
<1>4. QED
  BY <1>1, <1>2, <1>3 DEF StackOk

LEMMA GoOk ==
  ASSUME NEW st, StackOk(st), st # <<>>, NEW f \in Frames, FrameOk(f), TopOk(f),
         SameCall(st[Len(st)], f), NEW t, Goes(st, t, f)
  PROVE  StackOk(t) /\ Runs(st, t) /\ t[Len(t)] = f
<1> DEFINE n == Len(st)
<1>1. /\ st \in Seq(Frames) /\ n \in Nat \ {0}
      /\ \A k \in 1 .. n : FrameOk(st[k])
      /\ \A k \in 1 .. n - 1 : Calls(st[k], st[k + 1])
  BY StackFacts
<1>2. /\ t \in Seq(Frames) /\ Len(t) = n /\ t # <<>> /\ t[n] = f
      /\ \A k \in 1 .. n - 1 : t[k] = st[k]
  BY <1>1, BecomeIs
<1>3. SameCall(st[n], f)
  OBVIOUS
<1> HIDE DEF n
<1>4. ASSUME NEW k \in 1 .. n - 1 PROVE Calls(t[k], t[k + 1])
  <2>1. Calls(st[k], st[k + 1]) /\ t[k] = st[k]
    BY <1>1, <1>2
  <2>2. CASE k = n - 1
    <3>1. t[k + 1] = f /\ st[k + 1] = st[n]
      BY <1>1, <1>2, <2>2
    <3>2. Calls(st[k], st[n]) => Calls(st[k], f)
      BY <1>3 DEF Calls, SameCall
    <3>3. QED
      BY <2>1, <3>1, <3>2
  <2>3. CASE k # n - 1
    BY <1>1, <1>2, <2>1, <2>3
  <2>4. QED
    BY <2>2, <2>3
<1>5. \A k \in 1 .. n : FrameOk(t[k])
  BY <1>1, <1>2
<1>6. QED
  BY <1>1, <1>2, <1>4, <1>5 DEF StackOk, Runs, n

LEMMA CallOk ==
  ASSUME NEW st, StackOk(st), st # <<>>, NEW f \in Frames, FrameOk(f),
         SameCall(st[Len(st)], f),
         NEW c \in Frames, FrameOk(c), TopOk(c), Calls(f, c),
         NEW t, Starts(st, t, f, c)
  PROVE  StackOk(t) /\ Enters(st, t) /\ t[Len(st)] = f /\ t[Len(t)] = c
<1> DEFINE n == Len(st)
<1>1. /\ st \in Seq(Frames) /\ n \in Nat \ {0}
      /\ \A k \in 1 .. n : FrameOk(st[k])
      /\ \A k \in 1 .. n - 1 : Calls(st[k], st[k + 1])
  BY StackFacts
<1>2. /\ t \in Seq(Frames) /\ Len(t) = n + 1 /\ t # <<>> /\ t[n] = f /\ t[n + 1] = c
      /\ \A k \in 1 .. n - 1 : t[k] = st[k]
  BY <1>1, CallIs
<1>3. SameCall(st[n], f)
  OBVIOUS
<1> HIDE DEF n
<1>4. ASSUME NEW k \in 1 .. n PROVE Calls(t[k], t[k + 1])
  <2>1. CASE k = n
    BY <1>2, <2>1
  <2>2. CASE k = n - 1
    <3>1. t[k + 1] = f /\ st[k + 1] = st[n] /\ t[k] = st[k] /\ k \in 1 .. n - 1
      BY <1>1, <1>2, <2>2
    <3>2. Calls(st[k], st[n]) => Calls(st[k], f)
      BY <1>3 DEF Calls, SameCall
    <3>3. QED
      BY <1>1, <3>1, <3>2
  <2>3. CASE k < n - 1
    BY <1>1, <1>2, <2>3
  <2>4. QED
    BY <1>1, <2>1, <2>2, <2>3
<1>5. \A k \in 1 .. n + 1 : FrameOk(t[k])
  BY <1>1, <1>2
<1>6. QED
  BY <1>1, <1>2, <1>4, <1>5 DEF StackOk, Enters, n

(* A report was called by a malloc, which goes on where it was. *)
LEMMA PopOk ==
  ASSUME NEW st, StackOk(st), st # <<>>, st[Len(st)].fn = "report",
         NEW t, t = Front(st)
  PROVE  StackOk(t) /\ Leaves(st, t)
<1> DEFINE n == Len(st)
<1>1. /\ st \in Seq(Frames) /\ n \in Nat \ {0}
      /\ \A k \in 1 .. n : FrameOk(st[k])
      /\ \A k \in 1 .. n - 1 : Calls(st[k], st[k + 1])
  BY StackFacts
<1>2. /\ t \in Seq(Frames) /\ Len(t) = n - 1
      /\ \A k \in 1 .. n - 1 : t[k] = st[k]
  BY <1>1, FrontIs
<1>3. st[n].fn = "report"
  OBVIOUS
<1> HIDE DEF n
<1>4. ASSUME t # <<>> PROVE TopOk(t[n - 1])
  <2>1. n - 1 \in 1 .. n - 1
    BY <1>1, <1>2, <1>4, EmptySeq
  <2>2. Calls(st[n - 1], st[n]) /\ t[n - 1] = st[n - 1]
    BY <1>1, <1>2, <2>1
  <2>3. st[n - 1].fn = "malloc"
    BY <1>3, <2>2 DEF Calls
  <2>4. QED
    BY <2>2, <2>3 DEF TopOk
<1>5. \A k \in 1 .. n - 1 : FrameOk(t[k])
  BY <1>1, <1>2
<1>6. \A k \in 1 .. n - 2 : Calls(t[k], t[k + 1])
  BY <1>1, <1>2
<1>7. QED
  BY <1>1, <1>2, <1>4, <1>5, <1>6 DEF StackOk, Leaves, n

(* What the running call may give to its caller. *)
Answers(g, b) == g.fn = "malloc" \/ (g.fn = "free" /\ b = NoBlock)

(* A malloc or a free inside another call was called by a report. *)
LEMMA GiveOk ==
  ASSUME NEW st, StackOk(st), Len(st) > 1, NEW b \in Cell, Answers(st[Len(st)], b),
         NEW t, Gives(st, t, b)
  PROVE  StackOk(t) /\ Hands(st, t, b)
<1> DEFINE n == Len(st)
           g == st[n - 1]
           h == t[n - 1]
<1>0. st # <<>>
  BY EmptySeq
<1>1. /\ st \in Seq(Frames) /\ n \in Nat \ {0} /\ n > 1
      /\ \A k \in 1 .. n : st[k] \in Frames /\ FrameOk(st[k])
      /\ \A k \in 1 .. n - 1 : Calls(st[k], st[k + 1])
  BY <1>0, StackFacts
<1>2. /\ t \in Seq(Frames) /\ Len(t) = n - 1 /\ h = [g EXCEPT !.mine = b]
      /\ \A k \in 1 .. n - 2 : t[k] = st[k]
  BY <1>1, ReturnIs
<1>3. Answers(st[n], b)
  OBVIOUS
<1>4. g \in Frames /\ FrameOk(g) /\ Calls(g, st[n])
  BY <1>1
<1>5. /\ h \in Frames /\ h.fn = g.fn /\ h.pc = g.pc /\ h.elm = g.elm /\ h.list = g.list
      /\ h.mine = b /\ h.why = g.why /\ h.seen = g.seen
  BY <1>2, <1>4, Given
<1>6. t # <<>>
  BY <1>1, <1>2, EmptySeq
<1> HIDE DEF n, g, h
<1>7. /\ g.fn = "report"
      /\ \/ g.pc \in {"close", "kept", "printed"}
         \/ g.pc \in {"locale", "advance"} /\ b = NoBlock
  BY <1>3, <1>4 DEF Calls, Answers
<1>8. FrameOk(h) /\ TopOk(h)
  BY <1>4, <1>5, <1>7 DEF FrameOk, MallocFrameOk, FreeFrameOk, ReportFrameOk, TopOk
<1>9. t[n - 1] = h /\ st[n - 1] = g
  BY DEF h, g
<1>10. ASSUME NEW k \in 1 .. n - 1 PROVE FrameOk(t[k])
  <2>1. CASE k = n - 1
    BY <1>8, <1>9, <2>1
  <2>2. CASE k \in 1 .. n - 2
    BY <1>1, <1>2, <2>2
  <2>3. QED
    BY <1>1, <2>1, <2>2
<1>11. ASSUME NEW k \in 1 .. n - 2 PROVE Calls(t[k], t[k + 1])
  <2>1. Calls(st[k], st[k + 1]) /\ t[k] = st[k]
    BY <1>1, <1>2
  <2>2. CASE k = n - 2
    <3>1. k + 1 = n - 1
      BY <1>1, <2>2
    <3>2. Calls(st[k], g) => Calls(st[k], h)
      BY <1>5, <1>7 DEF Calls
    <3>3. QED
      BY <1>9, <2>1, <3>1, <3>2
  <2>3. CASE k # n - 2
    BY <1>1, <1>2, <2>1, <2>3
  <2>4. QED
    BY <2>2, <2>3
<1>12. StackOk(t)
  <2>1. t[Len(t)] = h /\ Len(t) = n - 1 /\ Len(t) - 1 = n - 2
    BY <1>1, <1>2, <1>9
  <2>2. QED
    BY <1>2, <1>8, <1>10, <1>11, <2>1 DEF StackOk
<1>13. Hands(st, t, b)
  BY <1>1, <1>2, <1>5, <1>6, <1>9 DEF Hands, n
<1>14. QED
  BY <1>12, <1>13

(* A call by the program, or a signal. *)
LEMMA FirstOk ==
  ASSUME NEW c \in Frames, FrameOk(c), TopOk(c), NEW t, t = <<c>>
  PROVE  StackOk(t) /\ t # <<>> /\ Len(t) = 1 /\ t[1] = c
<1>1. t \in Seq(Frames) /\ Len(t) = 1 /\ t[1] = c /\ t # <<>>
  OBVIOUS
<1>2. QED
  BY <1>1 DEF StackOk

(* A frame that has kept its locals, and what it may go on to. *)
Keeps(g, f) == f.fn = g.fn /\ f.why = g.why /\ f.mine = g.mine /\ f.seen = g.seen
KeepsAll(g, f) == Keeps(g, f) /\ f.elm = g.elm /\ f.list = g.list
MayGo(g, p) == \A f \in Frames : KeepsAll(g, f) /\ f.pc = p => FrameOk(f) /\ TopOk(f)
MayWait(g, p) == \A f \in Frames : KeepsAll(g, f) /\ f.pc = p => FrameOk(f)
MayCall(g, p, c) == \A f \in Frames : KeepsAll(g, f) /\ f.pc = p => Calls(f, c)

LEMMA TopFacts ==
  ASSUME ShapeInv, stack # <<>>
  PROVE  /\ stack \in Seq(Frames) /\ Len(stack) \in Nat \ {0} /\ Top = stack[Len(stack)]
         /\ Top \in Frames /\ FrameOk(Top) /\ TopOk(Top)
         /\ Top.pc \in Labels /\ Top.elm \in Cell /\ Top.mine \in Cell /\ Top.list \in Lists
<1>1. StackOk(stack)
  BY DEF ShapeInv
<1>2. /\ stack \in Seq(Frames) /\ Len(stack) \in Nat \ {0}
      /\ stack[Len(stack)] \in Frames /\ FrameOk(stack[Len(stack)]) /\ TopOk(stack[Len(stack)])
  BY <1>1, StackFacts
<1>3. QED
  BY <1>2 DEF Top, Frames

LEMMA Went ==
  ASSUME ShapeInv, stack # <<>>, NEW p \in Labels, MayGo(Top, p), GoTo(p)
  PROVE  /\ StackOk(stack') /\ Runs(stack, stack')
         /\ Top' \in Frames /\ KeepsAll(Top, Top') /\ Top'.pc = p
<1>1. StackOk(stack) /\ Top \in Frames /\ Top = stack[Len(stack)]
  BY TopFacts DEF ShapeInv
<1> DEFINE f == [Top EXCEPT !.pc = p]
<1>2. /\ f \in Frames /\ f.fn = Top.fn /\ f.pc = p /\ f.elm = Top.elm /\ f.list = Top.list
      /\ f.mine = Top.mine /\ f.why = Top.why /\ f.seen = Top.seen
  BY <1>1, Moved
<1>3. Goes(stack, stack', f)
  BY DEF GoTo, Become, Goes
<1> HIDE DEF f
<1>4. FrameOk(f) /\ TopOk(f) /\ SameCall(Top, f) /\ KeepsAll(Top, f)
  BY <1>2 DEF MayGo, KeepsAll, Keeps, SameCall
<1>5. StackOk(stack') /\ Runs(stack, stack') /\ stack'[Len(stack')] = f
  BY <1>1, <1>2, <1>3, <1>4, GoOk
<1>6. Top' = f
  BY <1>5 DEF Top
<1>7. QED
  BY <1>2, <1>4, <1>5, <1>6

(* The writes of rmElm and insertElmHead, in their order. *)
Follows(p, q) ==
  <<p, q>> \in {<<"rm1", "rm2">>, <<"rm2", "rm3">>, <<"rm3", "rm4">>, <<"rm4", "rm5">>,
                <<"in1", "in2">>, <<"in2", "in3">>, <<"in3", "in4">>, <<"in4", "linked">>}

LEMMA LinkTop ==
  ASSUME ShapeInv, NEW p \in LinkLabels, AtLink(p)
  PROVE  /\ stack # <<>> /\ ~aborted /\ Top.pc = p /\ Top.elm \in Blocks /\ Top.list \in Lists
         /\ Top.fn \in {"malloc", "free"} /\ (MallocFrameOk(Top) \/ FreeFrameOk(Top))
         /\ Hold(Top) = NoBlock
<1>1. stack # <<>> /\ ~aborted /\ Top.pc = p /\ Top.elm # NoBlock
  BY DEF AtLink
<1>2. Top \in Frames /\ FrameOk(Top) /\ Top.list \in Lists
  BY <1>1, TopFacts
<1>3. QED
  BY <1>1, <1>2 DEF FrameOk, MallocFrameOk, FreeFrameOk, ReportFrameOk, LinkLabels, Removing,
                    Inserting, Hold

LEMMA Linked1 ==
  ASSUME ShapeInv, NEW p, NEW q, Follows(p, q), AtLink(p), GoTo(q)
  PROVE  /\ StackOk(stack') /\ Runs(stack, stack')
         /\ Top' \in Frames /\ KeepsAll(Top, Top') /\ Top'.pc = q
<1>1. p \in LinkLabels /\ q \in LinkLabels /\ q \in Labels
      /\ (p \in Removing <=> q \in Removing)
  BY DEF Follows, LinkLabels, Removing, Inserting, Labels
<1>2. stack # <<>> /\ Top.pc = p /\ (MallocFrameOk(Top) \/ FreeFrameOk(Top))
  BY <1>1, LinkTop
<1>3. MayGo(Top, q)
  BY <1>1, <1>2 DEF MayGo, KeepsAll, Keeps, FrameOk, MallocFrameOk, FreeFrameOk, TopOk,
                    LinkLabels, Removing, Inserting
<1>4. QED
  BY <1>1, <1>2, <1>3, Went

LEMMA WentOn ==
  ASSUME ShapeInv, stack # <<>>, NEW f \in Frames, FrameOk(f), TopOk(f), SameCall(Top, f),
         Become(f)
  PROVE  StackOk(stack') /\ Runs(stack, stack') /\ Top' = f
<1>1. StackOk(stack) /\ Top = stack[Len(stack)]
  BY TopFacts DEF ShapeInv
<1>2. Goes(stack, stack', f)
  BY DEF Become, Goes
<1>3. StackOk(stack') /\ Runs(stack, stack') /\ stack'[Len(stack')] = f
  BY <1>1, <1>2, GoOk
<1>4. QED
  BY <1>3 DEF Top

LEMMA Called ==
  ASSUME ShapeInv, stack # <<>>, NEW f \in Frames, FrameOk(f), SameCall(Top, f),
         NEW c \in Frames, FrameOk(c), TopOk(c), Calls(f, c), CallFrom(f, c)
  PROVE  /\ StackOk(stack') /\ Enters(stack, stack')
         /\ stack'[Len(stack)] = f /\ Top' = c
<1>1. StackOk(stack) /\ Top = stack[Len(stack)]
  BY TopFacts DEF ShapeInv
<1>2. Starts(stack, stack', f, c)
  BY DEF CallFrom, Starts
<1>3. /\ StackOk(stack') /\ Enters(stack, stack')
      /\ stack'[Len(stack)] = f /\ stack'[Len(stack')] = c
  BY <1>1, <1>2, CallOk
<1>4. QED
  BY <1>3 DEF Top

Ended == stack' = <<>> /\ Len(stack) = 1
LEMMA Returned ==
  ASSUME ShapeInv, stack # <<>>, NEW b \in Cell, Answers(Top, b), Return(b)
  PROVE  /\ StackOk(stack')
         /\ \/ Ended /\ live' = live \cup ({b} \ {NoBlock})
            \/ Len(stack) > 1 /\ Hands(stack, stack', b) /\ live' = live
<1>1. StackOk(stack) /\ Top = stack[Len(stack)] /\ Len(stack) \in Nat \ {0}
      /\ stack \in Seq(Frames)
  BY TopFacts DEF ShapeInv
<1>2. CASE Len(stack) = 1
  <2>1. stack' = Front(stack) /\ live' = live \cup ({b} \ {NoBlock})
    BY <1>2 DEF Return, Pop
  <2>2. Front(stack) \in Seq(Frames) /\ Len(Front(stack)) = 0
    BY <1>1, <1>2, FrontIs
  <2>3. stack' = <<>>
    BY <2>1, <2>2, EmptySeq
  <2>4. StackOk(stack')
    BY <2>3 DEF StackOk
  <2>5. QED
    BY <1>2, <2>1, <2>3, <2>4 DEF Ended
<1>3. CASE Len(stack) # 1
  <2>1. Len(stack) > 1 /\ live' = live
    <3>1. Len(stack) > 1
      <4>1. Len(stack) \in Nat \ {0} /\ Len(stack) # 1
        BY <1>1, <1>3
      <4>2. \A n \in Nat \ {0} : n # 1 => n > 1
        OBVIOUS
      <4>3. QED
        BY <4>1, <4>2
    <3>2. /\ stack' = [Front(stack) EXCEPT ![Len(stack) - 1].mine = b]
          /\ UNCHANGED live
      BY <1>3 DEF Return
    <3>3. QED
      BY <3>1, <3>2
  <2>2. Gives(stack, stack', b)
    BY <1>3 DEF Return, Gives
  <2>3. Answers(stack[Len(stack)], b)
    BY <1>1
  <2>4. StackOk(stack') /\ Hands(stack, stack', b)
    BY <1>1, <2>1, <2>2, <2>3, GiveOk
  <2>5. QED
    BY <2>1, <2>4
<1>4. QED
  BY <1>2, <1>3

(***************************************************************************)
(* The stack after each action.                                            *)
(***************************************************************************)
LEMMA AtTop ==
  ASSUME ShapeInv, NEW fn, NEW pc, At(fn, pc)
  PROVE  /\ stack # <<>> /\ ~aborted /\ Top.fn = fn /\ Top.pc = pc
         /\ Top \in Frames /\ FrameOk(Top) /\ TopOk(Top)
         /\ Top.elm \in Cell /\ Top.mine \in Cell
BY TopFacts DEF At

LEMMA Remove5Goes ==
  ASSUME ShapeInv, Remove5
  PROVE  /\ StackOk(stack') /\ Runs(stack, stack') /\ Keeps(Top, Top')
         /\ Top'.pc = "in1" /\ Top'.elm = Top.elm /\ Top'.list = Other(Top.list)
<1>1. stack # <<>> /\ Top.pc = "rm5" /\ (MallocFrameOk(Top) \/ FreeFrameOk(Top))
      /\ Top.list \in Lists
  BY LinkTop DEF Remove5, LinkLabels, Removing
<1>2. Top \in Frames
  BY <1>1, TopFacts
<1> DEFINE f == [Top EXCEPT !.pc = "in1", !.list = Other(@)]
<1>3. Become(f)
  BY DEF Remove5
<1>4. TurnsTo(f, Top, "in1", Other(Top.list))
  BY <1>2 DEF TurnsTo, Frames
<1>5. "in1" \in Labels /\ Other(Top.list) \in Lists
  BY DEF Labels, Other, Lists
<1> HIDE DEF f
<1>6. /\ f \in Frames /\ f.fn = Top.fn /\ f.pc = "in1" /\ f.elm = Top.elm
      /\ f.list = Other(Top.list) /\ f.mine = Top.mine /\ f.why = Top.why /\ f.seen = Top.seen
  BY <1>2, <1>4, <1>5, Turned
<1>7. FrameOk(f) /\ TopOk(f) /\ SameCall(Top, f)
  BY <1>1, <1>6 DEF FrameOk, MallocFrameOk, FreeFrameOk, TopOk, SameCall, LinkLabels, Removing,
                    Inserting, Other, Lists
<1>8. StackOk(stack') /\ Runs(stack, stack') /\ Top' = f
  BY <1>1, <1>3, <1>6, <1>7, WentOn
<1>9. QED
  BY <1>6, <1>8 DEF Keeps

LEMMA ReplenishGoes ==
  ASSUME ShapeInv, Replenish
  PROVE  /\ StackOk(stack') /\ Runs(stack, stack') /\ KeepsAll(Top, Top')
         /\ Top.fn = "malloc" /\ Top.pc = "replenish" /\ Top'.pc \in {"pool", "load"}
<1>1. /\ stack # <<>> /\ Top.fn = "malloc" /\ Top.pc = "replenish" /\ FrameOk(Top)
      /\ Top \in Frames
  BY AtTop DEF Replenish
<1>2. PICK p \in {"pool", "load"} : GoTo(p)
  BY DEF Replenish
<1>3. p \in Labels
  BY DEF Labels
<1>4. MayGo(Top, p)
  BY <1>1 DEF MayGo, KeepsAll, Keeps, FrameOk, MallocFrameOk, FreeFrameOk, ReportFrameOk, TopOk,
              LinkLabels, Removing, Inserting
<1>5. QED
  BY <1>1, <1>2, <1>3, <1>4, Went

(* The three outcomes of Pool. *)
LEMMA PoolGoes ==
  ASSUME ShapeInv, Pool
  PROVE  /\ StackOk(stack') /\ Top.fn = "malloc" /\ Top.pc = "pool" /\ stack # <<>>
         /\ \/ /\ Runs(stack, stack') /\ Keeps(Top, Top')
               /\ Top'.pc = "in1" /\ Top'.list = "free"
               /\ Top'.elm \in fresh /\ fresh' = fresh \ {Top'.elm} /\ live' = live
               /\ magic' = [magic EXCEPT ![Top'.elm] = "free"]
            \/ /\ Enters(stack, stack') /\ KeepsAll(Top, stack'[Len(stack)])
               /\ stack'[Len(stack)].pc = "pool" /\ Top' = ReportFrame("oom")
               /\ UNCHANGED <<fresh, live, magic>>
            \/ Ended /\ UNCHANGED <<fresh, live, magic>>
            \/ /\ Len(stack) > 1 /\ Hands(stack, stack', NoBlock)
               /\ UNCHANGED <<fresh, live, magic>>
<1>1. /\ stack # <<>> /\ Top.fn = "malloc" /\ Top.pc = "pool" /\ FrameOk(Top) /\ TopOk(Top)
      /\ Top \in Frames
  BY AtTop DEF Pool
<1>2. CASE fresh # {}
  <2>1. PICK b \in fresh : /\ fresh' = fresh \ {b} /\ UNCHANGED live
                           /\ magic' = [magic EXCEPT ![b] = "free"]
                           /\ Become([Top EXCEPT !.pc = "in1", !.elm = b, !.list = "free"])
    BY <1>2 DEF Pool
  <2> DEFINE f == [Top EXCEPT !.pc = "in1", !.elm = b, !.list = "free"]
  <2>2. "in1" \in Labels /\ "free" \in Lists /\ b \in Cell /\ b \in Blocks
    BY DEF Labels, Lists, Cell, ShapeInv, DataOk
  <2>4. Become(f) /\ MovesTo(f, Top, "in1", b, "free")
    BY <2>1 DEF MovesTo
  <2> HIDE DEF f
  <2>3. /\ f \in Frames /\ f.fn = Top.fn /\ f.pc = "in1" /\ f.elm = b
        /\ f.list = "free" /\ f.mine = Top.mine /\ f.why = Top.why /\ f.seen = Top.seen
    BY <1>1, <2>2, <2>4, MovedOn
  <2>5. FrameOk(f) /\ TopOk(f) /\ SameCall(Top, f)
    BY <1>1, <2>2, <2>3 DEF FrameOk, MallocFrameOk, FreeFrameOk, ReportFrameOk, TopOk, SameCall,
                            LinkLabels, Removing, Inserting
  <2>6. StackOk(stack') /\ Runs(stack, stack') /\ Top' = f
    BY <1>1, <2>3, <2>4, <2>5, WentOn
  <2>7. QED
    BY <1>1, <2>1, <2>3, <2>6 DEF Keeps
<1>3. CASE fresh = {} /\ AbortOnOOM
  <2>1. CallFrom(Top, ReportFrame("oom")) /\ UNCHANGED <<fresh, live, magic>>
    BY <1>3 DEF Pool
  <2>2. /\ ReportFrame("oom") \in Frames /\ FrameOk(ReportFrame("oom"))
        /\ TopOk(ReportFrame("oom"))
    BY FrameType
  <2>3. Calls(Top, ReportFrame("oom")) /\ SameCall(Top, Top)
    BY <1>1 DEF Calls, ReportFrame, Frame, SameCall
  <2>4. /\ StackOk(stack') /\ Enters(stack, stack')
        /\ stack'[Len(stack)] = Top /\ Top' = ReportFrame("oom")
    BY <1>1, <2>1, <2>2, <2>3, Called
  <2>5. QED
    BY <1>1, <2>1, <2>4 DEF KeepsAll, Keeps
<1>4. CASE fresh = {} /\ ~AbortOnOOM
  <2>1. Return(NoBlock) /\ UNCHANGED <<fresh, magic>>
    BY <1>4 DEF Pool
  <2>2. NoBlock \in Cell /\ Answers(Top, NoBlock)
    BY <1>1 DEF Cell, Answers
  <2>3. /\ StackOk(stack')
        /\ \/ Ended /\ live' = live \cup ({NoBlock} \ {NoBlock})
           \/ Len(stack) > 1 /\ Hands(stack, stack', NoBlock) /\ live' = live
    BY <1>1, <2>1, <2>2, Returned
  <2>4. live \cup ({NoBlock} \ {NoBlock}) = live
    OBVIOUS
  <2>5. QED
    BY <1>1, <2>1, <2>3, <2>4
<1>5. QED
  BY <1>2, <1>3, <1>4

LEMMA FilledGoes ==
  ASSUME ShapeInv, Filled
  PROVE  /\ StackOk(stack') /\ Runs(stack, stack') /\ KeepsAll(Top, Top')
         /\ Top.fn = "malloc" /\ Top.pc = "linked" /\ Top.list = "free"
         /\ Top'.pc \in {"pool", "load"} /\ Top.elm \in Blocks
<1>1. /\ stack # <<>> /\ Top.fn = "malloc" /\ Top.pc = "linked" /\ FrameOk(Top)
      /\ Top \in Frames /\ Top.list = "free"
  BY AtTop DEF Filled
<1>2. PICK p \in {"pool", "load"} : GoTo(p)
  BY DEF Filled
<1>3. p \in Labels
  BY DEF Labels
<1>4. MayGo(Top, p) /\ Top.elm \in Blocks
  BY <1>1 DEF MayGo, KeepsAll, Keeps, FrameOk, MallocFrameOk, FreeFrameOk, ReportFrameOk, TopOk,
              LinkLabels, Removing, Inserting
<1>5. QED
  BY <1>1, <1>2, <1>3, <1>4, Went

LEMMA LoadGoes ==
  ASSUME ShapeInv, Load
  PROVE  /\ StackOk(stack') /\ Runs(stack, stack') /\ Keeps(Top, Top')
         /\ Top.fn = "malloc" /\ Top.pc = "load"
         /\ Top'.pc = "rm1" /\ Top'.elm = head["free"] /\ Top'.list = "free"
         /\ head["free"] \in Blocks
<1>1. /\ stack # <<>> /\ Top.fn = "malloc" /\ Top.pc = "load" /\ FrameOk(Top)
      /\ Top \in Frames
  BY AtTop DEF Load
<1>2. head["free"] \in Blocks /\ head["free"] \in Cell /\ "rm1" \in Labels /\ "free" \in Lists
  BY DEF Load, ShapeInv, DataOk, Cell, Lists, Labels
<1> DEFINE f == [Top EXCEPT !.pc = "rm1", !.elm = head["free"], !.list = "free"]
<1>4. Become(f) /\ MovesTo(f, Top, "rm1", head["free"], "free")
  BY DEF Load, MovesTo
<1> HIDE DEF f
<1>3. /\ f \in Frames /\ f.fn = Top.fn /\ f.pc = "rm1" /\ f.elm = head["free"]
      /\ f.list = "free" /\ f.mine = Top.mine /\ f.why = Top.why /\ f.seen = Top.seen
  BY <1>1, <1>2, <1>4, MovedOn
<1>5. FrameOk(f) /\ TopOk(f) /\ SameCall(Top, f)
  BY <1>1, <1>2, <1>3 DEF FrameOk, MallocFrameOk, FreeFrameOk, ReportFrameOk, TopOk, SameCall,
                          LinkLabels, Removing, Inserting
<1>6. StackOk(stack') /\ Runs(stack, stack') /\ Top' = f
  BY <1>1, <1>3, <1>4, <1>5, WentOn
<1>7. QED
  BY <1>1, <1>2, <1>3, <1>6 DEF Keeps

(* The running frame moves to another label, and calls c there. *)
CallsAt(p, c) ==
  /\ Enters(stack, stack') /\ KeepsAll(Top, stack'[Len(stack)])
  /\ stack'[Len(stack)].pc = p /\ Top' = c

LEMMA CallsFrom ==
  ASSUME ShapeInv, stack # <<>>, NEW p \in Labels, MayWait(Top, p),
         NEW c \in Frames, FrameOk(c), TopOk(c), MayCall(Top, p, c),
         CallFrom([Top EXCEPT !.pc = p], c)
  PROVE  StackOk(stack') /\ CallsAt(p, c)
<1>1. Top \in Frames
  BY TopFacts
<1> DEFINE f == [Top EXCEPT !.pc = p]
<1>2. /\ f \in Frames /\ f.fn = Top.fn /\ f.pc = p /\ f.elm = Top.elm /\ f.list = Top.list
      /\ f.mine = Top.mine /\ f.why = Top.why /\ f.seen = Top.seen
  BY <1>1, Moved
<1>3. CallFrom(f, c)
  OBVIOUS
<1> HIDE DEF f
<1>4. FrameOk(f) /\ SameCall(Top, f) /\ KeepsAll(Top, f)
  BY <1>2 DEF MayWait, KeepsAll, Keeps, SameCall
<1>5. Calls(f, c)
  BY <1>2, <1>4 DEF MayCall
<1>6. /\ StackOk(stack') /\ Enters(stack, stack')
      /\ stack'[Len(stack)] = f /\ Top' = c
  BY <1>2, <1>3, <1>4, <1>5, Called
<1>7. QED
  BY <1>2, <1>4, <1>6 DEF CallsAt

LEMMA CountGoes ==
  ASSUME ShapeInv, Count
  PROVE  /\ StackOk(stack') /\ Top.fn = "malloc" /\ Top.pc = "linked" /\ Top.list = "inuse"
         /\ Top.elm \in Blocks
         /\ \/ /\ Runs(stack, stack') /\ KeepsAll(Top, Top') /\ Top'.pc = "limit"
               /\ hwm' <= lastDump + DumpInterval /\ lastDump' = lastDump
            \/ /\ CallsAt("limit", ReportFrame("hwm"))
               /\ hwm' > lastDump + DumpInterval /\ lastDump' = hwm'
<1>1. /\ stack # <<>> /\ Top.fn = "malloc" /\ Top.pc = "linked" /\ FrameOk(Top)
      /\ Top \in Frames /\ Top.list = "inuse"
  BY AtTop DEF Count
<1>2. Top.elm \in Blocks /\ "limit" \in Labels /\ MayGo(Top, "limit") /\ MayWait(Top, "limit")
  BY <1>1 DEF MayGo, MayWait, KeepsAll, Keeps, FrameOk, MallocFrameOk, FreeFrameOk,
              ReportFrameOk, TopOk, LinkLabels, Removing, Inserting, Labels
<1>3. CASE hwm' > lastDump + DumpInterval
  <2>1. lastDump' = hwm' /\ CallFrom([Top EXCEPT !.pc = "limit"], ReportFrame("hwm"))
    BY <1>3 DEF Count
  <2>2. /\ ReportFrame("hwm") \in Frames /\ FrameOk(ReportFrame("hwm"))
        /\ TopOk(ReportFrame("hwm"))
    BY FrameType
  <2>3. MayCall(Top, "limit", ReportFrame("hwm"))
    BY <1>1 DEF MayCall, Calls, ReportFrame, Frame, KeepsAll, Keeps
  <2>4. StackOk(stack') /\ CallsAt("limit", ReportFrame("hwm"))
    BY <1>1, <1>2, <2>1, <2>2, <2>3, CallsFrom
  <2>5. QED
    BY <1>1, <1>2, <1>3, <2>1, <2>4
<1>4. CASE ~(hwm' > lastDump + DumpInterval)
  <2>1. GoTo("limit") /\ lastDump' = lastDump
    BY <1>4 DEF Count
  <2>2. /\ StackOk(stack') /\ Runs(stack, stack')
        /\ Top' \in Frames /\ KeepsAll(Top, Top') /\ Top'.pc = "limit"
    BY <1>1, <1>2, <2>1, Went
  <2>3. hwm' <= lastDump + DumpInterval
    <3>1. hwm' \in Int /\ lastDump \in Int /\ DumpInterval \in Int
      <4>1. requested \in Nat /\ freed \in Nat /\ hwm \in Nat /\ lastDump \in Nat
            /\ DumpInterval \in Nat
        BY ListsAssumption DEF ShapeInv, DataOk
      <4>2. hwm' = IF requested + 1 - freed > hwm THEN requested + 1 - freed ELSE hwm
        BY DEF Count
      <4>3. QED
        BY <4>1, <4>2
    <3>2. QED
      BY <1>4, <3>1
  <2>4. QED
    BY <1>1, <1>2, <2>1, <2>2, <2>3
<1>5. QED
  BY <1>3, <1>4

LEMMA LimitGoes ==
  ASSUME ShapeInv, Limit
  PROVE  /\ StackOk(stack') /\ Top.fn = "malloc" /\ Top.pc = "limit" /\ Top.elm \in Blocks
         /\ \/ Runs(stack, stack') /\ KeepsAll(Top, Top') /\ Top'.pc = "publish"
            \/ CallsAt("limit", ReportFrame("limit"))
<1>1. /\ stack # <<>> /\ Top.fn = "malloc" /\ Top.pc = "limit" /\ FrameOk(Top)
      /\ Top \in Frames
  BY AtTop DEF Limit
<1>2. Top.elm \in Blocks /\ "publish" \in Labels /\ MayGo(Top, "publish")
  BY <1>1 DEF MayGo, KeepsAll, Keeps, FrameOk, MallocFrameOk, FreeFrameOk, ReportFrameOk, TopOk,
              LinkLabels, Removing, Inserting, Labels
<1>3. CASE requested > MaxRequestedBytes
  <2>1. CallFrom(Top, ReportFrame("limit"))
    BY <1>3 DEF Limit
  <2>2. /\ ReportFrame("limit") \in Frames /\ FrameOk(ReportFrame("limit"))
        /\ TopOk(ReportFrame("limit"))
    BY FrameType
  <2>3. Calls(Top, ReportFrame("limit")) /\ SameCall(Top, Top)
    BY <1>1 DEF Calls, ReportFrame, Frame, SameCall
  <2>4. /\ StackOk(stack') /\ Enters(stack, stack')
        /\ stack'[Len(stack)] = Top /\ Top' = ReportFrame("limit")
    BY <1>1, <2>1, <2>2, <2>3, Called
  <2>5. QED
    BY <1>1, <1>2, <2>4 DEF CallsAt, KeepsAll, Keeps
<1>4. CASE ~(requested > MaxRequestedBytes)
  <2>1. GoTo("publish")
    BY <1>4 DEF Limit
  <2>2. QED
    BY <1>1, <1>2, <2>1, Went
<1>5. QED
  BY <1>3, <1>4

(* The call gives b to its caller: the program, or a report. *)
GivesBack(b) ==
  \/ Ended /\ live' = live \cup ({b} \ {NoBlock})
  \/ Len(stack) > 1 /\ Hands(stack, stack', b) /\ live' = live

LEMMA PublishGoes ==
  ASSUME ShapeInv, Publish
  PROVE  /\ StackOk(stack') /\ Top.fn = "malloc" /\ Top.pc = "publish" /\ Top.elm \in Blocks
         /\ stack # <<>>
         /\ \/ /\ magic' = [magic EXCEPT ![Top.elm] = "inuse"]
               /\ GivesBack(Top.elm) /\ aborted' = aborted
            \/ stack' = stack /\ live' = live /\ magic' = magic /\ aborted' = TRUE
<1>1. /\ stack # <<>> /\ Top.fn = "malloc" /\ Top.pc = "publish" /\ FrameOk(Top)
  BY AtTop DEF Publish
<1>2. Top.elm \in Blocks /\ Top.elm \in Cell /\ Answers(Top, Top.elm)
  <2>1. Top.elm \in Blocks
    <3>1. MallocFrameOk(Top) /\ Top.pc = "publish"
      BY <1>1 DEF FrameOk, FreeFrameOk, ReportFrameOk
    <3>2. QED
      BY <3>1 DEF MallocFrameOk, LinkLabels, Removing, Inserting
  <2>2. QED
    BY <1>1, <2>1 DEF Answers, Cell
<1>3. CASE magic[Top.elm] = "free"
  <2>1. /\ Return(Top.elm) /\ magic' = [magic EXCEPT ![Top.elm] = "inuse"]
        /\ aborted' = aborted
    BY <1>3 DEF Publish
  <2>2. StackOk(stack') /\ GivesBack(Top.elm)
    BY <1>1, <1>2, <2>1, Returned DEF GivesBack
  <2>3. QED
    BY <1>1, <1>2, <2>1, <2>2
<1>4. CASE magic[Top.elm] # "free"
  <2>1. stack' = stack /\ live' = live /\ magic' = magic /\ aborted' = TRUE
    BY <1>4 DEF Publish
  <2>2. StackOk(stack')
    BY <2>1 DEF ShapeInv
  <2>3. QED
    BY <1>1, <1>2, <2>1, <2>2
<1>5. QED
  BY <1>3, <1>4

LEMMA MarkGoes ==
  ASSUME ShapeInv, Mark
  PROVE  /\ StackOk(stack') /\ Top.fn = "free" /\ Top.pc = "mark" /\ Top.elm \in Blocks
         /\ stack # <<>>
         /\ \/ /\ Runs(stack, stack') /\ Keeps(Top, Top')
               /\ Top'.pc = "rm1" /\ Top'.elm = Top.elm /\ Top'.list = "inuse"
               /\ magic' = [magic EXCEPT ![Top.elm] = "free"]
               /\ freed' = freed + 1 /\ aborted' = aborted
            \/ UNCHANGED <<stack, magic, freed>> /\ aborted' = TRUE
<1>1. /\ stack # <<>> /\ Top.fn = "free" /\ Top.pc = "mark" /\ FrameOk(Top) /\ Top \in Frames
  BY AtTop DEF Mark
<1>2. Top.elm \in Blocks
  BY <1>1 DEF FrameOk, MallocFrameOk, FreeFrameOk, ReportFrameOk
<1>3. CASE magic[Top.elm] = "inuse"
  <2> DEFINE f == [Top EXCEPT !.pc = "rm1", !.list = "inuse"]
  <2>1. "rm1" \in Labels /\ "inuse" \in Lists
    BY DEF Labels, Lists
  <2>2. Become(f) /\ TurnsTo(f, Top, "rm1", "inuse")
    BY <1>3 DEF Mark, TurnsTo
  <2> HIDE DEF f
  <2>3. /\ f \in Frames /\ f.fn = Top.fn /\ f.pc = "rm1" /\ f.elm = Top.elm
        /\ f.list = "inuse" /\ f.mine = Top.mine /\ f.why = Top.why /\ f.seen = Top.seen
    BY <1>1, <2>1, <2>2, Turned
  <2>4. FrameOk(f) /\ TopOk(f) /\ SameCall(Top, f)
    BY <1>1, <2>3 DEF FrameOk, MallocFrameOk, FreeFrameOk, ReportFrameOk, TopOk, SameCall,
                      LinkLabels, Removing, Inserting
  <2>5. StackOk(stack') /\ Runs(stack, stack') /\ Top' = f
    BY <1>1, <2>2, <2>3, <2>4, WentOn
  <2>6. /\ magic' = [magic EXCEPT ![Top.elm] = "free"]
        /\ freed' = freed + 1 /\ aborted' = aborted
    BY <1>3 DEF Mark
  <2>7. QED
    BY <1>1, <1>2, <2>3, <2>5, <2>6 DEF Keeps
<1>4. CASE magic[Top.elm] # "inuse"
  <2>1. UNCHANGED <<stack, magic, freed>> /\ aborted' = TRUE
    BY <1>4 DEF Mark
  <2>2. StackOk(stack')
    BY <2>1 DEF ShapeInv
  <2>3. QED
    BY <1>1, <1>2, <2>1, <2>2
<1>5. QED
  BY <1>3, <1>4

LEMMA PutGoes ==
  ASSUME ShapeInv, Put
  PROVE  /\ StackOk(stack') /\ Top.fn = "free" /\ Top.pc = "linked" /\ Top.elm \in Blocks
         /\ Top.list = "free" /\ stack # <<>> /\ GivesBack(NoBlock)
<1>1. /\ stack # <<>> /\ Top.fn = "free" /\ Top.pc = "linked" /\ FrameOk(Top)
  BY AtTop DEF Put
<1>2. Top.elm \in Blocks /\ Top.list = "free" /\ Answers(Top, NoBlock) /\ NoBlock \in Cell
  BY <1>1 DEF FrameOk, MallocFrameOk, FreeFrameOk, ReportFrameOk, Answers, Cell, LinkLabels,
              Removing, Inserting
<1>3. Return(NoBlock)
  BY DEF Put
<1>4. QED
  BY <1>1, <1>2, <1>3, Returned DEF GivesBack

LEMMA ReportTop ==
  ASSUME ShapeInv, NEW pc, At("report", pc)
  PROVE  /\ stack # <<>> /\ ~aborted /\ Top.fn = "report" /\ Top.pc = pc
         /\ Top \in Frames /\ ReportFrameOk(Top) /\ TopOk(Top)
         /\ Top.elm \in Cell /\ Top.mine \in Cell
<1>1. /\ stack # <<>> /\ ~aborted /\ Top.fn = "report" /\ Top.pc = pc
      /\ Top \in Frames /\ FrameOk(Top) /\ TopOk(Top)
      /\ Top.elm \in Cell /\ Top.mine \in Cell
  BY AtTop
<1>2. ReportFrameOk(Top)
  BY <1>1 DEF FrameOk, MallocFrameOk, FreeFrameOk
<1>3. QED
  BY <1>1, <1>2

LEMMA OpenGoes ==
  ASSUME ShapeInv, Open
  PROVE  /\ StackOk(stack') /\ CallsAt("close", MallocFrame)
         /\ Top.fn = "report" /\ Top.pc = "open"
<1>1. /\ stack # <<>> /\ Top.fn = "report" /\ Top.pc = "open" /\ ReportFrameOk(Top)
  BY ReportTop DEF Open
<1>2. CallFrom([Top EXCEPT !.pc = "close"], MallocFrame)
  BY DEF Open
<1>3. "close" \in Labels /\ MayWait(Top, "close") /\ MayCall(Top, "close", MallocFrame)
  BY <1>1 DEF Labels, MayWait, MayCall, KeepsAll, Keeps, FrameOk, ReportFrameOk, Calls,
              MallocFrame, Frame
<1>4. MallocFrame \in Frames /\ FrameOk(MallocFrame) /\ TopOk(MallocFrame)
  BY FrameType
<1>5. QED
  BY <1>1, <1>2, <1>3, <1>4, CallsFrom

LEMMA CloseGoes ==
  ASSUME ShapeInv, Close
  PROVE  /\ StackOk(stack') /\ CallsAt("locale", FreeFrame(Top.mine))
         /\ Top.fn = "report" /\ Top.pc = "close" /\ Top.mine \in Blocks
<1>1. /\ stack # <<>> /\ Top.fn = "report" /\ Top.pc = "close" /\ ReportFrameOk(Top)
      /\ Top.mine \in Cell
  BY ReportTop DEF Close
<1>2. CallFrom([Top EXCEPT !.pc = "locale"], FreeFrame(Top.mine)) /\ Top.mine \in Blocks
  BY <1>1 DEF Close, Cell
<1>3. /\ "locale" \in Labels /\ MayWait(Top, "locale")
      /\ MayCall(Top, "locale", FreeFrame(Top.mine))
  BY <1>1 DEF Labels, MayWait, MayCall, KeepsAll, Keeps, FrameOk, ReportFrameOk, Calls,
              FreeFrame, Frame
<1>4. /\ FreeFrame(Top.mine) \in Frames /\ FrameOk(FreeFrame(Top.mine))
      /\ TopOk(FreeFrame(Top.mine))
  BY <1>2, FrameType
<1>5. QED
  BY <1>1, <1>2, <1>3, <1>4, CallsFrom

LEMMA SetLocaleGoes ==
  ASSUME ShapeInv, SetLocale
  PROVE  /\ StackOk(stack') /\ CallsAt("kept", MallocFrame)
         /\ Top.fn = "report" /\ Top.pc = "locale"
<1>1. /\ stack # <<>> /\ Top.fn = "report" /\ Top.pc = "locale" /\ ReportFrameOk(Top)
      /\ Top.why = "signal" /\ TopOk(Top)
  BY ReportTop DEF SetLocale
<1>2. CallFrom([Top EXCEPT !.pc = "kept"], MallocFrame)
  BY DEF SetLocale
<1>3. "kept" \in Labels /\ MayWait(Top, "kept") /\ MayCall(Top, "kept", MallocFrame)
  BY <1>1 DEF Labels, MayWait, MayCall, KeepsAll, Keeps, FrameOk, ReportFrameOk, Calls,
              MallocFrame, Frame, TopOk
<1>4. MallocFrame \in Frames /\ FrameOk(MallocFrame) /\ TopOk(MallocFrame)
  BY FrameType
<1>5. QED
  BY <1>1, <1>2, <1>3, <1>4, CallsFrom

LEMMA KeepGoes ==
  ASSUME ShapeInv, Keep
  PROVE  /\ StackOk(stack') /\ Runs(stack, stack') /\ KeepsAll(Top, Top') /\ Top'.pc = "walk"
         /\ Top.fn = "report" /\ Top.pc = "kept" /\ Top.mine \in Blocks /\ Top.why = "signal"
<1>1. /\ stack # <<>> /\ Top.fn = "report" /\ Top.pc = "kept" /\ ReportFrameOk(Top)
      /\ Top.mine \in Cell
  BY ReportTop DEF Keep
<1>2. GoTo("walk") /\ Top.mine \in Blocks
  BY <1>1 DEF Keep, Cell
<1>3. "walk" \in Labels /\ MayGo(Top, "walk")
  BY <1>1 DEF Labels, MayGo, KeepsAll, Keeps, FrameOk, ReportFrameOk, TopOk
<1>4. Top.why = "signal"
  BY <1>1 DEF ReportFrameOk
<1>5. QED
  BY <1>1, <1>2, <1>3, <1>4, Went

LEMMA WalkGoes ==
  ASSUME ShapeInv, Walk
  PROVE  /\ StackOk(stack') /\ Runs(stack, stack')
         /\ Top.fn = "report" /\ Top.pc \in {"locale", "walk"} /\ ReportFrameOk(Top) /\ TopOk(Top)
         /\ Top'.fn = "report" /\ Top'.why = Top.why /\ Top'.seen = Top.seen
         /\ Top'.pc = "print" /\ Top'.elm = head["inuse"] /\ Top'.mine = NoBlock
<1>1. /\ stack # <<>> /\ Top.fn = "report" /\ Top.pc \in {"locale", "walk"}
      /\ ReportFrameOk(Top) /\ Top \in Frames /\ TopOk(Top)
  BY ReportTop DEF Walk
<1>2. head["inuse"] \in Cell /\ "print" \in Labels
  BY DEF ShapeInv, DataOk, Lists, Labels
<1> DEFINE f == [Top EXCEPT !.pc = "print", !.elm = head["inuse"], !.mine = NoBlock]
<1>3. Become(f) /\ StepsTo(f, Top, "print", head["inuse"])
  BY DEF Walk, StepsTo
<1> HIDE DEF f
<1>4. /\ f \in Frames /\ f.fn = Top.fn /\ f.pc = "print" /\ f.elm = head["inuse"]
      /\ f.mine = NoBlock /\ f.why = Top.why /\ f.seen = Top.seen
  BY <1>1, <1>2, <1>3, Stepped
<1>5. FrameOk(f) /\ TopOk(f) /\ SameCall(Top, f)
  BY <1>1, <1>4 DEF FrameOk, ReportFrameOk, TopOk, SameCall
<1>6. StackOk(stack') /\ Runs(stack, stack') /\ Top' = f
  BY <1>1, <1>3, <1>4, <1>5, WentOn
<1>7. QED
  BY <1>1, <1>4, <1>6

LEMMA PrintAllocatesGoes ==
  ASSUME ShapeInv, PrintElmAllocates
  PROVE  /\ StackOk(stack') /\ Enters(stack, stack') /\ Top' = MallocFrame
         /\ Top.fn = "report" /\ Top.pc = "print" /\ Top.elm \in Blocks /\ Top.mine = NoBlock
         /\ LET f == stack'[Len(stack)]
            IN  /\ f.fn = "report" /\ f.why = Top.why /\ f.seen = Top.seen \cup {Top.elm}
                /\ f.pc = "printed" /\ f.elm = Top.elm /\ f.mine = NoBlock
<1>1. /\ stack # <<>> /\ Top.fn = "report" /\ Top.pc = "print"
      /\ ReportFrameOk(Top) /\ Top \in Frames /\ Top.elm \in Cell
  BY ReportTop DEF PrintElmAllocates
<1>2. Top.elm \in Blocks /\ Top.mine = NoBlock /\ "printed" \in Labels
  BY <1>1 DEF PrintElmAllocates, Cell, ReportFrameOk, Labels
<1> DEFINE f == [Top EXCEPT !.pc = "printed", !.seen = @ \cup {Top.elm}]
<1>3. CallFrom(f, MallocFrame) /\ SeesMore(f, Top, "printed", Top.elm)
  BY DEF PrintElmAllocates, SeesMore
<1> HIDE DEF f
<1>4. /\ f \in Frames /\ f.fn = Top.fn /\ f.pc = "printed" /\ f.elm = Top.elm
      /\ f.mine = Top.mine /\ f.why = Top.why /\ f.seen = Top.seen \cup {Top.elm}
  BY <1>1, <1>2, <1>3, Saw
<1>5. FrameOk(f) /\ SameCall(Top, f) /\ Calls(f, MallocFrame)
  BY <1>1, <1>2, <1>4 DEF FrameOk, ReportFrameOk, SameCall, Calls, MallocFrame, Frame
<1>6. MallocFrame \in Frames /\ FrameOk(MallocFrame) /\ TopOk(MallocFrame)
  BY FrameType
<1>7. /\ StackOk(stack') /\ Enters(stack, stack')
      /\ stack'[Len(stack)] = f /\ Top' = MallocFrame
  BY <1>1, <1>3, <1>4, <1>5, <1>6, Called
<1>8. QED
  BY <1>1, <1>2, <1>4, <1>7

LEMMA PrintGoes ==
  ASSUME ShapeInv, PrintElm
  PROVE  /\ StackOk(stack') /\ Runs(stack, stack')
         /\ Top.fn = "report" /\ Top.pc = "print" /\ Top.elm \in Blocks
         /\ Top'.fn = "report" /\ Top'.why = Top.why /\ Top'.seen = Top.seen \cup {Top.elm}
         /\ Top'.pc = "advance" /\ Top'.elm = Top.elm /\ Top'.mine = NoBlock
<1>1. /\ stack # <<>> /\ Top.fn = "report" /\ Top.pc = "print"
      /\ ReportFrameOk(Top) /\ Top \in Frames /\ Top.elm \in Cell
  BY ReportTop DEF PrintElm
<1>2. Top.elm \in Blocks /\ Top.mine = NoBlock /\ "advance" \in Labels
  BY <1>1 DEF PrintElm, Cell, ReportFrameOk, Labels
<1> DEFINE f == [Top EXCEPT !.pc = "advance", !.seen = @ \cup {Top.elm}]
<1>3. Become(f) /\ SeesMore(f, Top, "advance", Top.elm)
  BY DEF PrintElm, SeesMore
<1> HIDE DEF f
<1>4. /\ f \in Frames /\ f.fn = Top.fn /\ f.pc = "advance" /\ f.elm = Top.elm
      /\ f.mine = Top.mine /\ f.why = Top.why /\ f.seen = Top.seen \cup {Top.elm}
  BY <1>1, <1>2, <1>3, Saw
<1>5. FrameOk(f) /\ TopOk(f) /\ SameCall(Top, f)
  BY <1>1, <1>2, <1>4 DEF FrameOk, ReportFrameOk, SameCall, TopOk
<1>6. StackOk(stack') /\ Runs(stack, stack') /\ Top' = f
  BY <1>1, <1>3, <1>4, <1>5, WentOn
<1>7. QED
  BY <1>1, <1>2, <1>4, <1>6

LEMMA PrintedGoes ==
  ASSUME ShapeInv, Printed
  PROVE  /\ StackOk(stack') /\ Top.fn = "report" /\ Top.pc = "printed" /\ Top.elm \in Blocks
         /\ \/ Runs(stack, stack') /\ KeepsAll(Top, Top') /\ Top'.pc = "advance"
               /\ Top.mine = NoBlock
            \/ CallsAt("advance", FreeFrame(Top.mine)) /\ Top.mine \in Blocks
<1>1. /\ stack # <<>> /\ Top.fn = "report" /\ Top.pc = "printed" /\ ReportFrameOk(Top)
      /\ Top.mine \in Cell
  BY ReportTop DEF Printed
<1>2. Top.elm \in Blocks /\ "advance" \in Labels
  BY <1>1 DEF ReportFrameOk, Labels
<1>3. CASE Top.mine = NoBlock
  <2>1. GoTo("advance")
    BY <1>3 DEF Printed
  <2>2. MayGo(Top, "advance")
    BY <1>1, <1>2, <1>3 DEF MayGo, KeepsAll, Keeps, FrameOk, ReportFrameOk, TopOk
  <2>3. QED
    BY <1>1, <1>2, <1>3, <2>1, <2>2, Went
<1>4. CASE Top.mine # NoBlock
  <2>1. CallFrom([Top EXCEPT !.pc = "advance"], FreeFrame(Top.mine)) /\ Top.mine \in Blocks
    BY <1>1, <1>4 DEF Printed, Cell
  <2>2. MayWait(Top, "advance") /\ MayCall(Top, "advance", FreeFrame(Top.mine))
    BY <1>1, <1>2 DEF MayWait, MayCall, KeepsAll, Keeps, FrameOk, ReportFrameOk, Calls,
                      FreeFrame, Frame
  <2>3. /\ FreeFrame(Top.mine) \in Frames /\ FrameOk(FreeFrame(Top.mine))
        /\ TopOk(FreeFrame(Top.mine))
    BY <2>1, FrameType
  <2>4. QED
    BY <1>1, <1>2, <2>1, <2>2, <2>3, CallsFrom
<1>5. QED
  BY <1>3, <1>4

LEMMA AdvanceGoes ==
  ASSUME ShapeInv, Advance
  PROVE  /\ StackOk(stack') /\ Runs(stack, stack')
         /\ Top.fn = "report" /\ Top.pc = "advance" /\ Top.elm \in Blocks
         /\ Top'.fn = "report" /\ Top'.why = Top.why /\ Top'.seen = Top.seen
         /\ Top'.pc = "print" /\ Top'.elm = next[Top.elm] /\ Top'.mine = NoBlock
<1>1. /\ stack # <<>> /\ Top.fn = "report" /\ Top.pc = "advance"
      /\ ReportFrameOk(Top) /\ Top \in Frames
  BY ReportTop DEF Advance
<1>2. Top.elm \in Blocks /\ "print" \in Labels
  BY <1>1 DEF ReportFrameOk, Labels
<1>3. next[Top.elm] \in Cell
  BY <1>2 DEF ShapeInv, DataOk
<1> DEFINE f == [Top EXCEPT !.pc = "print", !.elm = next[Top.elm], !.mine = NoBlock]
<1>4. Become(f) /\ StepsTo(f, Top, "print", next[Top.elm])
  BY DEF Advance, StepsTo
<1> HIDE DEF f
<1>5. /\ f \in Frames /\ f.fn = Top.fn /\ f.pc = "print" /\ f.elm = next[Top.elm]
      /\ f.mine = NoBlock /\ f.why = Top.why /\ f.seen = Top.seen
  BY <1>1, <1>2, <1>3, <1>4, Stepped
<1>6. FrameOk(f) /\ TopOk(f) /\ SameCall(Top, f)
  BY <1>1, <1>5 DEF FrameOk, ReportFrameOk, TopOk, SameCall
<1>7. StackOk(stack') /\ Runs(stack, stack') /\ Top' = f
  BY <1>1, <1>4, <1>5, <1>6, WentOn
<1>8. QED
  BY <1>1, <1>2, <1>5, <1>7

LEMMA EndGoes ==
  ASSUME ShapeInv, End
  PROVE  /\ StackOk(stack') /\ Top.fn = "report" /\ Top.pc = "print" /\ Top.elm = NoBlock
         /\ stack # <<>>
         /\ \/ stack' = stack
            \/ Leaves(stack, stack') /\ Top.why \notin {"limit", "oom"}
<1>1. stack # <<>> /\ Top.fn = "report" /\ Top.pc = "print" /\ Top.elm = NoBlock
  BY ReportTop DEF End
<1>2. CASE Top.why \in {"limit", "oom"}
  BY <1>1, <1>2 DEF End, ShapeInv
<1>3. CASE Top.why \notin {"limit", "oom"}
  <2>1. stack' = Front(stack)
    BY <1>3 DEF End, Pop
  <2>2. StackOk(stack) /\ stack[Len(stack)].fn = "report"
    BY <1>1 DEF ShapeInv, Top
  <2>3. StackOk(stack') /\ Leaves(stack, stack')
    BY <1>1, <2>1, <2>2, PopOk
  <2>4. QED
    BY <1>1, <1>3, <2>3
<1>4. QED
  BY <1>2, <1>3

(* The program calls malloc, free, or the signal's report. *)
StartsWith(c) == stack = <<>> /\ stack' # <<>> /\ Len(stack') = 1 /\ stack'[1] = c /\ Top' = c

LEMMA MallocGoes ==
  ASSUME ShapeInv, Malloc
  PROVE  StackOk(stack') /\ StartsWith(MallocFrame)
<1>1. MallocFrame \in Frames /\ FrameOk(MallocFrame) /\ TopOk(MallocFrame)
  BY FrameType
<1>2. stack = <<>> /\ stack' = <<MallocFrame>>
  BY DEF Malloc
<1>3. StackOk(stack') /\ stack' # <<>> /\ Len(stack') = 1 /\ stack'[1] = MallocFrame
  BY <1>1, <1>2, FirstOk
<1>4. QED
  BY <1>2, <1>3 DEF StartsWith, Top

LEMMA FreeGoes ==
  ASSUME ShapeInv, NEW b \in live, Free(b)
  PROVE  StackOk(stack') /\ StartsWith(FreeFrame(b)) /\ b \in Blocks
<1>1. b \in Blocks
  BY DEF ShapeInv, DataOk
<1>2. FreeFrame(b) \in Frames /\ FrameOk(FreeFrame(b)) /\ TopOk(FreeFrame(b))
  BY <1>1, FrameType
<1>3. stack = <<>> /\ stack' = <<FreeFrame(b)>>
  BY DEF Free
<1>4. StackOk(stack') /\ stack' # <<>> /\ Len(stack') = 1 /\ stack'[1] = FreeFrame(b)
  BY <1>2, <1>3, FirstOk
<1>5. QED
  BY <1>1, <1>3, <1>4 DEF StartsWith, Top

LEMMA ReportGoes ==
  ASSUME ShapeInv, Report, ~Signals
  PROVE  StackOk(stack') /\ StartsWith(ReportFrame("signal"))
<1>1. /\ ReportFrame("signal") \in Frames /\ FrameOk(ReportFrame("signal"))
      /\ TopOk(ReportFrame("signal"))
  BY FrameType
<1>2. stack = <<>> /\ stack' = <<ReportFrame("signal")>>
  <2>1. stack = <<>> /\ stack' = Append(stack, ReportFrame("signal"))
    BY DEF Report
  <2>2. QED
    BY <2>1
<1>3. /\ StackOk(stack') /\ stack' # <<>> /\ Len(stack') = 1
      /\ stack'[1] = ReportFrame("signal")
  BY <1>1, <1>2, FirstOk
<1>4. QED
  BY <1>2, <1>3 DEF StartsWith, Top

(***************************************************************************)
(* The shape of every state.                                               *)
(***************************************************************************)
(* Each action, the disjuncts of Next taken apart. *)
LEMMA Actions ==
  ASSUME [Next]_vars
  PROVE  \/ Malloc \/ (\E b \in live : Free(b)) \/ Report
         \/ Remove1 \/ Remove2 \/ Remove3 \/ Remove4 \/ Remove5
         \/ Insert1 \/ Insert2 \/ Insert3 \/ Insert4
         \/ Replenish \/ Pool \/ Filled \/ Load \/ Count \/ Limit \/ Publish
         \/ Mark \/ Put \/ Open \/ Close \/ SetLocale \/ Keep \/ LibraryFails
         \/ Walk \/ PrintElmAllocates \/ PrintElm \/ Printed \/ Advance \/ End
         \/ UNCHANGED vars
BY Zenon DEF Next, Step, Link, Quiet

LEMMA LinkData ==
  ASSUME ShapeInv,
         \/ Remove1 \/ Remove2 \/ Remove3 \/ Remove4 \/ Remove5
         \/ Insert1 \/ Insert2 \/ Insert3 \/ Insert4
  PROVE  DataOk'
<1>1. DataOk /\ StackOk(stack)
  BY DEF ShapeInv
<1>2. PICK p \in LinkLabels : AtLink(p)
  BY DEF Remove1, Remove2, Remove3, Remove4, Remove5, Insert1, Insert2, Insert3, Insert4,
         LinkLabels, Removing, Inserting
<1>3. Top.elm \in Blocks /\ Top.list \in Lists
  BY <1>2, LinkTop
<1>4. /\ next[Top.elm] \in Cell /\ prev[Top.elm] \in Cell /\ head[Top.list] \in Cell
      /\ NoBlock \in Cell /\ Top.elm \in Cell
  BY <1>1, <1>3 DEF DataOk, Cell
<1>5. /\ next' \in [Blocks -> Cell] /\ prev' \in [Blocks -> Cell] /\ head' \in [Lists -> Cell]
  <2>1. CASE Remove1
    BY <1>1, <1>3, <1>4, <2>1 DEF Remove1, DataOk
  <2>2. CASE Remove2
    BY <1>1, <1>3, <1>4, <2>2 DEF Remove2, DataOk
  <2>3. CASE Remove3
    BY <1>1, <1>3, <1>4, <2>3 DEF Remove3, DataOk
  <2>4. CASE Remove4
    BY <1>1, <1>3, <1>4, <2>4 DEF Remove4, DataOk
  <2>5. CASE Remove5
    BY <1>1, <1>3, <1>4, <2>5 DEF Remove5, DataOk
  <2>6. CASE Insert1
    BY <1>1, <1>3, <1>4, <2>6 DEF Insert1, DataOk
  <2>7. CASE Insert2
    BY <1>1, <1>3, <1>4, <2>7 DEF Insert2, DataOk
  <2>8. CASE Insert3
    BY <1>1, <1>3, <1>4, <2>8 DEF Insert3, DataOk
  <2>9. CASE Insert4
    BY <1>1, <1>3, <1>4, <2>9 DEF Insert4, DataOk
  <2>10. QED
    BY <2>1, <2>2, <2>3, <2>4, <2>5, <2>6, <2>7, <2>8, <2>9
<1>6. Written
  BY DEF Remove1, Remove2, Remove3, Remove4, Remove5, Insert1, Insert2, Insert3, Insert4
<1>7. QED
  BY <1>1, <1>5, <1>6 DEF DataOk, Written, stats

LEMMA OtherData ==
  ASSUME ShapeInv, Next,
         ~(\/ Remove1 \/ Remove2 \/ Remove3 \/ Remove4 \/ Remove5
           \/ Insert1 \/ Insert2 \/ Insert3 \/ Insert4)
  PROVE  DataOk'
<1>0. DataOk /\ StackOk(stack)
  BY DEF ShapeInv
<1>1. CASE Malloc
  BY <1>0, <1>1 DEF Malloc, DataOk, links, stats
<1>2. CASE \E b \in live : Free(b)
  BY <1>0, <1>2 DEF Free, DataOk, links, stats
<1>3. CASE Report
  BY <1>0, <1>3 DEF Report, DataOk, links, stats
<1>4. CASE Replenish
  BY <1>0, <1>4 DEF Replenish, DataOk, links, stats
<1>5. CASE Pool
  <2>1. /\ fresh' \subseteq fresh /\ magic' \in [Blocks -> {"zero", "free", "inuse"}]
    BY <1>0, <1>5, PoolGoes DEF DataOk
  <2>2. live' = live
    <3>1. CASE Len(stack) > 1 /\ Hands(stack, stack', NoBlock)
      BY <1>0, <1>5, <3>1, PoolGoes
    <3>2. QED
      BY <1>0, <1>5, <3>1, PoolGoes
  <2>3. gMutex' \in BOOLEAN
    BY <1>0, <1>5 DEF Pool, DataOk
  <2>4. UNCHANGED <<links, numFree, stats, kept, aborted>>
    BY <1>5 DEF Pool
  <2>5. QED
    BY <1>0, <2>1, <2>2, <2>3, <2>4 DEF DataOk, links, stats
<1>6. CASE Filled
  BY <1>0, <1>6 DEF Filled, DataOk, links, stats
<1>7. CASE Load
  BY <1>0, <1>7 DEF Load, DataOk, links, stats
<1>8. CASE Count
  <2>1. /\ numFree' = numFree - 1 /\ requested' = requested + 1
        /\ hwm' = IF requested + 1 - freed > hwm THEN requested + 1 - freed ELSE hwm
        /\ UNCHANGED <<links, magic, freed, fresh, gMutex, live, kept, aborted>>
    BY <1>8 DEF Count
  <2>2. lastDump' = lastDump \/ lastDump' = hwm'
    BY <1>8, CountGoes
  <2>3. hwm' \in Nat
    <3>1. requested \in Nat /\ freed \in Nat /\ hwm \in Nat
      BY <1>0 DEF DataOk
    <3>2. QED
      BY <2>1, <3>1
  <2>4. QED
    BY <1>0, <2>1, <2>2, <2>3 DEF DataOk, links
<1>9. CASE Limit
  BY <1>0, <1>9 DEF Limit, DataOk, links, stats
<1>10. CASE Publish
  <2>1. /\ Top.elm \in Blocks
        /\ magic' = [magic EXCEPT ![Top.elm] = "inuse"] \/ magic' = magic
        /\ live' = live \/ live' = live \cup ({Top.elm} \ {NoBlock})
        /\ aborted' = aborted \/ aborted' = TRUE
    BY <1>10, PublishGoes DEF GivesBack
  <2>2. UNCHANGED <<links, numFree, stats, fresh, gMutex, kept>>
    BY <1>10 DEF Publish
  <2>3. magic' \in [Blocks -> {"zero", "free", "inuse"}] /\ live' \subseteq Blocks
    BY <1>0, <2>1 DEF DataOk
  <2>4. aborted' \in BOOLEAN
    BY <1>0, <2>1 DEF DataOk
  <2>5. QED
    BY <1>0, <2>2, <2>3, <2>4 DEF DataOk, links, stats
<1>11. CASE Mark
  <2>1. /\ magic' = [magic EXCEPT ![Top.elm] = "free"] \/ magic' = magic
        /\ freed' = freed + 1 \/ freed' = freed
        /\ aborted' = aborted \/ aborted' = TRUE
    BY <1>11, MarkGoes
  <2>2. UNCHANGED <<links, numFree, requested, hwm, lastDump, fresh, gMutex, live, kept>>
    BY <1>11 DEF Mark
  <2>3. magic' \in [Blocks -> {"zero", "free", "inuse"}] /\ freed' \in Nat
    BY <1>0, <2>1 DEF DataOk
  <2>4. aborted' \in BOOLEAN
    BY <1>0, <2>1 DEF DataOk
  <2>5. QED
    BY <1>0, <2>2, <2>3, <2>4 DEF DataOk, links
<1>12. CASE Put
  <2>1. live' = live \/ live' = live \cup ({NoBlock} \ {NoBlock})
    BY <1>12, PutGoes DEF GivesBack
  <2>2. UNCHANGED <<links, magic, stats, fresh, gMutex, kept, aborted>> /\ numFree' = numFree + 1
    BY <1>12 DEF Put
  <2>3. QED
    BY <1>0, <2>1, <2>2 DEF DataOk, links, stats
<1>13. CASE Open
  BY <1>0, <1>13 DEF Open, DataOk, links, stats
<1>14. CASE Close
  BY <1>0, <1>14 DEF Close, DataOk, links, stats
<1>15. CASE SetLocale
  BY <1>0, <1>15 DEF SetLocale, DataOk, links, stats
<1>16. CASE Keep
  <2>1. Top.mine \in Blocks
    BY <1>16, KeepGoes
  <2>2. kept' = kept \cup {Top.mine}
        /\ UNCHANGED <<links, magic, numFree, stats, fresh, gMutex, live, aborted>>
    BY <1>16 DEF Keep
  <2>3. QED
    BY <1>0, <2>1, <2>2 DEF DataOk, links, stats
<1>17. CASE LibraryFails
  BY <1>0, <1>17 DEF LibraryFails, DataOk, links, stats
<1>18. CASE Walk
  BY <1>0, <1>18 DEF Walk, DataOk, links, stats
<1>19. CASE PrintElmAllocates
  BY <1>0, <1>19 DEF PrintElmAllocates, DataOk, links, stats
<1>20. CASE PrintElm
  BY <1>0, <1>20 DEF PrintElm, DataOk, links, stats
<1>21. CASE Printed
  BY <1>0, <1>21 DEF Printed, DataOk, links, stats
<1>22. CASE Advance
  BY <1>0, <1>22 DEF Advance, DataOk, links, stats
<1>23. CASE End
  <2>1. aborted' = aborted \/ aborted' = TRUE
    BY <1>23 DEF End
  <2>2. UNCHANGED <<links, magic, numFree, stats, fresh, gMutex, live, kept>>
    BY <1>23 DEF End
  <2>3. aborted' \in BOOLEAN
    BY <1>0, <2>1 DEF DataOk
  <2>4. QED
    BY <1>0, <2>2, <2>3 DEF DataOk, links, stats
<1>24. CASE UNCHANGED vars
  BY <1>0, <1>24 DEF vars, DataOk, links, stats
<1>25. QED
  BY <1>1, <1>2, <1>3, <1>4, <1>5, <1>6, <1>7, <1>8, <1>9, <1>10, <1>11, <1>12, <1>13, <1>14,
     <1>15, <1>16, <1>17, <1>18, <1>19, <1>20, <1>21, <1>22, <1>23, <1>24, Actions, Zenon

LEMMA ShapeStep ==
  ASSUME ShapeInv, ~Signals, [Next]_vars
  PROVE  ShapeInv'
<1>1. DataOk'
  <2>1. CASE UNCHANGED vars
    BY <2>1 DEF vars, ShapeInv, DataOk, links, stats
  <2>2. CASE Next
    BY <2>2, LinkData, OtherData
  <2>3. QED
    BY <2>1, <2>2
<1>2. StackOk(stack')
  <2>1. CASE Remove1 \/ Remove2 \/ Remove3 \/ Remove4
    <3>1. PICK p, q : Follows(p, q) /\ AtLink(p) /\ GoTo(q)
      BY <2>1 DEF Remove1, Remove2, Remove3, Remove4, Follows
    <3>2. QED
      BY <3>1, Linked1
  <2>2. CASE Insert1 \/ Insert2 \/ Insert3 \/ Insert4
    <3>1. PICK p, q : Follows(p, q) /\ AtLink(p) /\ GoTo(q)
      BY <2>2 DEF Insert1, Insert2, Insert3, Insert4, Follows
    <3>2. QED
      BY <3>1, Linked1
  <2>3. CASE LibraryFails \/ UNCHANGED vars
    BY <2>3 DEF LibraryFails, vars, ShapeInv
  <2>4. QED
    BY <2>1, <2>2, <2>3, Actions, MallocGoes, FreeGoes, ReportGoes, Remove5Goes, ReplenishGoes,
       PoolGoes, FilledGoes, LoadGoes, CountGoes, LimitGoes, PublishGoes, MarkGoes, PutGoes,
       OpenGoes, CloseGoes, SetLocaleGoes, KeepGoes, WalkGoes, PrintAllocatesGoes, PrintGoes,
       PrintedGoes, AdvanceGoes, EndGoes, Zenon
<1>3. QED
  BY <1>1, <1>2 DEF ShapeInv

(* The bin that the program starts with. *)
FirstList(s) ==
  /\ s \in Seq(Blocks) /\ Len(s) = HighWater
  /\ \A i, j \in 1 .. Len(s) : s[i] = s[j] => i = j
  /\ head \in [Lists -> Cell] /\ next \in [Blocks -> Cell] /\ prev \in [Blocks -> Cell]
  /\ head["free"] = Nth(s, 1) /\ head["inuse"] = NoBlock
  /\ \A k \in 1 .. Len(s) : next[s[k]] = Nth(s, k + 1) /\ prev[s[k]] = Nth(s, k - 1)
  /\ fresh \subseteq Blocks /\ \A x \in fresh : ~On(s, x)

LEMMA FirstLists ==
  ASSUME Init
  PROVE  \E s : FirstList(s)
<1> DEFINE s == CHOOSE f \in [1 .. HighWater -> Blocks] : IsInjective(f)
           Ranks(b) == {k \in 1 .. HighWater : s[k] = b}
<1>1. HighWater \in Nat /\ HighWater <= Cardinality(Blocks) /\ IsFiniteSet(Blocks)
  BY ListsAssumption
<1>2. \E f \in [1 .. HighWater -> Blocks] : IsInjective(f)
  <2>1. PICK f \in [1 .. Cardinality(Blocks) -> Blocks] : IsInjective(f)
    BY <1>1, FS_CardinalityType DEF ExistsBijection, Bijection, Injection
  <2>2. Cardinality(Blocks) \in Nat
    BY <1>1, FS_CardinalityType
  <2>3. \A k \in 1 .. HighWater : k \in 1 .. Cardinality(Blocks)
    BY <1>1, <2>2
  <2> DEFINE g == [k \in 1 .. HighWater |-> f[k]]
  <2>4. g \in [1 .. HighWater -> Blocks]
    BY <2>3
  <2>5. IsInjective(g)
    BY <2>1, <2>3 DEF IsInjective
  <2>6. QED
    BY <2>4, <2>5
<1>3. s \in [1 .. HighWater -> Blocks] /\ IsInjective(s)
  <2> HIDE DEF Ranks
  <2>1. QED
    BY <1>2
<1>4. /\ head = [l \in Lists |-> IF l = "free" /\ HighWater > 0 THEN s[1] ELSE NoBlock]
      /\ next = [b \in Blocks |-> IF \E k \in Ranks(b) : k < HighWater
                                  THEN s[1 + CHOOSE k \in Ranks(b) : TRUE] ELSE NoBlock]
      /\ prev = [b \in Blocks |-> IF \E k \in Ranks(b) : k > 1
                                  THEN s[(CHOOSE k \in Ranks(b) : TRUE) - 1] ELSE NoBlock]
      /\ fresh = {b \in Blocks : Ranks(b) = {}}
  BY Zenon DEF Init
<1> HIDE DEF s
<1>5. s \in Seq(Blocks) /\ Len(s) = HighWater
  BY <1>1, <1>3
<1>6. \A i, j \in 1 .. HighWater : s[i] = s[j] => i = j
  BY <1>3 DEF IsInjective
<1>7. \A k \in 1 .. HighWater : /\ Ranks(s[k]) = {k} /\ s[k] \in Blocks
                                /\ (CHOOSE j \in Ranks(s[k]) : TRUE) = k
  <2>1. ASSUME NEW k \in 1 .. HighWater PROVE Ranks(s[k]) = {k}
    BY <1>6
  <2>2. ASSUME NEW k \in 1 .. HighWater PROVE (CHOOSE j \in Ranks(s[k]) : TRUE) = k
    <3>1. Ranks(s[k]) = {k}
      BY <2>1
    <3> HIDE DEF Ranks
    <3>2. (CHOOSE j \in Ranks(s[k]) : TRUE) \in Ranks(s[k])
      BY <3>1
    <3>3. QED
      BY <3>1, <3>2
  <2> HIDE DEF Ranks
  <2>3. QED
    BY <1>3, <2>1, <2>2
<1>8. \A b \in Blocks : Ranks(b) = {} \/ \E k \in 1 .. HighWater : b = s[k]
  OBVIOUS
<1> HIDE DEF Ranks
<1>9. \A k \in 1 .. HighWater : next[s[k]] = Nth(s, k + 1)
  <2>1. SUFFICES ASSUME NEW k \in 1 .. HighWater PROVE next[s[k]] = Nth(s, k + 1)
    OBVIOUS
  <2>2. next[s[k]] = IF \E j \in Ranks(s[k]) : j < HighWater
                     THEN s[1 + CHOOSE j \in Ranks(s[k]) : TRUE] ELSE NoBlock
    BY <1>4, <1>7
  <2>3. next[s[k]] = IF k < HighWater THEN s[1 + k] ELSE NoBlock
    BY <1>7, <2>2
  <2>4. QED
    BY <1>1, <1>5, <2>3 DEF Nth
<1>10. \A k \in 1 .. HighWater : prev[s[k]] = Nth(s, k - 1)
  <2>1. SUFFICES ASSUME NEW k \in 1 .. HighWater PROVE prev[s[k]] = Nth(s, k - 1)
    OBVIOUS
  <2>2. prev[s[k]] = IF \E j \in Ranks(s[k]) : j > 1
                     THEN s[(CHOOSE j \in Ranks(s[k]) : TRUE) - 1] ELSE NoBlock
    BY <1>4, <1>7
  <2>3. prev[s[k]] = IF k > 1 THEN s[k - 1] ELSE NoBlock
    BY <1>7, <2>2
  <2>4. QED
    BY <1>1, <1>5, <2>3 DEF Nth
<1>11. ASSUME NEW b \in Blocks PROVE next[b] \in Cell /\ prev[b] \in Cell
  <2>1. CASE Ranks(b) = {}
    BY <1>4, <2>1 DEF Cell
  <2>2. CASE \E k \in 1 .. HighWater : b = s[k]
    <3>1. PICK k \in 1 .. HighWater : b = s[k]
      BY <2>2
    <3>2. next[b] = Nth(s, k + 1) /\ prev[b] = Nth(s, k - 1)
      BY <1>9, <1>10, <3>1
    <3>3. \A j : Nth(s, j) \in Cell
      BY <1>3, <1>5 DEF Nth, Cell
    <3>4. QED
      BY <3>2, <3>3
  <2>3. QED
    BY <1>8, <2>1, <2>2
<1>12. next \in [Blocks -> Cell] /\ prev \in [Blocks -> Cell]
  BY <1>4, <1>11
<1>13. head \in [Lists -> Cell] /\ head["free"] = Nth(s, 1) /\ head["inuse"] = NoBlock
  <2>1. HighWater > 0 => s[1] \in Blocks
    BY <1>1, <1>3
  <2>2. head["free"] = Nth(s, 1) /\ head["inuse"] = NoBlock
    BY <1>1, <1>4, <1>5 DEF Nth, Lists
  <2>3. QED
    BY <1>4, <2>1, <2>2 DEF Cell
<1>14. fresh \subseteq Blocks /\ \A x \in fresh : ~On(s, x)
  BY <1>4, <1>5, <1>7 DEF On
<1>15. FirstList(s)
  BY <1>5, <1>6, <1>9, <1>10, <1>12, <1>13, <1>14 DEF FirstList
<1>16. QED
  BY <1>15

LEMMA ShapeInit ==
  ASSUME Init
  PROVE  ShapeInv
<1>1. PICK s : FirstList(s)
  BY FirstLists
<1>2. magic \in [Blocks -> {"zero", "free", "inuse"}]
  BY DEF Init
<1>3. /\ numFree = HighWater /\ requested = 0 /\ freed = 0 /\ hwm = 0 /\ lastDump = 0
      /\ gMutex = FALSE /\ live = {} /\ kept = {} /\ stack = <<>> /\ aborted = FALSE
  BY DEF Init
<1>4. HighWater \in Nat
  BY ListsAssumption
<1>5. StackOk(stack)
  <2>1. <<>> \in Seq(Frames) /\ Len(<<>>) = 0
    OBVIOUS
  <2>2. QED
    BY <1>3, <2>1 DEF StackOk
<1>6. DataOk
  <2>1. /\ next \in [Blocks -> Cell] /\ prev \in [Blocks -> Cell]
        /\ head \in [Lists -> Cell] /\ fresh \subseteq Blocks
    BY <1>1 DEF FirstList
  <2>2. gMutex \in BOOLEAN /\ aborted \in BOOLEAN
    BY <1>3
  <2>3. /\ numFree \in Int /\ requested \in Nat /\ freed \in Nat /\ hwm \in Nat
        /\ lastDump \in Nat /\ live \subseteq Blocks /\ kept \subseteq Blocks
    BY <1>3, <1>4
  <2>4. QED
    BY <1>2, <2>1, <2>2, <2>3 DEF DataOk
<1>7. QED
  BY <1>5, <1>6 DEF ShapeInv

(***************************************************************************)
(* The nesting of reports, by the way the stack changes.                   *)
(***************************************************************************)
(* The running frame goes on, with what it holds. *)
LEMMA NestRuns ==
  ASSUME NEW st, NEW t, Runs(st, t), t[Len(st)].why = st[Len(st)].why,
         NEW used \in Int, NEW used2 \in Int, NEW high \in Int, NEW high2 \in Int,
         NEW dumped \in Int, NestOk(st, used, high, dumped),
         used2 - Extra(t) <= used - Extra(st), used2 <= high2,
         high2 = high \/ high2 = used2
  PROVE  NestOk(t, used2, high2, dumped)
<1> DEFINE n == Len(st)
<1>1. /\ n \in Nat /\ Len(t) = n /\ t[n].why = st[n].why
      /\ \A k \in 1 .. n - 1 : t[k] = st[k]
  BY DEF Runs
<1>2. Extra(st) \in {0, 1} /\ Extra(t) \in {0, 1}
  BY DEF Extra
<1>3. ASSUME Flat(t), NEW k \in 1 .. n, t[k].why = "hwm"
      PROVE  NestAt(t, k, used2, high2, dumped)
  <2>1. \A j \in 1 .. n : t[j].why = st[j].why
    BY <1>1
  <2>2. Flat(st) /\ st[k].why = "hwm"
    BY <1>1, <1>3, <2>1 DEF Flat
  <2>3. NestAt(st, k, used, high, dumped)
    BY <2>2 DEF NestOk
  <2>4. \A j \in k .. n - 1 : Hold(t[j]) = NoBlock
    BY <1>1, <2>3 DEF NestAt
  <2>5. \A j \in k + 1 .. n : t[j].why # "hwm"
    BY <1>1, <2>1, <2>3 DEF NestAt
  <2>6. used2 <= dumped + Extra(t) /\ high2 <= dumped + 1
    <3>1. used <= dumped + Extra(st) /\ high <= dumped + 1
      BY <2>3 DEF NestAt
    <3>2. QED
      BY <1>2, <3>1
  <2>7. QED
    BY <1>1, <2>4, <2>5, <2>6 DEF NestAt
<1>4. QED
  BY <1>1, <1>3 DEF NestOk

(* It calls another, and gives it what it holds. *)
LEMMA NestEnters ==
  ASSUME NEW st, NEW t, Enters(st, t), t[Len(st)].why = st[Len(st)].why,
         t[Len(t)].why # "hwm", Hold(t[Len(st)]) = NoBlock, Extra(st) <= Extra(t),
         NEW used \in Int, NEW high \in Int, NEW dumped \in Int,
         NestOk(st, used, high, dumped)
  PROVE  NestOk(t, used, high, dumped)
<1> DEFINE n == Len(st)
<1>1. /\ n \in Nat /\ Len(t) = n + 1 /\ t[n].why = st[n].why /\ Hold(t[n]) = NoBlock
      /\ t[n + 1].why # "hwm" /\ \A k \in 1 .. n - 1 : t[k] = st[k]
  BY DEF Enters
<1>2. Extra(st) \in {0, 1} /\ Extra(t) \in {0, 1}
  BY DEF Extra
<1>3. ASSUME Flat(t), NEW k \in 1 .. n + 1, t[k].why = "hwm"
      PROVE  NestAt(t, k, used, high, dumped)
  <2>1. \A j \in 1 .. n : t[j].why = st[j].why
    BY <1>1
  <2>2. Flat(st) /\ k \in 1 .. n /\ st[k].why = "hwm"
    BY <1>1, <1>3, <2>1 DEF Flat
  <2>3. NestAt(st, k, used, high, dumped)
    BY <2>2 DEF NestOk
  <2>4. \A j \in k .. n : Hold(t[j]) = NoBlock
    BY <1>1, <2>3 DEF NestAt
  <2>5. ASSUME NEW j \in k + 1 .. n + 1 PROVE t[j].why # "hwm"
    <3>1. CASE j = n + 1
      BY <1>1, <3>1
    <3>2. CASE j # n + 1
      <4>1. j \in 1 .. n /\ j \in k + 1 .. n
        <5> HIDE DEF n
        <5>1. QED
          BY <1>1, <2>2, <3>2
      <4>2. st[j].why # "hwm"
        BY <2>3, <4>1 DEF NestAt
      <4>3. QED
        BY <2>1, <4>1, <4>2
    <3>3. QED
      BY <3>1, <3>2
  <2>6. used <= dumped + Extra(t) /\ high <= dumped + 1
    <3>1. used <= dumped + Extra(st) /\ high <= dumped + 1
      BY <2>3 DEF NestAt
    <3>2. QED
      BY <1>2, <3>1
  <2>7. QED
    BY <1>1, <2>4, <2>5, <2>6 DEF NestAt
<1>4. QED
  BY <1>1, <1>3 DEF NestOk

(* A report for -D starts: none was running, for inside one the use of     *)
(* memory goes no further above the mark than by one block.                *)
LEMMA NestDumps ==
  ASSUME NEW st, NEW t, Enters(st, t), t[Len(st)].why = st[Len(st)].why,
         NEW used \in Int, NEW high \in Int, NEW dumped \in Int, NEW high2 \in Int,
         NestOk(st, used, high, dumped), Extra(st) = 0,
         high2 = high \/ high2 = used + 1, used + 1 <= high2, high2 > dumped + 1
  PROVE  NestOk(t, used + 1, high2, high2)
<1> DEFINE n == Len(st)
<1>1. /\ n \in Nat /\ Len(t) = n + 1 /\ t[n].why = st[n].why
      /\ \A k \in 1 .. n - 1 : t[k] = st[k]
  BY DEF Enters
<1>2. Extra(t) \in {0, 1}
  BY DEF Extra
<1>3. ASSUME Flat(t), NEW k \in 1 .. n + 1, t[k].why = "hwm"
      PROVE  NestAt(t, k, used + 1, high2, high2)
  <2>1. \A j \in 1 .. n : t[j].why = st[j].why
    BY <1>1
  <2>2. k = n + 1
    <3>1. SUFFICES ASSUME k \in 1 .. n PROVE FALSE
      BY <1>1
    <3>2. Flat(st) /\ st[k].why = "hwm"
      <4>1. \A j \in 1 .. n : t[j].why # "limit"
        BY <1>1, <1>3 DEF Flat
      <4>2. QED
        BY <1>3, <2>1, <3>1, <4>1 DEF Flat
    <3>3. NestAt(st, k, used, high, dumped)
      BY <3>1, <3>2 DEF NestOk
    <3>4. used <= dumped + Extra(st) /\ high <= dumped + 1
      BY <3>3 DEF NestAt
    <3>5. QED
      BY <3>4
  <2>3. used + 1 <= high2 + Extra(t) /\ high2 <= high2 + 1
    BY <1>2
  <2>4. QED
    BY <1>1, <2>2, <2>3 DEF NestAt
<1>4. QED
  BY <1>1, <1>3 DEF NestOk

(* A report that ends, its caller still holding what it held. *)
LEMMA NestLeaves ==
  ASSUME NEW st, NEW t, Leaves(st, t), st[Len(st)].why # "limit", Hold(st[Len(st)]) = NoBlock,
         NEW used \in Int, NEW high \in Int, NEW dumped \in Int,
         NestOk(st, used, high, dumped)
  PROVE  NestOk(t, used, high, dumped)
<1> DEFINE n == Len(st)
<1>1. /\ n \in Nat /\ Len(t) = n - 1 /\ st[n].why # "limit" /\ Hold(st[n]) = NoBlock
      /\ \A k \in 1 .. n - 1 : t[k] = st[k]
  BY DEF Leaves
<1>3. ASSUME Flat(t), NEW k \in 1 .. n - 1, t[k].why = "hwm"
      PROVE  NestAt(t, k, used, high, dumped)
  <2>1. Flat(st) /\ st[k].why = "hwm" /\ k \in 1 .. n
    BY <1>1, <1>3 DEF Flat
  <2>2. NestAt(st, k, used, high, dumped)
    BY <2>1 DEF NestOk
  <2>3. \A j \in k .. n - 2 : Hold(t[j]) = NoBlock
    BY <1>1, <2>2 DEF NestAt
  <2>4. \A j \in k + 1 .. n - 1 : t[j].why # "hwm"
    BY <1>1, <2>2 DEF NestAt
  <2>5. Extra(st) = 0 /\ Extra(t) \in {0, 1}
    BY <1>1 DEF Extra
  <2>6. used <= dumped + Extra(t) /\ high <= dumped + 1
    <3>1. used <= dumped + Extra(st) /\ high <= dumped + 1
      BY <2>2 DEF NestAt
    <3>2. QED
      BY <2>5, <3>1
  <2>7. QED
    BY <1>1, <2>3, <2>4, <2>6 DEF NestAt
<1>4. QED
  BY <1>1, <1>3 DEF NestOk

(* A call that ends, its caller taking over what it held. *)
LEMMA NestHands ==
  ASSUME NEW st, NEW t, NEW b, Hands(st, t, b), st[Len(st)].why # "limit",
         Extra(st) <= Extra(t),
         NEW used \in Int, NEW high \in Int, NEW dumped \in Int,
         NestOk(st, used, high, dumped)
  PROVE  NestOk(t, used, high, dumped)
<1> DEFINE n == Len(st)
<1>1. /\ n \in Nat /\ n > 1 /\ Len(t) = n - 1 /\ st[n].why # "limit"
      /\ t[n - 1].why = st[n - 1].why
      /\ \A k \in 1 .. n - 2 : t[k] = st[k]
  BY DEF Hands
<1>2. Extra(st) \in {0, 1} /\ Extra(t) \in {0, 1}
  BY DEF Extra
<1>3. ASSUME Flat(t), NEW k \in 1 .. n - 1, t[k].why = "hwm"
      PROVE  NestAt(t, k, used, high, dumped)
  <2>1. \A j \in 1 .. n - 1 : t[j].why = st[j].why
    BY <1>1
  <2>2. st[k].why = "hwm" /\ k \in 1 .. n
    BY <1>1, <1>3, <2>1
  <2>3. \A j \in 1 .. n - 1 : t[j].why # "limit"
    BY <1>1, <1>3 DEF Flat
  <2>4. Flat(st)
    <3>1. \A j \in 1 .. n : j = n \/ j \in 1 .. n - 1
      BY <1>1
    <3> HIDE DEF n
    <3>2. \A j \in 1 .. n : st[j].why # "limit"
      BY <1>1, <2>1, <2>3, <3>1
    <3>3. QED
      BY <3>2 DEF Flat, n
  <2>5. NestAt(st, k, used, high, dumped)
    BY <2>2, <2>4 DEF NestOk
  <2>6. /\ \A j \in k .. n - 1 : Hold(st[j]) = NoBlock
        /\ \A j \in k + 1 .. n : st[j].why # "hwm"
        /\ used <= dumped + Extra(st) /\ high <= dumped + 1
    BY <2>5 DEF NestAt
  <2>7. \A j \in k .. (n - 1) - 1 : Hold(t[j]) = NoBlock
    <3> HIDE DEF n
    <3>1. \A j \in k .. (n - 1) - 1 : j \in 1 .. n - 2 /\ j \in k .. n - 1
      BY <1>1
    <3>2. QED
      BY <1>1, <2>6, <3>1
  <2>8. \A j \in k + 1 .. n - 1 : t[j].why # "hwm"
    <3> HIDE DEF n
    <3>1. \A j \in k + 1 .. n - 1 : j \in 1 .. n - 1 /\ j \in k + 1 .. n
      BY <1>1
    <3>2. QED
      BY <2>1, <2>6, <3>1
  <2>9. used <= dumped + Extra(t) /\ high <= dumped + 1
    BY <1>2, <2>6
  <2>10. QED
    <3>1. Len(t) = n - 1
      BY <1>1
    <3> HIDE DEF n
    <3>2. QED
      BY <2>7, <2>8, <2>9, <3>1 DEF NestAt
<1>4. QED
  BY <1>1, <1>3 DEF NestOk

(* No report for -D is running, or one for -M is. *)
LEMMA NestAlone ==
  ASSUME NEW t, NEW used, NEW high, NEW dumped, used <= high,
         \/ t = <<>>
         \/ Len(t) = 1 /\ t[1].why # "hwm"
         \/ Len(t) \in Nat \ {0} /\ t[Len(t)].why = "limit"
  PROVE  NestOk(t, used, high, dumped)
<1>1. CASE t = <<>>
  BY <1>1 DEF NestOk
<1>2. CASE Len(t) = 1 /\ t[1].why # "hwm"
  BY <1>2 DEF NestOk
<1>3. CASE Len(t) \in Nat \ {0} /\ t[Len(t)].why = "limit"
  <2>1. ~Flat(t)
    BY <1>3 DEF Flat
  <2>2. QED
    BY <2>1 DEF NestOk
<1>4. QED
  BY <1>1, <1>2, <1>3

(* What a frame holds, from its label. *)
LEMMA HoldIs ==
  /\ \A g : g.pc \in {"limit", "publish", "mark"} => Hold(g) = g.elm
  /\ \A g : g.pc \in {"close", "kept", "printed"} => Hold(g) = g.mine
  /\ \A g : g.pc \notin {"limit", "publish", "mark", "close", "kept", "printed"}
              => Hold(g) = NoBlock
BY DEF Hold

LEMMA NestFacts ==
  ASSUME ShapeInv
  PROVE  /\ requested \in Nat /\ freed \in Nat /\ hwm \in Nat /\ lastDump \in Nat
         /\ requested - freed \in Int /\ DumpInterval \in Nat
BY ListsAssumption DEF ShapeInv, DataOk

LEMMA RunsFlat ==
  ASSUME ShapeInv, NestInv, Runs(stack, stack'), Top'.why = Top.why,
         Hold(Top) # NoBlock => Hold(Top') # NoBlock, UNCHANGED stats
  PROVE  NestInv'
<1>1. /\ requested' = requested /\ freed' = freed /\ hwm' = hwm /\ lastDump' = lastDump
  BY DEF stats
<1>2. Len(stack') = Len(stack) /\ stack'[Len(stack)].why = stack[Len(stack)].why
  BY DEF Runs, Top
<1>3. Extra(stack) <= Extra(stack') /\ Extra(stack) \in {0, 1} /\ Extra(stack') \in {0, 1}
  BY DEF Extra, Top
<1>4. requested - freed \in Int /\ hwm \in Int /\ lastDump \in Int
  BY NestFacts
<1> DEFINE used == requested - freed
<1>5. NestOk(stack, used, hwm, lastDump) /\ used <= hwm /\ used \in Int
  BY <1>4 DEF NestInv, NestOk
<1> HIDE DEF used
<1>6. used - Extra(stack') <= used - Extra(stack)
  BY <1>3, <1>5
<1>7. NestOk(stack', used, hwm, lastDump)
  BY <1>2, <1>4, <1>5, <1>6, NestRuns
<1>8. QED
  BY <1>1, <1>7 DEF NestInv, used

LEMMA EntersFlat ==
  ASSUME ShapeInv, NestInv, Enters(stack, stack'), stack'[Len(stack)].why = Top.why,
         Hold(stack'[Len(stack)]) = NoBlock, Top'.why # "hwm",
         Hold(Top) # NoBlock => Hold(Top') # NoBlock, UNCHANGED stats
  PROVE  NestInv'
<1>1. /\ requested' = requested /\ freed' = freed /\ hwm' = hwm /\ lastDump' = lastDump
  BY DEF stats
<1>2. stack'[Len(stack)].why = stack[Len(stack)].why /\ stack'[Len(stack')].why # "hwm"
  BY DEF Top
<1>3. Extra(stack) <= Extra(stack')
  BY DEF Extra, Top
<1>4. requested - freed \in Int /\ hwm \in Int /\ lastDump \in Int
  BY NestFacts
<1> DEFINE used == requested - freed
<1>5. NestOk(stack, used, hwm, lastDump) /\ used \in Int
  BY <1>4 DEF NestInv
<1> HIDE DEF used
<1>6. NestOk(stack', used, hwm, lastDump)
  BY <1>2, <1>3, <1>4, <1>5, NestEnters
<1>7. QED
  BY <1>1, <1>6 DEF NestInv, used

(* What a malloc holds it gives to a report that waits for it. *)
LEMMA GivesFlat ==
  ASSUME ShapeInv, NestInv, stack # <<>>, Top.fn \in {"malloc", "free"}, NEW b, GivesBack(b),
         Hold(Top) # NoBlock => Top.fn = "malloc" /\ b # NoBlock, UNCHANGED stats
  PROVE  NestInv'
<1>1. /\ requested' = requested /\ freed' = freed /\ hwm' = hwm /\ lastDump' = lastDump
  BY DEF stats
<1>2. requested - freed \in Int /\ hwm \in Int /\ lastDump \in Int
  BY NestFacts
<1> DEFINE used == requested - freed
<1>3. NestOk(stack, used, hwm, lastDump) /\ used \in Int /\ used <= hwm
  BY <1>2 DEF NestInv, NestOk
<1> HIDE DEF used
<1>4. NestOk(stack', used, hwm, lastDump)
  <2>1. CASE Ended
    BY <1>3, <2>1, NestAlone DEF Ended
  <2>2. CASE Len(stack) > 1 /\ Hands(stack, stack', b)
    <3>1. StackOk(stack) /\ Len(stack) \in Nat \ {0} /\ Top = stack[Len(stack)]
      BY TopFacts DEF ShapeInv
    <3>2. Top.why # "limit"
      BY <3>1, TopFacts DEF FrameOk, MallocFrameOk, FreeFrameOk, ReportFrameOk
    <3>3. Extra(stack) <= Extra(stack')
      <4>1. CASE Hold(Top) = NoBlock
        BY <3>1, <4>1 DEF Extra
      <4>2. CASE Hold(Top) # NoBlock
        <5> DEFINE g == stack[Len(stack) - 1]
                   h == stack'[Len(stack) - 1]
        <5>1. Calls(g, Top)
          BY <2>2, <3>1, StackFacts
        <5>2. h.pc = g.pc /\ h.mine = b /\ Len(stack') = Len(stack) - 1
          BY <2>2 DEF Hands
        <5> HIDE DEF g, h
        <5>3. g.pc \in {"close", "kept", "printed"}
          BY <4>2, <5>1 DEF Calls
        <5>4. Hold(h) # NoBlock
          BY <4>2, <5>2, <5>3, HoldIs
        <5>5. Extra(stack') = 1
          BY <5>2, <5>4 DEF Extra, h
        <5>6. QED
          BY <5>5 DEF Extra
      <4>3. QED
        BY <4>1, <4>2
    <3>4. stack[Len(stack)].why # "limit"
      BY <3>1, <3>2
    <3>5. QED
      BY <1>2, <1>3, <2>2, <3>3, <3>4, NestHands
  <2>3. QED
    BY <2>1, <2>2 DEF GivesBack
<1>5. QED
  BY <1>1, <1>4 DEF NestInv, used

LEMMA StartsFlat ==
  ASSUME ShapeInv, NestInv, NEW c, StartsWith(c), c.why # "hwm", UNCHANGED stats
  PROVE  NestInv'
<1>1. /\ requested' = requested /\ freed' = freed /\ hwm' = hwm /\ lastDump' = lastDump
  BY DEF stats
<1>2. requested - freed <= hwm
  BY DEF NestInv, NestOk
<1>3. Len(stack') = 1 /\ stack'[1].why # "hwm"
  BY DEF StartsWith
<1>4. NestOk(stack', requested - freed, hwm, lastDump)
  BY <1>2, <1>3, NestAlone
<1>5. QED
  BY <1>1, <1>4 DEF NestInv

LEMMA CountFlat ==
  ASSUME ShapeInv, NestInv, DumpInterval > 0, Count
  PROVE  NestInv'
<1>1. /\ requested \in Nat /\ freed \in Nat /\ hwm \in Nat /\ lastDump \in Nat
      /\ DumpInterval \in Nat
  BY NestFacts
<1>2. /\ requested' = requested + 1 /\ freed' = freed
      /\ hwm' = IF requested + 1 - freed > hwm THEN requested + 1 - freed ELSE hwm
  BY DEF Count
<1> DEFINE used == requested - freed
<1>3. /\ used \in Int /\ hwm' \in Int /\ hwm \in Int /\ lastDump \in Int
      /\ requested' - freed' = used + 1
      /\ hwm' = hwm \/ hwm' = used + 1
      /\ used + 1 <= hwm'
  BY <1>1, <1>2
<1>4. NestOk(stack, used, hwm, lastDump)
  BY DEF NestInv
<1> HIDE DEF used
<1>5. stack # <<>> /\ Top.pc = "linked" /\ Top = stack[Len(stack)]
  BY AtTop, TopFacts DEF Count
<1>6. Extra(stack) = 0
  BY <1>5, HoldIs DEF Extra
<1>7. CASE /\ Runs(stack, stack') /\ KeepsAll(Top, Top') /\ Top'.pc = "limit"
           /\ lastDump' = lastDump
  <2>1. Top.elm \in Blocks
    BY CountGoes
  <2>2. Hold(Top') # NoBlock
    BY <1>7, <2>1, HoldIs, ListsAssumption DEF KeepsAll
  <2>3. Len(stack') = Len(stack) /\ stack'[Len(stack)].why = stack[Len(stack)].why
    BY <1>5, <1>7 DEF Runs, Top, KeepsAll, Keeps
  <2>4. Extra(stack') = 1
    BY <2>2, <2>3 DEF Extra, Top
  <2>5. (used + 1) - Extra(stack') <= used - Extra(stack) /\ used + 1 \in Int
    BY <1>3, <1>6, <2>4
  <2>6. NestOk(stack', used + 1, hwm', lastDump)
    BY <1>3, <1>4, <1>7, <2>3, <2>5, NestRuns
  <2>7. QED
    BY <1>3, <1>7, <2>6 DEF NestInv
<1>8. CASE /\ CallsAt("limit", ReportFrame("hwm"))
           /\ hwm' > lastDump + DumpInterval /\ lastDump' = hwm'
  <2>1. Enters(stack, stack') /\ stack'[Len(stack)].why = stack[Len(stack)].why
    BY <1>5, <1>8 DEF CallsAt, KeepsAll, Keeps
  <2>2. hwm' > lastDump + 1
    BY <1>1, <1>3, <1>8
  <2>3. NestOk(stack', used + 1, hwm', hwm')
    BY <1>3, <1>4, <1>6, <2>1, <2>2, NestDumps
  <2>4. QED
    BY <1>3, <1>8, <2>3 DEF NestInv
<1>9. QED
  BY <1>7, <1>8, CountGoes

LEMMA MarkFlat ==
  ASSUME ShapeInv, NestInv, Mark
  PROVE  NestInv'
<1>1. requested' = requested /\ hwm' = hwm /\ lastDump' = lastDump
  BY DEF Mark
<1>2. /\ requested \in Nat /\ freed \in Nat /\ hwm \in Int /\ lastDump \in Int
  BY NestFacts
<1> DEFINE used == requested - freed
<1>3. NestOk(stack, used, hwm, lastDump) /\ used <= hwm /\ used \in Int
  BY <1>2 DEF NestInv, NestOk
<1>4. CASE /\ Runs(stack, stack') /\ Keeps(Top, Top') /\ Top'.pc = "rm1"
           /\ freed' = freed + 1
  <2>1. requested' - freed' = used - 1 /\ used - 1 \in Int /\ used - 1 <= hwm
    BY <1>1, <1>2, <1>3, <1>4
  <2> HIDE DEF used
  <2>2. stack # <<>> /\ Top = stack[Len(stack)] /\ Top.pc = "mark" /\ Top.elm \in Blocks
    BY MarkGoes, TopFacts
  <2>3. Extra(stack) = 1
    BY <2>2, HoldIs, ListsAssumption DEF Extra
  <2>4. Len(stack') = Len(stack) /\ stack'[Len(stack)].why = stack[Len(stack)].why
    BY <1>4, <2>2 DEF Runs, Top, Keeps
  <2>5. Extra(stack') = 0
    BY <1>4, <2>4, HoldIs DEF Extra, Top
  <2>6. (used - 1) - Extra(stack') <= used - Extra(stack)
    BY <1>3, <2>3, <2>5
  <2>7. NestOk(stack', used - 1, hwm, lastDump)
    BY <1>2, <1>3, <1>4, <2>1, <2>4, <2>6, NestRuns
  <2>8. QED
    BY <1>1, <2>1, <2>7 DEF NestInv
<1>5. CASE UNCHANGED <<stack, freed>>
  BY <1>1, <1>3, <1>5 DEF NestInv
<1>6. QED
  BY <1>4, <1>5, MarkGoes

LEMMA NestStep ==
  ASSUME ShapeInv, NestInv, ~Signals, DumpInterval > 0, [Next]_vars
  PROVE  NestInv'
<1>1. CASE Malloc
  BY <1>1, MallocGoes, StartsFlat DEF Malloc, MallocFrame, Frame
<1>2. CASE \E b \in live : Free(b)
  <2>1. PICK b \in live : Free(b)
    BY <1>2
  <2>2. StartsWith(FreeFrame(b))
    BY <2>1, FreeGoes
  <2>3. UNCHANGED stats
    BY <2>1 DEF Free
  <2>4. FreeFrame(b).why # "hwm"
    BY DEF FreeFrame, Frame
  <2>5. QED
    BY <2>2, <2>3, <2>4, StartsFlat
<1>3. CASE Report
  <2>1. StartsWith(ReportFrame("signal"))
    BY <1>3, ReportGoes
  <2>2. UNCHANGED stats
    BY <1>3 DEF Report
  <2>3. ReportFrame("signal").why # "hwm"
    BY DEF ReportFrame, Frame
  <2>4. QED
    BY <2>1, <2>2, <2>3, StartsFlat
<1>4. ASSUME Remove1 \/ Remove2 \/ Remove3 \/ Remove4
             \/ Insert1 \/ Insert2 \/ Insert3 \/ Insert4
      PROVE  NestInv'
  <2>1. PICK p, q : Follows(p, q) /\ AtLink(p) /\ GoTo(q)
    BY <1>4 DEF Remove1, Remove2, Remove3, Remove4, Insert1, Insert2, Insert3, Insert4, Follows
  <2>2. Runs(stack, stack') /\ KeepsAll(Top, Top')
    BY <2>1, Linked1
  <2>3. p \in LinkLabels
    BY <2>1 DEF Follows, LinkLabels, Removing, Inserting
  <2>4. Hold(Top) = NoBlock
    BY <2>1, <2>3, LinkTop
  <2>5. Written
    BY <1>4 DEF Remove1, Remove2, Remove3, Remove4, Insert1, Insert2, Insert3, Insert4
  <2>6. QED
    BY <2>2, <2>4, <2>5, RunsFlat DEF Written, KeepsAll, Keeps
<1>5. CASE Remove5
  <2>1. Runs(stack, stack') /\ Top'.why = Top.why
    BY <1>5, Remove5Goes DEF Keeps
  <2>2. AtLink("rm5") /\ "rm5" \in LinkLabels /\ UNCHANGED stats
    BY <1>5 DEF Remove5, Written, LinkLabels, Removing
  <2>3. Hold(Top) = NoBlock
    BY <2>2, LinkTop
  <2>4. QED
    BY <2>1, <2>2, <2>3, RunsFlat
<1>6. CASE Replenish
  BY <1>6, ReplenishGoes, RunsFlat, HoldIs DEF Replenish, KeepsAll, Keeps
<1>7. CASE Pool
  <2>1. /\ Top.pc = "pool" /\ Top.fn = "malloc" /\ stack # <<>> /\ UNCHANGED stats
        /\ Hold(Top) = NoBlock
    BY <1>7, PoolGoes, HoldIs DEF Pool
  <2>2. CASE Runs(stack, stack') /\ Keeps(Top, Top')
    BY <2>1, <2>2, RunsFlat DEF Keeps
  <2>3. CASE /\ Enters(stack, stack') /\ KeepsAll(Top, stack'[Len(stack)])
             /\ stack'[Len(stack)].pc = "pool" /\ Top' = ReportFrame("oom")
    <3>1. Top'.why # "hwm" /\ stack'[Len(stack)].why = Top.why
      BY <2>3 DEF ReportFrame, Frame, KeepsAll, Keeps
    <3>2. Hold(stack'[Len(stack)]) = NoBlock
      BY <2>3, HoldIs
    <3>3. QED
      BY <2>1, <2>3, <3>1, <3>2, EntersFlat
  <2>4. CASE Ended \/ (Len(stack) > 1 /\ Hands(stack, stack', NoBlock))
    <3>1. live' = live /\ live' = live \cup ({NoBlock} \ {NoBlock})
      BY <1>7, <2>4, PoolGoes DEF Ended, Runs
    <3>2. GivesBack(NoBlock)
      BY <2>4, <3>1 DEF GivesBack
    <3>3. QED
      BY <2>1, <3>2, GivesFlat
  <2>5. QED
    BY <1>7, <2>2, <2>3, <2>4, PoolGoes
<1>8. CASE Filled
  BY <1>8, FilledGoes, RunsFlat, HoldIs DEF Filled, KeepsAll, Keeps
<1>9. CASE Load
  BY <1>9, LoadGoes, RunsFlat, HoldIs DEF Load, Keeps
<1>10. CASE Count
  BY <1>10, CountFlat
<1>11. CASE Limit
  <2>1. UNCHANGED stats
    BY <1>11 DEF Limit
  <2>2. CASE Runs(stack, stack') /\ KeepsAll(Top, Top') /\ Top'.pc = "publish"
    <3>1. Top.pc = "limit" /\ Top.elm \in Blocks
      BY <1>11, LimitGoes
    <3>2. Hold(Top') # NoBlock /\ Top'.why = Top.why
      BY <2>2, <3>1, HoldIs, ListsAssumption DEF KeepsAll, Keeps
    <3>3. QED
      BY <2>1, <2>2, <3>2, RunsFlat
  <2>3. CASE CallsAt("limit", ReportFrame("limit"))
    <3>1. Len(stack') = Len(stack) + 1 /\ Len(stack) \in Nat /\ stack'[Len(stack')].why = "limit"
      BY <2>3 DEF CallsAt, Enters, Top, ReportFrame, Frame
    <3>2. requested - freed <= hwm
      BY DEF NestInv, NestOk
    <3>3. Len(stack') \in Nat \ {0}
      BY <3>1
    <3>4. NestOk(stack', requested - freed, hwm, lastDump)
      BY <3>1, <3>2, <3>3, NestAlone
    <3>5. QED
      BY <2>1, <3>4 DEF NestInv, stats
  <2>4. QED
    BY <1>11, <2>2, <2>3, LimitGoes
<1>12. CASE Publish
  <2>1. /\ Top.fn = "malloc" /\ Top.pc = "publish" /\ Top.elm \in Blocks /\ stack # <<>>
        /\ UNCHANGED stats
    BY <1>12, PublishGoes DEF Publish
  <2>2. CASE GivesBack(Top.elm)
    BY <2>1, <2>2, GivesFlat, ListsAssumption
  <2>3. CASE stack' = stack
    BY <2>1, <2>3 DEF NestInv, stats
  <2>4. QED
    BY <1>12, <2>2, <2>3, PublishGoes
<1>13. CASE Mark
  BY <1>13, MarkFlat
<1>14. CASE Put
  <2>1. /\ Top.fn = "free" /\ Top.pc = "linked" /\ stack # <<>> /\ GivesBack(NoBlock)
        /\ UNCHANGED stats
    BY <1>14, PutGoes DEF Put
  <2>2. Hold(Top) = NoBlock
    BY <2>1, HoldIs
  <2>3. QED
    BY <2>1, <2>2, GivesFlat
<1>15. CASE Open
  <2>1. CallsAt("close", MallocFrame) /\ Top.pc = "open" /\ UNCHANGED stats
    BY <1>15, OpenGoes DEF Open
  <2>2. Top.mine = NoBlock
    <3>1. At("report", "open")
      BY <1>15 DEF Open
    <3>2. ReportFrameOk(Top)
      BY <3>1, ReportTop
    <3>3. QED
      BY <2>1, <3>2 DEF ReportFrameOk
  <2>3. /\ Enters(stack, stack') /\ stack'[Len(stack)].why = Top.why /\ Top'.why # "hwm"
        /\ stack'[Len(stack)].pc = "close" /\ stack'[Len(stack)].mine = NoBlock
    BY <2>1, <2>2 DEF CallsAt, KeepsAll, Keeps, MallocFrame, Frame
  <2>4. Hold(Top) = NoBlock /\ Hold(stack'[Len(stack)]) = NoBlock
    BY <2>1, <2>3, HoldIs
  <2>5. QED
    BY <2>1, <2>3, <2>4, EntersFlat
<1>16. CASE Close
  <2>1. CallsAt("locale", FreeFrame(Top.mine)) /\ Top.mine \in Blocks /\ UNCHANGED stats
    BY <1>16, CloseGoes DEF Close
  <2>2. /\ Enters(stack, stack') /\ stack'[Len(stack)].why = Top.why
        /\ Top'.why # "hwm" /\ Top'.pc = "mark" /\ Top'.elm = Top.mine
        /\ stack'[Len(stack)].pc = "locale"
    BY <2>1 DEF CallsAt, KeepsAll, Keeps, FreeFrame, Frame
  <2>3. Hold(Top') # NoBlock /\ Hold(stack'[Len(stack)]) = NoBlock
    BY <2>1, <2>2, HoldIs, ListsAssumption
  <2>4. QED
    BY <2>1, <2>2, <2>3, EntersFlat
<1>17. CASE SetLocale
  <2>1. /\ CallsAt("kept", MallocFrame) /\ Top.pc = "locale" /\ Top.fn = "report"
        /\ UNCHANGED stats
    BY <1>17, SetLocaleGoes DEF SetLocale
  <2>2. Top.mine = NoBlock
    <3>1. At("report", "locale")
      BY <1>17 DEF SetLocale
    <3>2. TopOk(Top)
      BY <3>1, ReportTop
    <3>3. QED
      BY <2>1, <3>2 DEF TopOk
  <2>3. /\ Enters(stack, stack') /\ stack'[Len(stack)].why = Top.why /\ Top'.why # "hwm"
        /\ stack'[Len(stack)].pc = "kept" /\ stack'[Len(stack)].mine = NoBlock
    BY <2>1, <2>2 DEF CallsAt, KeepsAll, Keeps, MallocFrame, Frame
  <2>4. Hold(Top) = NoBlock /\ Hold(stack'[Len(stack)]) = NoBlock
    BY <2>1, <2>3, HoldIs
  <2>5. QED
    BY <2>1, <2>3, <2>4, EntersFlat
<1>18. CASE Keep
  <2>1. Runs(stack, stack') /\ KeepsAll(Top, Top') /\ Top.why = "signal" /\ UNCHANGED stats
    BY <1>18, KeepGoes DEF Keep
  <2>2. Len(stack) = 1
    <3>1. /\ stack # <<>> /\ StackOk(stack)
      BY <1>18, KeepGoes DEF Runs, ShapeInv
    <3>2. Len(stack) \in Nat \ {0} /\ \A k \in 1 .. Len(stack) - 1 : Calls(stack[k], stack[k + 1])
      BY <3>1, StackFacts
    <3>3. SUFFICES ASSUME Len(stack) # 1 PROVE FALSE
      OBVIOUS
    <3>4. Calls(stack[Len(stack) - 1], stack[(Len(stack) - 1) + 1]) /\ (Len(stack) - 1) + 1 = Len(stack)
      <4> DEFINE n == Len(stack)
      <4>1. n \in Nat \ {0} /\ n # 1
        BY <3>2, <3>3
      <4>2. \A k \in 1 .. n - 1 : Calls(stack[k], stack[k + 1])
        BY <3>2
      <4> HIDE DEF n
      <4>3. n - 1 \in 1 .. n - 1 /\ (n - 1) + 1 = n
        BY <4>1
      <4>4. Calls(stack[n - 1], stack[(n - 1) + 1]) /\ (n - 1) + 1 = n
        BY <4>2, <4>3
      <4>5. QED
        BY <4>4 DEF n
    <3>5. Top.why # "signal"
      BY <3>4 DEF Calls, Top
    <3>6. QED
      BY <2>1, <3>5
  <2>3. Len(stack') = 1 /\ stack'[1].why # "hwm"
    BY <2>1, <2>2 DEF Runs, KeepsAll, Keeps, Top
  <2>4. requested - freed <= hwm
    BY DEF NestInv, NestOk
  <2>5. NestOk(stack', requested - freed, hwm, lastDump)
    BY <2>3, <2>4, NestAlone
  <2>6. QED
    BY <2>1, <2>5 DEF NestInv, stats
<1>19. CASE LibraryFails \/ UNCHANGED vars
  BY <1>19 DEF LibraryFails, vars, NestInv, stats
<1>20. CASE Walk
  <2>1. /\ Runs(stack, stack') /\ Top'.why = Top.why /\ Top.pc \in {"locale", "walk"}
        /\ UNCHANGED stats
    BY <1>20, WalkGoes DEF Walk
  <2>2. Hold(Top) = NoBlock
    BY <2>1, HoldIs
  <2>3. QED
    BY <2>1, <2>2, RunsFlat
<1>21. CASE PrintElmAllocates
  <2>1. /\ Enters(stack, stack') /\ Top' = MallocFrame /\ Top.pc = "print"
        /\ stack'[Len(stack)].why = Top.why /\ stack'[Len(stack)].pc = "printed"
        /\ stack'[Len(stack)].mine = NoBlock /\ UNCHANGED stats
    BY <1>21, PrintAllocatesGoes DEF PrintElmAllocates
  <2>2. Hold(Top) = NoBlock /\ Hold(stack'[Len(stack)]) = NoBlock
    BY <2>1, HoldIs
  <2>3. Top'.why # "hwm"
    BY <2>1 DEF MallocFrame, Frame
  <2>4. QED
    BY <2>1, <2>2, <2>3, EntersFlat
<1>22. CASE PrintElm
  <2>1. Runs(stack, stack') /\ Top'.why = Top.why /\ Top.pc = "print" /\ UNCHANGED stats
    BY <1>22, PrintGoes DEF PrintElm
  <2>2. Hold(Top) = NoBlock
    BY <2>1, HoldIs
  <2>3. QED
    BY <2>1, <2>2, RunsFlat
<1>23. CASE Printed
  <2>1. Top.pc = "printed" /\ UNCHANGED stats
    BY <1>23, PrintedGoes DEF Printed
  <2>2. CASE Runs(stack, stack') /\ KeepsAll(Top, Top') /\ Top.mine = NoBlock
    <3>1. Hold(Top) = NoBlock
      BY <2>1, <2>2, HoldIs
    <3>2. QED
      BY <2>1, <2>2, <3>1, RunsFlat DEF KeepsAll, Keeps
  <2>3. CASE CallsAt("advance", FreeFrame(Top.mine)) /\ Top.mine \in Blocks
    <3>1. /\ Enters(stack, stack') /\ stack'[Len(stack)].why = Top.why
          /\ Top'.why # "hwm" /\ Top'.pc = "mark" /\ Top'.elm = Top.mine
          /\ stack'[Len(stack)].pc = "advance"
      BY <2>3 DEF CallsAt, KeepsAll, Keeps, FreeFrame, Frame
    <3>2. Hold(Top') # NoBlock /\ Hold(stack'[Len(stack)]) = NoBlock
      BY <2>3, <3>1, HoldIs, ListsAssumption
    <3>3. QED
      BY <2>1, <3>1, <3>2, EntersFlat
  <2>4. QED
    BY <1>23, <2>2, <2>3, PrintedGoes
<1>24. CASE Advance
  <2>1. Runs(stack, stack') /\ Top'.why = Top.why /\ Top.pc = "advance" /\ UNCHANGED stats
    BY <1>24, AdvanceGoes DEF Advance
  <2>2. Hold(Top) = NoBlock
    BY <2>1, HoldIs
  <2>3. QED
    BY <2>1, <2>2, RunsFlat
<1>25. CASE End
  <2>1. UNCHANGED stats /\ Top.pc = "print"
    BY <1>25, EndGoes DEF End
  <2>2. CASE stack' = stack
    BY <2>1, <2>2 DEF NestInv, stats
  <2>3. CASE Leaves(stack, stack') /\ Top.why \notin {"limit", "oom"}
    <3>1. requested - freed \in Int /\ hwm \in Int /\ lastDump \in Int
      BY NestFacts
    <3>2. Hold(stack[Len(stack)]) = NoBlock /\ stack[Len(stack)].why # "limit"
      BY <2>1, <2>3, HoldIs DEF Top
    <3>3. NestOk(stack', requested - freed, hwm, lastDump)
      BY <2>3, <3>1, <3>2, NestLeaves DEF NestInv
    <3>4. QED
      BY <2>1, <3>3 DEF NestInv, stats
  <2>4. QED
    BY <1>25, <2>2, <2>3, EndGoes
<1>26. QED
  BY <1>1, <1>2, <1>3, <1>4, <1>5, <1>6, <1>7, <1>8, <1>9, <1>10, <1>11, <1>12, <1>13, <1>14,
     <1>15, <1>16, <1>17, <1>18, <1>19, <1>20, <1>21, <1>22, <1>23, <1>24, <1>25, Actions, Zenon

LEMMA NestInit ==
  ASSUME Init
  PROVE  NestInv
<1>1. requested = 0 /\ freed = 0 /\ hwm = 0 /\ stack = <<>>
  BY DEF Init
<1>2. requested - freed <= hwm
  BY <1>1
<1>3. NestOk(stack, requested - freed, hwm, lastDump)
  BY <1>1, <1>2, NestAlone
<1>4. QED
  BY <1>3 DEF NestInv

LEMMA NestOnce ==
  ASSUME ShapeInv, NestInv, Unlimited
  PROVE  ReportsNest
<1> DEFINE S == {k \in 1 .. Len(stack) : stack[k].why = "hwm"}
<1>1. \A k \in S : \A j \in k + 1 .. Len(stack) : stack[j].why # "hwm"
  BY DEF NestInv, NestOk, Unlimited, NestAt
<1>2. Len(stack) \in Nat
  <2>1. stack \in Seq(Frames)
    BY DEF ShapeInv, StackOk
  <2>2. QED
    BY <2>1
<1>3. ASSUME NEW i \in S, NEW j \in S PROVE ~(i < j)
  <2>1. i \in 1 .. Len(stack) /\ j \in 1 .. Len(stack) /\ stack[j].why = "hwm"
    OBVIOUS
  <2>2. \A k \in i + 1 .. Len(stack) : stack[k].why # "hwm"
    BY <1>1
  <2> HIDE DEF S
  <2>3. i < j => j \in i + 1 .. Len(stack)
    BY <1>2, <2>1
  <2>4. QED
    BY <2>1, <2>2, <2>3
<1>4. S \subseteq Nat
  BY <1>2
<1> HIDE DEF S
<1>5. \A i, j \in S : i = j
  BY <1>3, <1>4
<1>6. Cardinality(S) <= 1
  <2>1. CASE S = {}
    BY <2>1, FS_EmptySet
  <2>2. CASE S # {}
    <3>1. PICK i \in S : TRUE
      BY <2>2
    <3>2. S = {i}
      BY <1>5, <3>1
    <3>3. Cardinality({i}) = 1
      BY FS_Singleton
    <3>4. QED
      BY <3>2, <3>3
  <2>3. QED
    BY <2>1, <2>2
<1>7. QED
  BY <1>6 DEF ReportsNest, S

(* Whatever the options but -D 0, the allocations of a report for -D start *)
(* no further one, unless -M's limit has been passed: the reports for that *)
(* (Count, Limit) start others without end.                                *)
THEOREM ReportsStayFlat ==
  ~Signals /\ DumpInterval > 0 => (Spec => [](Unlimited => ReportsNest))
<1> SUFFICES ASSUME ~Signals, DumpInterval > 0
             PROVE  Spec => [](Unlimited => ReportsNest)
  OBVIOUS
<1> DEFINE I == ShapeInv /\ NestInv
<1>1. Init => I
  BY ShapeInit, NestInit
<1>2. I /\ [Next]_vars => I'
  BY ShapeStep, NestStep
<1>3. I => (Unlimited => ReportsNest)
  BY NestOnce
<1> HIDE DEF I
<1>4. QED
  BY <1>1, <1>2, <1>3, PTL DEF Spec
===============================================================================
