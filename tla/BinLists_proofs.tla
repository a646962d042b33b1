----------------------------- MODULE BinLists_proofs ----------------------------
(***************************************************************************)
(* Both lists of a bin, the counts of their blocks, the owners of the      *)
(* blocks in use and the cursors of the reports, at every write of a       *)
(* pointer: ElmLists without signals inside a call.                        *)
(***************************************************************************)
EXTENDS ElmLists_proofs

(***************************************************************************)
(* Both lists of the bin, L, in every state: a call that is writing moves  *)
(* its block between them, a pointer at a time.                            *)
(***************************************************************************)
Writing(st) == st # <<>> /\ st[Len(st)].pc \in LinkLabels

Still(hd, nx, pv, L) ==
  /\ Headers(nx, pv) /\ Apart(L["free"], L["inuse"])
  /\ \A l \in Lists : Path(hd[l], nx, L[l]) /\ Back(pv, L[l], 0)
MovesElm(g, hd, nx, pv, fr, L) ==
  /\ Mid(hd[g.list], hd[Other(g.list)], nx, pv, g.pc, g.elm, L[g.list], L[Other(g.list)])
  /\ g.elm \notin fr
  /\ g.fn = "malloc" /\ g.pc = "rm1" => hd["free"] = g.elm
  /\ g.fn = "malloc" /\ g.pc = "rm2" => ~On(L["free"], g.elm)
Linkage(st, hd, nx, pv, fr, L) ==
  /\ L \in [Lists -> Seq(Blocks)]
  /\ \A x \in fr : ~On(L["free"], x) /\ ~On(L["inuse"], x)
  /\ ~Writing(st) => Still(hd, nx, pv, L)
  /\ Writing(st) => MovesElm(st[Len(st)], hd, nx, pv, fr, L)
LinkInv(L) == Linkage(stack, head, next, prev, fresh, L)

(* numFree is counted once the block is linked, and lags behind. *)
LagOf(g) == IF g.list = "free" /\ g.pc = "linked" THEN -1
            ELSE IF g.fn = "malloc" /\ ((g.list = "free" /\ g.pc \in Removing \ {"rm1"})
                                        \/ g.list = "inuse") THEN 1
            ELSE 0
Lag(st) == IF Writing(st) THEN LagOf(st[Len(st)]) ELSE 0
CountInv(L) == numFree = Len(L["free"]) + Lag(stack)

(***************************************************************************)
(* Every block in use has one owner: the program, the C library or a call. *)
(***************************************************************************)
Holds(st, x) == \E k \in 1 .. Len(st) : Hold(st[k]) = x
Owns(st, lv, kp, x) == x \in lv \/ x \in kp \/ Holds(st, x)
HoldsOnce(st) ==
  \A j, k \in 1 .. Len(st) : Hold(st[j]) # NoBlock /\ Hold(st[j]) = Hold(st[k]) => j = k
InHand(st, x) == Writing(st) /\ x = st[Len(st)].elm
Owned(st, lv, kp, u) ==
  /\ HoldsOnce(st) /\ lv \cap kp = {}
  /\ \A x \in Blocks : Holds(st, x) => x \notin lv /\ x \notin kp
  /\ \A x \in Blocks : Owns(st, lv, kp, x) <=> On(u, x) /\ ~InHand(st, x)
  /\ \A k \in 1 .. Len(st) : st[k].pc = "walk" => st[k].mine \in kp
OwnInv(L) == Owned(stack, live, kept, L["inuse"])

(***************************************************************************)
(* A report's cursor is at a block that the calls in the report cannot     *)
(* free; what it has not printed yet is from the cursor on.                *)
(***************************************************************************)
From(s, c, b) == \E i, j \in 1 .. Len(s) : i <= j /\ s[i] = c /\ s[j] = b
Below(st, lv, kp, k, x) == x \in lv \/ x \in kp \/ \E j \in 1 .. k - 1 : Hold(st[j]) = x
Prints(g) == g.fn = "report" /\ g.pc \in {"print", "printed", "advance"}
Covers(g, lv, u) ==
  \A b \in lv : b \in g.seen \/ (g.elm # NoBlock /\ From(u, g.elm, b))
ReportAt(st, lv, kp, k, u) ==
  /\ st[k].elm # NoBlock => Below(st, lv, kp, k, st[k].elm)
  /\ Covers(st[k], lv, u)
  /\ st[k].pc \in {"printed", "advance"} => st[k].elm \in st[k].seen
Reported(st, lv, kp, u) ==
  \A k \in 1 .. Len(st) : Prints(st[k]) => ReportAt(st, lv, kp, k, u)
ReportInv(L) == Reported(stack, live, kept, L["inuse"])

ListsAre(L) == LinkInv(L) /\ CountInv(L) /\ OwnInv(L) /\ ReportInv(L)

(* What a step may do to the lists. *)
Moved1(L, M) ==
  \/ M = L
  \/ L["free"] # <<>> /\ M = [L EXCEPT !["free"] = Tail(@)]
  \/ \E k \in 1 .. Len(L["inuse"]) : M = [L EXCEPT !["inuse"] = RemoveAt(@, k)]
  \/ \E x \in Blocks, l \in Lists : /\ ~On(L["free"], x) /\ ~On(L["inuse"], x)
                                    /\ M = [L EXCEPT ![l] = <<x>> \o @]

(***************************************************************************)
(* What the writes leave alone: the order of the other blocks.             *)
(***************************************************************************)
KeepsOrder(u, v, x) ==
  /\ \A y : y # x => (On(v, y) <=> On(u, y))
  /\ \A c, b : c # x /\ b # x /\ From(u, c, b) => From(v, c, b)

LEMMA CutOrder ==
  ASSUME NEW s \in Seq(Blocks), NEW i \in 1 .. Len(s), NEW t, Cut(s, i, t),
         \A a, b \in 1 .. Len(s) : s[a] = s[b] => a = b
  PROVE  KeepsOrder(s, t, s[i])
<1>1. \A y : On(t, y) <=> On(s, y) /\ y # s[i]
  BY CutOn
<1> DEFINE n == Len(s)
<1>2. /\ n \in Nat /\ i \in 1 .. n /\ Len(t) = n - 1
      /\ \A k \in 1 .. n - 1 : t[k] = IF k < i THEN s[k] ELSE s[k + 1]
  BY SeqFacts DEF Cut
<1> HIDE DEF n
<1>3. ASSUME NEW c, NEW b, c # s[i], b # s[i], From(s, c, b) PROVE From(t, c, b)
  <2>1. PICK j, k \in 1 .. n : j <= k /\ s[j] = c /\ s[k] = b
    BY <1>3 DEF From, n
  <2> DEFINE j1 == IF j < i THEN j ELSE j - 1
             k1 == IF k < i THEN k ELSE k - 1
  <2>2. j # i /\ k # i
    BY <1>3, <2>1
  <2>3. j1 \in 1 .. n - 1 /\ t[j1] = c
    BY <1>2, <2>1, <2>2
  <2>4. k1 \in 1 .. n - 1 /\ t[k1] = b
    BY <1>2, <2>1, <2>2
  <2>5. j1 <= k1
    BY <1>2, <2>1, <2>2
  <2> HIDE DEF j1, k1
  <2>6. QED
    BY <1>2, <2>3, <2>4, <2>5 DEF From
<1>4. QED
  BY <1>1, <1>3 DEF KeepsOrder

LEMMA PushOrder ==
  ASSUME NEW s \in Seq(Blocks), NEW x \in Blocks, ~On(s, x), NEW t, Pushed(s, x, t),
         \A a, b \in 1 .. Len(s) : s[a] = s[b] => a = b
  PROVE  KeepsOrder(s, t, x)
<1>1. \A y : On(t, y) <=> On(s, y) \/ y = x
  BY PushOn
<1>2. /\ Len(s) \in Nat /\ Len(t) = Len(s) + 1
      /\ \A k \in 1 .. Len(s) : t[k + 1] = s[k]
  BY SeqFacts DEF Pushed
<1>3. ASSUME NEW c, NEW b, From(s, c, b) PROVE From(t, c, b)
  <2>1. PICK j, k \in 1 .. Len(s) : j <= k /\ s[j] = c /\ s[k] = b
    BY <1>3 DEF From
  <2>2. /\ j + 1 \in 1 .. Len(t) /\ k + 1 \in 1 .. Len(t) /\ j + 1 <= k + 1
        /\ t[j + 1] = c /\ t[k + 1] = b
    BY <1>2, <2>1
  <2>3. QED
    BY <2>2 DEF From
<1>4. QED
  BY <1>1, <1>3 DEF KeepsOrder

LEMMA SameOrder ==
  ASSUME NEW s, NEW x
  PROVE  KeepsOrder(s, s, x)
BY DEF KeepsOrder

(***************************************************************************)
(* The writes of rmElm and insertElmHead.                                  *)
(***************************************************************************)
LEMMA OtherList ==
  /\ \A l \in Lists : Other(l) \in Lists /\ Other(l) # l /\ Other(Other(l)) = l
  /\ "free" \in Lists /\ "inuse" \in Lists /\ Other("free") = "inuse" /\ Other("inuse") = "free"
BY DEF Lists, Other

LEMMA LinkAt ==
  ASSUME ShapeInv, NEW L, LinkInv(L), NEW p \in LinkLabels, AtLink(p)
  PROVE  /\ L \in [Lists -> Seq(Blocks)] /\ Writing(stack) /\ Top.list \in Lists
         /\ Top.pc = p /\ Top.elm \in Blocks /\ (MallocFrameOk(Top) \/ FreeFrameOk(Top))
         /\ Mid(head[Top.list], head[Other(Top.list)], next, prev, p, Top.elm,
                L[Top.list], L[Other(Top.list)])
         /\ MovesElm(Top, head, next, prev, fresh, L)
         /\ next \in [Blocks -> Cell] /\ prev \in [Blocks -> Cell] /\ head \in [Lists -> Cell]
<1>1. /\ stack # <<>> /\ Top.pc = p /\ Top.elm \in Blocks /\ Top.list \in Lists
      /\ (MallocFrameOk(Top) \/ FreeFrameOk(Top))
  BY LinkTop
<1>2. Writing(stack)
  BY <1>1 DEF Writing, Top
<1>3. L \in [Lists -> Seq(Blocks)] /\ MovesElm(Top, head, next, prev, fresh, L)
  BY <1>2 DEF LinkInv, Linkage, Top
<1>4. Mid(head[Top.list], head[Other(Top.list)], next, prev, p, Top.elm,
          L[Top.list], L[Other(Top.list)])
  BY <1>1, <1>3 DEF MovesElm
<1>5. QED
  BY <1>1, <1>2, <1>3, <1>4 DEF ShapeInv, DataOk

(* The lists after a write. *)
Rest(L, M, x) == \A l \in Lists : KeepsOrder(L[l], M[l], x)
Written1(L, M) ==
  /\ LinkInv(M)' /\ Moved1(L, M) /\ Rest(L, M, Top.elm)
  /\ Top'.elm = Top.elm /\ Writing(stack) /\ Writing(stack')
  /\ Len(M["free"]) + Lag(stack') = Len(L["free"]) + Lag(stack)

LEMMA LinkOn ==
  ASSUME ShapeInv, NEW L, LinkInv(L), NEW p \in LinkLabels, AtLink(p), Written,
         Runs(stack, stack'), Keeps(Top, Top'), Top'.elm = Top.elm,
         NEW l \in Lists, Top'.list = l,
         NEW q \in LinkLabels \ {"rm1"}, Top'.pc = q,
         NEW M \in [Lists -> Seq(Blocks)], Moved1(L, M), Rest(L, M, Top.elm),
         Mid(head'[l], head'[Other(l)], next', prev', q, Top.elm, M[l], M[Other(l)]),
         q = "rm2" /\ Top.fn = "malloc" => ~On(M["free"], Top.elm),
         Len(M["free"]) + LagOf(Top') = Len(L["free"]) + LagOf(Top)
  PROVE  Written1(L, M)
<1>1. /\ L \in [Lists -> Seq(Blocks)] /\ Writing(stack) /\ Top.elm \in Blocks
      /\ MovesElm(Top, head, next, prev, fresh, L)
  BY LinkAt
<1>2. stack' # <<>> /\ Top' = stack'[Len(stack')]
  BY DEF Runs, Top
<1>3. Writing(stack')
  BY <1>2 DEF Writing
<1>4. fresh' = fresh
  BY DEF Written
<1>5. Top.elm \notin fresh /\ \A x \in fresh : ~On(L["free"], x) /\ ~On(L["inuse"], x)
  BY <1>1 DEF MovesElm, LinkInv, Linkage
<1>6. \A x \in fresh : ~On(M["free"], x) /\ ~On(M["inuse"], x)
  BY <1>5, OtherList DEF Rest, KeepsOrder
<1>7. Top'.fn = Top.fn
  BY DEF Keeps
<1> DEFINE g == Top'
<1>8. g.elm = Top.elm /\ g.list = l /\ g.pc = q /\ g.fn = Top.fn /\ q # "rm1"
  BY <1>7
<1> HIDE DEF g
<1>9. MovesElm(g, head', next', prev', fresh', M)
  BY <1>4, <1>5, <1>8 DEF MovesElm
<1>10. Linkage(stack', head', next', prev', fresh', M)
  BY <1>2, <1>3, <1>4, <1>6, <1>9 DEF Linkage, g
<1>11. LinkInv(M)'
  BY <1>10 DEF LinkInv
<1>12. Lag(stack) = LagOf(Top) /\ Lag(stack') = LagOf(Top')
  BY <1>1, <1>2, <1>3 DEF Lag, Top
<1>13. QED
  BY <1>1, <1>3, <1>11, <1>12 DEF Written1

(* Writes that leave both lists as they are. *)
LEMMA LinkStays ==
  ASSUME ShapeInv, NEW L, LinkInv(L), NEW p, NEW q, Follows(p, q), AtLink(p), GoTo(q), Written,
         q # "rm2" \/ Top.fn = "free", q # "linked",
         p = "rm1" => Top.fn = "free",
         head' = head,
         Mid(head[Top.list], head[Other(Top.list)], next', prev', q, Top.elm,
             L[Top.list], L[Other(Top.list)])
  PROVE  Written1(L, L)
<1>1. p \in LinkLabels /\ q \in LinkLabels \ {"rm1"}
  BY DEF Follows, LinkLabels, Removing, Inserting
<1>2. Runs(stack, stack') /\ KeepsAll(Top, Top') /\ Top'.pc = q
  BY Linked1
<1>3. /\ L \in [Lists -> Seq(Blocks)] /\ Top.list \in Lists /\ Top.pc = p
      /\ (MallocFrameOk(Top) \/ FreeFrameOk(Top))
  BY <1>1, LinkAt
<1>4. Moved1(L, L) /\ Rest(L, L, Top.elm)
  BY SameOrder DEF Moved1, Rest
<1>5. LagOf(Top') = LagOf(Top)
  <2> DEFINE g == Top
             h == Top'
  <2>1. h.fn = g.fn /\ h.list = g.list /\ h.pc = q /\ g.pc = p
        /\ (p \in Removing <=> q \in Removing)
        /\ (p = "rm1" => g.fn = "free") /\ p # "linked" /\ q # "linked" /\ q # "rm1"
    BY <1>2, <1>3 DEF KeepsAll, Keeps, Follows, Removing
  <2> HIDE DEF g, h
  <2>2. LagOf(h) = LagOf(g)
    BY <2>1 DEF LagOf
  <2>3. QED
    BY <2>2 DEF g, h
<1>6. Len(L["free"]) + LagOf(Top') = Len(L["free"]) + LagOf(Top)
  BY <1>5
<1>7. q = "rm2" /\ Top.fn = "malloc" => ~On(L["free"], Top.elm)
  OBVIOUS
<1>8. Top'.elm = Top.elm /\ Top'.list = Top.list /\ Keeps(Top, Top')
  BY <1>2 DEF KeepsAll
<1>9. QED
  BY <1>1, <1>2, <1>3, <1>4, <1>6, <1>7, <1>8, LinkOn

(* One list is another, and the rest is as before. *)
Becomes(L, l, t, M) == M = [L EXCEPT ![l] = t]
LEMMA OneList ==
  ASSUME NEW L \in [Lists -> Seq(Blocks)], NEW l \in Lists, NEW t \in Seq(Blocks),
         NEW x, KeepsOrder(L[l], t, x), NEW M, Becomes(L, l, t, M)
  PROVE  /\ M \in [Lists -> Seq(Blocks)] /\ M[l] = t /\ M[Other(l)] = L[Other(l)]
         /\ Rest(L, M, x)
<1>1. M \in [Lists -> Seq(Blocks)] /\ M[l] = t /\ \A m \in Lists : m # l => M[m] = L[m]
  BY DEF Becomes
<1>2. M[Other(l)] = L[Other(l)]
  BY <1>1, OtherList
<1>3. Rest(L, M, x)
  BY <1>1, SameOrder DEF Rest
<1>4. QED
  BY <1>1, <1>2, <1>3

LEMMA Remove1Links ==
  ASSUME ShapeInv, NEW L, LinkInv(L), Remove1
  PROVE  \E M : Written1(L, M)
<1> DEFINE l == Top.list
           x == Top.elm
           s == L[l]
           r == L[Other(l)]
<1>1. "rm1" \in LinkLabels /\ AtLink("rm1") /\ GoTo("rm2") /\ Written
      /\ UNCHANGED <<next, prev>> /\ Follows("rm1", "rm2")
  BY DEF Remove1, LinkLabels, Removing, Follows
<1>2. /\ L \in [Lists -> Seq(Blocks)] /\ l \in Lists /\ Top.pc = "rm1"
      /\ (MallocFrameOk(Top) \/ FreeFrameOk(Top))
      /\ Mid(head[l], head[Other(l)], next, prev, "rm1", x, s, r)
      /\ MovesElm(Top, head, next, prev, fresh, L) /\ head \in [Lists -> Cell]
  BY <1>1, LinkAt
<1>3. Top.fn = "malloc" => l = "free" /\ head[l] = x
  BY <1>2 DEF MovesElm, MallocFrameOk, FreeFrameOk, Removing
<1>4. Top.fn = "free" => l = "inuse"
  BY <1>2 DEF MallocFrameOk, FreeFrameOk, Removing
<1>5. Top.fn \in {"malloc", "free"}
  BY <1>2 DEF MallocFrameOk, FreeFrameOk
<1>6. CASE head[l] # x
  <2>1. head' = head
    BY <1>6 DEF Remove1
  <2>2. Mid(head[l], head[Other(l)], next, prev, "rm2", x, s, r)
    BY <1>2, <1>6, InnerFound
  <2>3. Mid(head[l], head[Other(l)], next', prev', "rm2", x, s, r) /\ Top.fn = "free"
    BY <1>1, <1>3, <1>5, <1>6, <2>2
  <2>4. Written1(L, L)
    BY <1>1, <2>1, <2>3, LinkStays
  <2>5. QED
    BY <2>4
<1>7. CASE head[l] = x
  <2> DEFINE t == IF l = "free" THEN Tail(s) ELSE RemoveAt(s, 1)
             M == [L EXCEPT ![l] = t]
  <2>1. /\ s \in Seq(Blocks) /\ Path(head[l], next, s) /\ On(s, x)
        /\ \A a, b \in 1 .. Len(s) : s[a] = s[b] => a = b
    BY <1>2 DEF Mid, Path, Changing
  <2>2. s # <<>> /\ 1 \in 1 .. Len(s) /\ Len(s) \in Nat
    BY <2>1, SeqFacts DEF On
  <2>3. Cut(s, 1, t)
    BY <2>1, <2>2, CutTail, CutAt
  <2>4. s[1] = x /\ Mid(next[x], head[Other(l)], next, prev, "rm2", x, t, r)
    <3> HIDE DEF t, s, r, l, x
    <3>1. QED
      BY <1>2, <1>7, <2>3, FirstTaken
  <2>5. t \in Seq(Blocks) /\ Len(t) = Len(s) - 1
    BY <2>3 DEF Cut
  <2>6. KeepsOrder(s, t, x) /\ ~On(t, x)
    BY <2>1, <2>2, <2>3, <2>4, CutOrder, CutOn
  <2>7. /\ M \in [Lists -> Seq(Blocks)] /\ M[l] = t /\ M[Other(l)] = r /\ Rest(L, M, x)
    <3>1. Becomes(L, l, t, M)
      BY DEF Becomes
    <3> HIDE DEF t, M
    <3>2. QED
      BY <1>2, <2>5, <2>6, <3>1, OneList
  <2>8. Moved1(L, M)
    <3>1. CASE l = "free"
      BY <2>2, <3>1 DEF Moved1
    <3>2. CASE l # "free"
      <4>1. l = "inuse"
        BY <1>2, <3>2 DEF Lists
      <4>2. M = [L EXCEPT !["inuse"] = RemoveAt(@, 1)]
        BY <3>2, <4>1
      <4>3. 1 \in 1 .. Len(L["inuse"])
        BY <2>2, <4>1
      <4> HIDE DEF M
      <4>4. QED
        BY <4>2, <4>3 DEF Moved1
    <3>3. QED
      BY <3>1, <3>2
  <2>9. head'[l] = next[x] /\ head'[Other(l)] = head[Other(l)]
    BY <1>2, <1>7, OtherList DEF Remove1
  <2>10. Runs(stack, stack') /\ KeepsAll(Top, Top') /\ Top'.pc = "rm2"
    BY <1>1, Linked1
  <2>11. Keeps(Top, Top') /\ Top'.elm = x /\ Top'.list = l
    BY <2>10 DEF KeepsAll
  <2>12. Mid(head'[l], head'[Other(l)], next', prev', "rm2", x, M[l], M[Other(l)])
    BY <1>1, <2>4, <2>7, <2>9
  <2>13. Top.fn = "malloc" => ~On(M["free"], x)
    BY <1>3, <2>6, <2>7
  <2>14. Len(M["free"]) + LagOf(Top') = Len(L["free"]) + LagOf(Top)
    <3> DEFINE g == Top
               h == Top'
    <3>1. h.fn = g.fn /\ h.list = l /\ h.pc = "rm2" /\ g.pc = "rm1" /\ g.list = l
      BY <1>2, <2>10, <2>11 DEF Keeps
    <3>2. g.fn = "malloc" => l = "free" /\ M["free"] = t /\ L["free"] = s
      BY <1>3, <2>7
    <3>3. g.fn = "free" => l = "inuse" /\ M["free"] = L["free"]
      BY <1>4, <2>7, OtherList
    <3>4. g.fn \in {"malloc", "free"}
      BY <1>5
    <3> HIDE DEF g, h, l, M, t, s
    <3>5. g.fn = "malloc" => LagOf(g) = 0 /\ LagOf(h) = 1
      BY <3>1, <3>2 DEF LagOf, Removing
    <3>6. g.fn = "free" => LagOf(g) = 0 /\ LagOf(h) = 0
      BY <3>1, <3>3 DEF LagOf, Removing
    <3>7. Len(M["free"]) + LagOf(h) = Len(L["free"]) + LagOf(g)
      <4>1. CASE g.fn = "malloc"
        BY <2>2, <2>5, <3>2, <3>5, <4>1
      <4>2. CASE g.fn = "free"
        BY <3>3, <3>6, <4>2
      <4>3. QED
        BY <3>4, <4>1, <4>2
    <3>8. QED
      BY <3>7 DEF g, h
  <2>15. "rm2" \in LinkLabels \ {"rm1"}
    BY DEF LinkLabels, Removing
  <2> HIDE DEF M, t
  <2>16. Written1(L, M)
    BY <1>1, <1>2, <2>7, <2>8, <2>10, <2>11, <2>12, <2>13, <2>14, <2>15, LinkOn
  <2>17. QED
    BY <2>16
<1>8. QED
  BY <1>6, <1>7

LEMMA Remove2Links ==
  ASSUME ShapeInv, NEW L, LinkInv(L), Remove2
  PROVE  \E M : Written1(L, M)
<1> DEFINE l == Top.list
           x == Top.elm
           s == L[l]
           r == L[Other(l)]
<1>1. "rm2" \in LinkLabels /\ AtLink("rm2") /\ GoTo("rm3") /\ Written
      /\ UNCHANGED <<prev, head>> /\ Follows("rm2", "rm3")
      /\ next' = IF prev[x] = NoBlock THEN next ELSE [next EXCEPT ![prev[x]] = next[x]]
  BY DEF Remove2, LinkLabels, Removing, Follows
<1>2. /\ L \in [Lists -> Seq(Blocks)] /\ l \in Lists /\ Top.pc = "rm2"
      /\ (MallocFrameOk(Top) \/ FreeFrameOk(Top))
      /\ Mid(head[l], head[Other(l)], next, prev, "rm2", x, s, r)
      /\ MovesElm(Top, head, next, prev, fresh, L)
  BY <1>1, LinkAt
<1>3. Top.fn = "malloc" => l = "free" /\ ~On(s, x)
  BY <1>2 DEF MovesElm, MallocFrameOk, FreeFrameOk, Removing
<1>4. Top.fn = "free" => l = "inuse"
  BY <1>2 DEF MallocFrameOk, FreeFrameOk, Removing
<1>5. Top.fn \in {"malloc", "free"}
  BY <1>2 DEF MallocFrameOk, FreeFrameOk
<1>6. CASE ~On(s, x)
  <2>1. prev[x] = NoBlock /\ Mid(head[l], head[Other(l)], next, prev, "rm3", x, s, r)
    BY <1>2, <1>6, FirstLeft
  <2>2. Mid(head[l], head[Other(l)], next', prev', "rm3", x, s, r) /\ head' = head
    BY <1>1, <2>1
  <2>3. Written1(L, L)
    BY <1>1, <2>2, LinkStays
  <2>4. QED
    BY <2>3
<1>7. CASE On(s, x)
  <2>1. PICK i \in 1 .. Len(s) : s[i] = x
    BY <1>7 DEF On
  <2> DEFINE t == RemoveAt(s, i)
             M == [L EXCEPT ![l] = t]
             ny == [next EXCEPT ![prev[x]] = next[x]]
  <2>2. /\ s \in Seq(Blocks) /\ \A a, b \in 1 .. Len(s) : s[a] = s[b] => a = b
        /\ Len(s) \in Nat
    BY <1>2, SeqFacts DEF Mid, Path
  <2>3. Cut(s, i, t)
    BY <2>1, <2>2, CutAt
  <2>4. prev[x] # NoBlock /\ Mid(head[l], head[Other(l)], ny, prev, "rm3", x, t, r)
    <3>1. ny = [next EXCEPT ![prev[x]] = next[x]]
      OBVIOUS
    <3> HIDE DEF t, s, r, l, x, ny
    <3>2. QED
      BY <1>2, <2>1, <2>3, <3>1, InnerTaken
  <2>5. next' = ny
    BY <1>1, <2>4
  <2>6. t \in Seq(Blocks) /\ KeepsOrder(s, t, x)
    <3>1. KeepsOrder(s, t, s[i])
      BY <2>1, <2>2, <2>3, CutOrder
    <3>2. QED
      BY <2>1, <2>3, <3>1 DEF Cut
  <2>7. /\ M \in [Lists -> Seq(Blocks)] /\ M[l] = t /\ M[Other(l)] = r /\ Rest(L, M, x)
    <3>1. Becomes(L, l, t, M)
      BY DEF Becomes
    <3> HIDE DEF t, M
    <3>2. QED
      BY <1>2, <2>6, <3>1, OneList
  <2>8. Top.fn = "free" /\ l = "inuse"
    BY <1>3, <1>4, <1>5, <1>7
  <2>9. Moved1(L, M)
    <3>1. M = [L EXCEPT !["inuse"] = RemoveAt(@, i)] /\ i \in 1 .. Len(L["inuse"])
      BY <2>1, <2>8
    <3> HIDE DEF M
    <3>2. QED
      BY <3>1 DEF Moved1
  <2>10. Runs(stack, stack') /\ KeepsAll(Top, Top') /\ Top'.pc = "rm3"
    BY <1>1, Linked1
  <2>11. Keeps(Top, Top') /\ Top'.elm = x /\ Top'.list = l
    BY <2>10 DEF KeepsAll
  <2>12. Mid(head'[l], head'[Other(l)], next', prev', "rm3", x, M[l], M[Other(l)])
    <3> HIDE DEF ny, M, t
    <3>1. QED
      BY <1>1, <2>4, <2>5, <2>7
  <2>13. M["free"] = L["free"]
    BY <2>7, <2>8, OtherList
  <2>14. Len(M["free"]) + LagOf(Top') = Len(L["free"]) + LagOf(Top)
    <3> DEFINE g == Top
               h == Top'
    <3>1. h.fn = "free" /\ h.list = l /\ h.pc = "rm3" /\ g.pc = "rm2" /\ g.list = l /\ g.fn = "free"
      BY <1>2, <2>8, <2>10, <2>11 DEF Keeps
    <3> HIDE DEF g, h, l, M, t, s
    <3>2. LagOf(g) = LagOf(h)
      BY <3>1 DEF LagOf, Removing
    <3>3. Len(M["free"]) + LagOf(h) = Len(L["free"]) + LagOf(g)
      BY <2>13, <3>2
    <3>4. QED
      BY <3>3 DEF g, h
  <2>15. "rm3" \in LinkLabels \ {"rm1"} /\ "rm3" # "rm2"
    BY DEF LinkLabels, Removing
  <2> HIDE DEF M, t, ny
  <2>16. Written1(L, M)
    BY <1>1, <1>2, <2>7, <2>9, <2>10, <2>11, <2>12, <2>14, <2>15, LinkOn
  <2>17. QED
    BY <2>16
<1>8. QED
  BY <1>6, <1>7

LEMMA Remove34Links ==
  ASSUME ShapeInv, NEW L, LinkInv(L), Remove3 \/ Remove4
  PROVE  \E M : Written1(L, M)
<1> DEFINE l == Top.list
           x == Top.elm
           Now(p, pv) == Mid(head[l], head[Other(l)], next, pv, p, x, L[l], L[Other(l)])
<1>1. CASE Remove3
  <2>1. "rm3" \in LinkLabels /\ AtLink("rm3") /\ GoTo("rm4") /\ Written
        /\ head' = head /\ next' = next /\ Follows("rm3", "rm4")
        /\ prev' = IF next[x] = NoBlock THEN prev ELSE [prev EXCEPT ![next[x]] = prev[x]]
    BY <1>1 DEF Remove3, LinkLabels, Removing, Follows
  <2>2. Now("rm3", prev)
    BY <2>1, LinkAt
  <2>3. Now("rm4", prev')
    <3> HIDE DEF l, x
    <3>1. QED
      BY <2>1, <2>2, Closed
  <2>4. Written1(L, L)
    BY <2>1, <2>3, LinkStays
  <2>5. QED
    BY <2>4
<1>2. CASE Remove4
  <2>1. "rm4" \in LinkLabels /\ AtLink("rm4") /\ GoTo("rm5") /\ Written
        /\ head' = head /\ next' = next /\ Follows("rm4", "rm5")
        /\ prev' = [prev EXCEPT ![x] = NoBlock]
    BY <1>2 DEF Remove4, LinkLabels, Removing, Follows
  <2>2. Now("rm4", prev)
    BY <2>1, LinkAt
  <2>3. Now("rm5", prev')
    <3> HIDE DEF l, x
    <3>1. QED
      BY <2>1, <2>2, PrevCleared
  <2>4. Written1(L, L)
    BY <2>1, <2>3, LinkStays
  <2>5. QED
    BY <2>4
<1>3. QED
  BY <1>1, <1>2

LEMMA Insert123Links ==
  ASSUME ShapeInv, NEW L, LinkInv(L), Insert1 \/ Insert2 \/ Insert3
  PROVE  \E M : Written1(L, M)
<1> DEFINE l == Top.list
           x == Top.elm
           Now(p, nx, pv) == Mid(head[l], head[Other(l)], nx, pv, p, x, L[l], L[Other(l)])
<1>1. CASE Insert1
  <2>1. "in1" \in LinkLabels /\ AtLink("in1") /\ GoTo("in2") /\ Written
        /\ head' = head /\ next' = next /\ Follows("in1", "in2")
        /\ prev' = IF head[l] = NoBlock THEN prev ELSE [prev EXCEPT ![head[l]] = x]
    BY <1>1 DEF Insert1, LinkLabels, Inserting, Follows
  <2>2. Now("in1", next, prev)
    BY <2>1, LinkAt
  <2>3. Now("in2", next, prev')
    <3> HIDE DEF l, x
    <3>1. QED
      BY <2>1, <2>2, HeadPointsBack
  <2>4. Written1(L, L)
    BY <2>1, <2>3, LinkStays
  <2>5. QED
    BY <2>4
<1>2. CASE Insert2
  <2>1. "in2" \in LinkLabels /\ AtLink("in2") /\ GoTo("in3") /\ Written
        /\ head' = head /\ prev' = prev /\ Follows("in2", "in3")
        /\ next' = [next EXCEPT ![x] = head[l]]
    BY <1>2 DEF Insert2, LinkLabels, Inserting, Follows
  <2>2. Now("in2", next, prev) /\ head[l] \in Cell
    BY <2>1, LinkAt
  <2>3. Now("in3", next', prev)
    <3> HIDE DEF l, x
    <3>1. QED
      BY <2>1, <2>2, NextSet
  <2>4. Written1(L, L)
    BY <2>1, <2>3, LinkStays
  <2>5. QED
    BY <2>4
<1>3. CASE Insert3
  <2>1. "in3" \in LinkLabels /\ AtLink("in3") /\ GoTo("in4") /\ Written
        /\ head' = head /\ next' = next /\ Follows("in3", "in4")
        /\ prev' = [prev EXCEPT ![x] = NoBlock]
    BY <1>3 DEF Insert3, LinkLabels, Inserting, Follows
  <2>2. Now("in3", next, prev)
    BY <2>1, LinkAt
  <2>3. Now("in4", next, prev')
    <3> HIDE DEF l, x
    <3>1. QED
      BY <2>1, <2>2, PrevSet
  <2>4. Written1(L, L)
    BY <2>1, <2>3, LinkStays
  <2>5. QED
    BY <2>4
<1>4. QED
  BY <1>1, <1>2, <1>3

LEMMA Remove5Links ==
  ASSUME ShapeInv, NEW L, LinkInv(L), Remove5
  PROVE  \E M : Written1(L, M)
<1> DEFINE l == Top.list
           x == Top.elm
           m == Other(l)
<1>1. /\ "rm5" \in LinkLabels /\ AtLink("rm5") /\ Written /\ UNCHANGED <<prev, head>>
      /\ next' = [next EXCEPT ![x] = NoBlock]
      /\ "in1" \in LinkLabels \ {"rm1"} /\ "in1" # "rm2"
  BY DEF Remove5, LinkLabels, Removing, Inserting
<1>2. /\ L \in [Lists -> Seq(Blocks)] /\ l \in Lists /\ Top.pc = "rm5"
      /\ (MallocFrameOk(Top) \/ FreeFrameOk(Top))
      /\ Mid(head[l], head[m], next, prev, "rm5", x, L[l], L[m])
  BY <1>1, LinkAt
<1>3. m \in Lists /\ Other(m) = l
  BY <1>2, OtherList
<1>4. Mid(head[m], head[l], next', prev, "in1", x, L[m], L[l])
  <2> HIDE DEF l, x, m
  <2>1. QED
    BY <1>1, <1>2, NextCleared
<1>5. Mid(head'[m], head'[Other(m)], next', prev', "in1", x, L[m], L[Other(m)])
  BY <1>1, <1>3, <1>4
<1>6. /\ Runs(stack, stack') /\ Keeps(Top, Top') /\ Top'.pc = "in1" /\ Top'.elm = x
      /\ Top'.list = m
  BY Remove5Goes
<1>7. Moved1(L, L) /\ Rest(L, L, x)
  BY SameOrder DEF Moved1, Rest
<1>8. LagOf(Top') = LagOf(Top)
  <2> DEFINE g == Top
             h == Top'
  <2>1. h.fn = g.fn /\ h.list = Other(g.list) /\ h.pc = "in1" /\ g.pc = "rm5"
        /\ (g.fn = "malloc" => g.list = "free") /\ (g.fn = "malloc" \/ g.fn = "free")
    BY <1>2, <1>6 DEF Keeps, MallocFrameOk, FreeFrameOk, Removing
  <2> HIDE DEF g, h
  <2>2. LagOf(h) = LagOf(g)
    BY <2>1 DEF LagOf, Removing, Other
  <2>3. QED
    BY <2>2 DEF g, h
<1>9. Len(L["free"]) + LagOf(Top') = Len(L["free"]) + LagOf(Top)
  BY <1>8
<1> HIDE DEF m
<1>10. Written1(L, L)
  BY <1>1, <1>2, <1>3, <1>5, <1>6, <1>7, <1>9, LinkOn
<1>11. QED
  BY <1>10

LEMMA Insert4Links ==
  ASSUME ShapeInv, NEW L, LinkInv(L), Insert4
  PROVE  \E M : Written1(L, M)
<1> DEFINE l == Top.list
           x == Top.elm
           s == L[l]
           r == L[Other(l)]
           t == <<x>> \o s
           M == [L EXCEPT ![l] = t]
<1>1. /\ "in4" \in LinkLabels /\ AtLink("in4") /\ GoTo("linked") /\ Written
      /\ UNCHANGED <<next, prev>> /\ Follows("in4", "linked")
      /\ head' = [head EXCEPT ![l] = x]
      /\ "linked" \in LinkLabels \ {"rm1"} /\ "linked" # "rm2"
  BY DEF Insert4, LinkLabels, Removing, Inserting, Follows
<1>2. /\ L \in [Lists -> Seq(Blocks)] /\ l \in Lists /\ Top.pc = "in4" /\ x \in Blocks
      /\ (MallocFrameOk(Top) \/ FreeFrameOk(Top))
      /\ Mid(head[l], head[Other(l)], next, prev, "in4", x, s, r)
      /\ head \in [Lists -> Cell]
  BY <1>1, LinkAt
<1>3. /\ s \in Seq(Blocks) /\ ~On(s, x) /\ ~On(r, x) /\ Len(s) \in Nat
      /\ \A a, b \in 1 .. Len(s) : s[a] = s[b] => a = b
  BY <1>2, SeqFacts DEF Mid, Path, Changing
<1>4. Pushed(s, x, t)
  BY <1>2, <1>3, PushedIs
<1>5. t \in Seq(Blocks) /\ Len(t) = Len(s) + 1 /\ KeepsOrder(s, t, x)
  <2> HIDE DEF t
  <2>1. QED
    BY <1>2, <1>3, <1>4, PushOrder DEF Pushed
<1>6. Mid(x, head[Other(l)], next, prev, "linked", x, t, r)
  <2> HIDE DEF t, s, r, l, x
  <2>1. QED
    BY <1>2, <1>4, HeadSet
<1>7. M \in [Lists -> Seq(Blocks)] /\ M[l] = t /\ M[Other(l)] = r /\ Rest(L, M, x)
  <2>1. Becomes(L, l, t, M)
    BY DEF Becomes
  <2> HIDE DEF t, M
  <2>2. QED
    BY <1>2, <1>5, <2>1, OneList
<1>8. Moved1(L, M)
  <2>1. ~On(L["free"], x) /\ ~On(L["inuse"], x)
    BY <1>2, <1>3, OtherList DEF Lists
  <2>2. M = [L EXCEPT ![l] = <<x>> \o @]
    BY <1>2
  <2> HIDE DEF M, t
  <2>3. QED
    BY <1>2, <2>1, <2>2 DEF Moved1
<1>9. head'[l] = x /\ head'[Other(l)] = head[Other(l)]
  BY <1>1, <1>2, OtherList
<1>10. Runs(stack, stack') /\ KeepsAll(Top, Top') /\ Top'.pc = "linked"
  BY <1>1, Linked1
<1>11. Keeps(Top, Top') /\ Top'.elm = x /\ Top'.list = l
  BY <1>10 DEF KeepsAll
<1>12. Mid(head'[l], head'[Other(l)], next', prev', "linked", x, M[l], M[Other(l)])
  <2> HIDE DEF M, t
  <2>1. QED
    BY <1>1, <1>6, <1>7, <1>9
<1>13. Len(M["free"]) + LagOf(Top') = Len(L["free"]) + LagOf(Top)
  <2> DEFINE g == Top
             h == Top'
  <2>1. h.fn = g.fn /\ h.list = l /\ h.pc = "linked" /\ g.pc = "in4" /\ g.list = l
    BY <1>2, <1>10, <1>11 DEF Keeps
  <2>2. l = "free" => M["free"] = t /\ L["free"] = s
    BY <1>7
  <2>3. l = "inuse" => M["free"] = L["free"] /\ g.fn = "malloc"
    BY <1>2, <1>7, OtherList DEF MallocFrameOk, FreeFrameOk, Inserting
  <2>4. l \in {"free", "inuse"}
    BY <1>2 DEF Lists
  <2> HIDE DEF g, h, l, M, t, s
  <2>5. l = "free" => LagOf(g) = 0 /\ LagOf(h) = -1
    BY <2>1 DEF LagOf, Removing
  <2>6. l = "inuse" => LagOf(g) = 1 /\ LagOf(h) = 1
    BY <2>1, <2>3 DEF LagOf, Removing
  <2>7. Len(M["free"]) + LagOf(h) = Len(L["free"]) + LagOf(g)
    <3>1. CASE l = "free"
      BY <1>3, <1>5, <2>2, <2>5, <3>1
    <3>2. CASE l = "inuse"
      BY <2>3, <2>6, <3>2
    <3>3. QED
      BY <2>4, <3>1, <3>2
  <2>8. QED
    BY <2>7 DEF g, h
<1> HIDE DEF M, t
<1>14. Written1(L, M)
  BY <1>1, <1>2, <1>7, <1>8, <1>10, <1>11, <1>12, <1>13, LinkOn
<1>15. QED
  BY <1>14

(* Any of the writes. *)
LEMMA LinkWrites ==
  ASSUME ShapeInv, NEW L, LinkInv(L),
         \/ Remove1 \/ Remove2 \/ Remove3 \/ Remove4 \/ Remove5
         \/ Insert1 \/ Insert2 \/ Insert3 \/ Insert4
  PROVE  (\E M : Written1(L, M)) /\ Written /\ Runs(stack, stack') /\ Hold(Top) = NoBlock
         /\ Hold(Top') = NoBlock /\ Top'.pc \in LinkLabels /\ Top.pc \in LinkLabels
         /\ ~Prints(Top) /\ ~Prints(Top')
<1>1. \E M : Written1(L, M)
  BY Remove1Links, Remove2Links, Remove34Links, Remove5Links, Insert123Links, Insert4Links
<1>2. Written
  BY DEF Remove1, Remove2, Remove3, Remove4, Remove5, Insert1, Insert2, Insert3, Insert4
<1>3. \/ \E p, q : Follows(p, q) /\ AtLink(p) /\ GoTo(q)
      \/ Remove5 /\ AtLink("rm5")
  BY DEF Remove1, Remove2, Remove3, Remove4, Remove5, Insert1, Insert2, Insert3, Insert4, Follows
<1>4. \E p, q \in LinkLabels : AtLink(p) /\ Runs(stack, stack') /\ Top'.pc = q
                               /\ Keeps(Top, Top')
  <2>1. CASE Remove5 /\ AtLink("rm5")
    <3>1. Runs(stack, stack') /\ Top'.pc = "in1" /\ Keeps(Top, Top')
      BY <2>1, Remove5Goes
    <3>2. "rm5" \in LinkLabels /\ "in1" \in LinkLabels
      BY DEF LinkLabels, Removing, Inserting
    <3>3. QED
      BY <2>1, <3>1, <3>2
  <2>2. CASE \E p, q : Follows(p, q) /\ AtLink(p) /\ GoTo(q)
    <3>1. PICK p, q : Follows(p, q) /\ AtLink(p) /\ GoTo(q)
      BY <2>2
    <3>2. Runs(stack, stack') /\ Top'.pc = q /\ KeepsAll(Top, Top')
      BY <3>1, Linked1
    <3>3. p \in LinkLabels /\ q \in LinkLabels
      BY <3>1 DEF Follows, LinkLabels, Removing, Inserting
    <3>4. QED
      BY <3>1, <3>2, <3>3 DEF KeepsAll
  <2>3. QED
    BY <1>3, <2>1, <2>2
<1>5. PICK p, q \in LinkLabels : /\ AtLink(p) /\ Runs(stack, stack') /\ Top'.pc = q
                                 /\ Keeps(Top, Top')
  BY <1>4
<1>6. Top.pc = p /\ Hold(Top) = NoBlock /\ Top.fn \in {"malloc", "free"}
  BY <1>5, LinkTop
<1>7. Hold(Top') = NoBlock
  BY <1>5, HoldIs DEF LinkLabels, Removing, Inserting
<1>8. ~Prints(Top) /\ ~Prints(Top')
  BY <1>5, <1>6 DEF Prints, Keeps
<1>9. QED
  BY <1>1, <1>2, <1>5, <1>6, <1>7, <1>8

(***************************************************************************)
(* What the frames hold, by the way the stack changes.                     *)
(***************************************************************************)
SameHolds(st, t) ==
  /\ \A x \in Blocks : Holds(t, x) <=> Holds(st, x)
  /\ HoldsOnce(st) => HoldsOnce(t)

LEMMA HoldsRuns ==
  ASSUME NEW st, NEW t, Runs(st, t), Hold(t[Len(st)]) = Hold(st[Len(st)])
  PROVE  SameHolds(st, t)
<1> DEFINE n == Len(st)
<1>1. n \in Nat /\ Len(t) = n /\ \A k \in 1 .. n - 1 : t[k] = st[k]
  BY DEF Runs
<1>2. Hold(t[n]) = Hold(st[n])
  OBVIOUS
<1> HIDE DEF n
<1>3. \A k \in 1 .. n : Hold(t[k]) = Hold(st[k])
  <2>1. \A k \in 1 .. n : k = n \/ k \in 1 .. n - 1
    BY <1>1
  <2>2. QED
    BY <1>1, <1>2, <2>1
<1>4. QED
  BY <1>1, <1>3 DEF SameHolds, Holds, HoldsOnce, n

LEMMA HoldsEnters ==
  ASSUME NEW st, NEW t, Enters(st, t), Hold(t[Len(st)]) = Hold(st[Len(st)]),
         Hold(t[Len(t)]) = NoBlock
  PROVE  SameHolds(st, t)
<1> DEFINE n == Len(st)
<1>1. n \in Nat /\ Len(t) = n + 1 /\ \A k \in 1 .. n - 1 : t[k] = st[k]
  BY DEF Enters
<1>2. Hold(t[n]) = Hold(st[n]) /\ Hold(t[n + 1]) = NoBlock
  BY <1>1
<1> HIDE DEF n
<1>3. \A k \in 1 .. n : Hold(t[k]) = Hold(st[k])
  <2>1. \A k \in 1 .. n : k = n \/ k \in 1 .. n - 1
    BY <1>1
  <2>2. QED
    BY <1>1, <1>2, <2>1
<1>4. \A k \in 1 .. n + 1 : k \in 1 .. n \/ Hold(t[k]) = NoBlock
  BY <1>1, <1>2
<1>5. \A k \in 1 .. n : k \in 1 .. n + 1
  BY <1>1
<1>6. \A x \in Blocks : Holds(t, x) <=> Holds(st, x)
  BY <1>1, <1>3, <1>4, <1>5, ListsAssumption DEF Holds, n
<1>7. HoldsOnce(st) => HoldsOnce(t)
  BY <1>1, <1>3, <1>4 DEF HoldsOnce, n
<1>8. QED
  BY <1>6, <1>7 DEF SameHolds

(* The callee gets what the running frame held. *)
LEMMA HoldsPasses ==
  ASSUME NEW st, NEW t, Enters(st, t), Hold(t[Len(st)]) = NoBlock,
         Hold(t[Len(t)]) = Hold(st[Len(st)])
  PROVE  SameHolds(st, t)
<1> DEFINE n == Len(st)
<1>1. n \in Nat /\ Len(t) = n + 1 /\ \A k \in 1 .. n - 1 : t[k] = st[k]
  BY DEF Enters
<1>2. Hold(t[n]) = NoBlock /\ Hold(t[n + 1]) = Hold(st[n])
  BY <1>1
<1>0. n # 0
  BY EmptySeq DEF Enters
<1> HIDE DEF n
<1> DEFINE To(k) == IF k = n THEN n + 1 ELSE k
<1>3. \A k \in 1 .. n : To(k) \in 1 .. n + 1 /\ Hold(t[To(k)]) = Hold(st[k])
  <2>1. \A k \in 1 .. n : k = n \/ k \in 1 .. n - 1
    BY <1>1
  <2>2. QED
    BY <1>1, <1>2, <2>1
<1>4. \A k \in 1 .. n + 1 : (\E j \in 1 .. n : To(j) = k) \/ Hold(t[k]) = NoBlock
  <2>1. SUFFICES ASSUME NEW k \in 1 .. n + 1
                 PROVE (\E j \in 1 .. n : To(j) = k) \/ Hold(t[k]) = NoBlock
    OBVIOUS
  <2>2. CASE k = n
    BY <1>2, <2>2
  <2>3. CASE k = n + 1
    <3>1. n \in 1 .. n /\ To(n) = n + 1
      BY <1>1, <1>0
    <3>2. QED
      BY <2>3, <3>1
  <2>4. CASE k \in 1 .. n - 1
    <3>1. k \in 1 .. n /\ To(k) = k
      BY <1>1, <2>4
    <3>2. QED
      BY <3>1
  <2>5. QED
    BY <1>1, <2>2, <2>3, <2>4
<1> HIDE DEF To
<1>5. \A x \in Blocks : Holds(t, x) <=> Holds(st, x)
  BY <1>1, <1>3, <1>4, ListsAssumption DEF Holds, n
<1>6. HoldsOnce(st) => HoldsOnce(t)
  BY <1>1, <1>3, <1>4 DEF HoldsOnce, n
<1>7. QED
  BY <1>5, <1>6 DEF SameHolds

LEMMA HoldsLeaves ==
  ASSUME NEW st, NEW t, Leaves(st, t), Hold(st[Len(st)]) = NoBlock
  PROVE  SameHolds(st, t)
<1> DEFINE n == Len(st)
<1>1. n \in Nat /\ Len(t) = n - 1 /\ \A k \in 1 .. n - 1 : t[k] = st[k]
  BY DEF Leaves
<1>2. Hold(st[n]) = NoBlock
  OBVIOUS
<1> HIDE DEF n
<1>3. \A k \in 1 .. n : k \in 1 .. n - 1 \/ Hold(st[k]) = NoBlock
  BY <1>1, <1>2
<1>4. \A k \in 1 .. n - 1 : k \in 1 .. n
  BY <1>1
<1>5. \A x \in Blocks : Holds(t, x) <=> Holds(st, x)
  BY <1>1, <1>3, <1>4, ListsAssumption DEF Holds, n
<1>6. HoldsOnce(st) => HoldsOnce(t)
  BY <1>1, <1>4 DEF HoldsOnce, n
<1>7. QED
  BY <1>5, <1>6 DEF SameHolds

(* The caller gets what the callee held. *)
LEMMA HoldsHands ==
  ASSUME NEW st, NEW t, NEW b, Hands(st, t, b), Hold(st[Len(st) - 1]) = NoBlock,
         Hold(t[Len(st) - 1]) = Hold(st[Len(st)])
  PROVE  SameHolds(st, t)
<1> DEFINE n == Len(st)
<1>1. n \in Nat /\ n > 1 /\ Len(t) = n - 1 /\ \A k \in 1 .. n - 2 : t[k] = st[k]
  BY DEF Hands
<1>2. Hold(st[n - 1]) = NoBlock /\ Hold(t[n - 1]) = Hold(st[n])
  OBVIOUS
<1> HIDE DEF n
<1> DEFINE To(k) == IF k = n - 1 THEN n ELSE k
<1>3. \A k \in 1 .. n - 1 : To(k) \in 1 .. n /\ Hold(t[k]) = Hold(st[To(k)])
  <2>1. \A k \in 1 .. n - 1 : k = n - 1 \/ k \in 1 .. n - 2
    BY <1>1
  <2>2. QED
    BY <1>1, <1>2, <2>1
<1>4. \A k \in 1 .. n : (\E j \in 1 .. n - 1 : To(j) = k) \/ Hold(st[k]) = NoBlock
  <2>1. SUFFICES ASSUME NEW k \in 1 .. n
                 PROVE (\E j \in 1 .. n - 1 : To(j) = k) \/ Hold(st[k]) = NoBlock
    OBVIOUS
  <2>2. CASE k = n - 1
    BY <1>2, <2>2
  <2>3. CASE k = n
    <3>1. n - 1 \in 1 .. n - 1 /\ To(n - 1) = n
      BY <1>1
    <3>2. QED
      BY <2>3, <3>1
  <2>4. CASE k \in 1 .. n - 2
    <3>1. k \in 1 .. n - 1 /\ To(k) = k
      BY <1>1, <2>4
    <3>2. QED
      BY <3>1
  <2>5. QED
    BY <1>1, <2>2, <2>3, <2>4
<1>5. \A j, k \in 1 .. n - 1 : To(j) = To(k) => j = k
  BY <1>1
<1> HIDE DEF To
<1>6. \A x \in Blocks : Holds(t, x) <=> Holds(st, x)
  BY <1>1, <1>3, <1>4, ListsAssumption DEF Holds, n
<1>7. HoldsOnce(st) => HoldsOnce(t)
  BY <1>1, <1>3, <1>5 DEF HoldsOnce, n
<1>8. QED
  BY <1>6, <1>7 DEF SameHolds

(* The running frame gets a block, and may call another then. *)
LEMMA HoldsGains ==
  ASSUME NEW st, NEW t, Runs(st, t) \/ (Enters(st, t) /\ Hold(t[Len(t)]) = NoBlock),
         Hold(st[Len(st)]) = NoBlock, NEW x \in Blocks, Hold(t[Len(st)]) = x, ~Holds(st, x)
  PROVE  /\ \A y \in Blocks : Holds(t, y) <=> Holds(st, y) \/ y = x
         /\ HoldsOnce(st) => HoldsOnce(t)
<1> DEFINE n == Len(st)
           m == Len(t)
<1>1. /\ n \in Nat /\ n # 0 /\ (m = n \/ m = n + 1) /\ \A k \in 1 .. n - 1 : t[k] = st[k]
  BY EmptySeq DEF Runs, Enters
<1>2. /\ Hold(st[n]) = NoBlock /\ Hold(t[n]) = x /\ x # NoBlock
      /\ m = n + 1 => Hold(t[m]) = NoBlock
  BY ListsAssumption DEF Runs
<1>3. \A k \in 1 .. n : Hold(st[k]) # x
  BY DEF Holds
<1> HIDE DEF n, m
<1>4. \A k \in 1 .. m : Hold(t[k]) = IF k = n THEN x
                                      ELSE IF k < n THEN Hold(st[k]) ELSE NoBlock
  <2>1. \A k \in 1 .. m : k = n \/ (k > n /\ m = n + 1 /\ k = m) \/ (k < n /\ k \in 1 .. n - 1)
    BY <1>1
  <2>2. QED
    BY <1>1, <1>2, <2>1
<1>5. \A k \in 1 .. n : k \in 1 .. m
  BY <1>1
<1>6. \A y \in Blocks : Holds(t, y) <=> Holds(st, y) \/ y = x
  <2>1. ASSUME NEW y \in Blocks, Holds(t, y) PROVE Holds(st, y) \/ y = x
    <3>1. PICK k \in 1 .. m : Hold(t[k]) = y
      BY <2>1 DEF Holds, m
    <3>2. CASE k < n
      <4>1. k \in 1 .. n /\ Hold(st[k]) = y
        BY <1>1, <1>4, <3>1, <3>2
      <4>2. QED
        BY <4>1 DEF Holds, n
    <3>3. CASE ~(k < n)
      BY <1>4, <2>1, <3>1, <3>3, ListsAssumption
    <3>4. QED
      BY <3>2, <3>3
  <2>2. ASSUME NEW y \in Blocks, Holds(st, y) PROVE Holds(t, y)
    <3>1. PICK k \in 1 .. n : Hold(st[k]) = y
      BY <2>2 DEF Holds, n
    <3>2. k # n
      BY <1>2, <3>1, ListsAssumption
    <3>3. k < n /\ k \in 1 .. m
      BY <1>1, <1>5, <3>2
    <3>4. Hold(t[k]) = y
      BY <1>4, <3>1, <3>2, <3>3
    <3>5. QED
      BY <3>3, <3>4 DEF Holds, m
  <2>3. Holds(t, x)
    <3>1. n \in 1 .. m
      BY <1>1
    <3>2. QED
      BY <1>2, <3>1 DEF Holds, m
  <2>4. QED
    BY <2>1, <2>2, <2>3
<1>7. ASSUME HoldsOnce(st) PROVE HoldsOnce(t)
  <2>1. \A j, k \in 1 .. n : Hold(st[j]) # NoBlock /\ Hold(st[j]) = Hold(st[k]) => j = k
    BY <1>7 DEF HoldsOnce, n
  <2>2. ASSUME NEW j \in 1 .. m, NEW k \in 1 .. m, Hold(t[j]) # NoBlock, Hold(t[j]) = Hold(t[k])
        PROVE j = k
    <3>1. (j = n \/ j < n) /\ (k = n \/ k < n)
      BY <1>4, <2>2
    <3>2. CASE j = n /\ k < n
      BY <1>1, <1>3, <1>4, <2>2, <3>2
    <3>3. CASE j < n /\ k = n
      BY <1>1, <1>3, <1>4, <2>2, <3>3
    <3>4. CASE j < n /\ k < n
      <4>1. j \in 1 .. n /\ k \in 1 .. n /\ Hold(t[j]) = Hold(st[j]) /\ Hold(t[k]) = Hold(st[k])
        BY <1>1, <1>4, <3>4
      <4>2. QED
        BY <2>1, <2>2, <4>1
    <3>5. QED
      BY <3>1, <3>2, <3>3, <3>4
  <2>3. QED
    BY <2>2 DEF HoldsOnce, m
<1>8. QED
  BY <1>6, <1>7

(* The running frame gives its block away. *)
LEMMA HoldsLoses ==
  ASSUME NEW st, NEW t, Runs(st, t), NEW x \in Blocks, Hold(st[Len(st)]) = x,
         Hold(t[Len(st)]) = NoBlock, HoldsOnce(st)
  PROVE  /\ \A y \in Blocks : Holds(t, y) <=> Holds(st, y) /\ y # x
         /\ HoldsOnce(t) /\ Holds(st, x)
<1> DEFINE n == Len(st)
<1>1. n \in Nat /\ n # 0 /\ Len(t) = n /\ \A k \in 1 .. n - 1 : t[k] = st[k]
  BY EmptySeq DEF Runs
<1>2. /\ Hold(st[n]) = x /\ Hold(t[n]) = NoBlock /\ x # NoBlock
      /\ \A j, k \in 1 .. n : Hold(st[j]) # NoBlock /\ Hold(st[j]) = Hold(st[k]) => j = k
  BY ListsAssumption DEF HoldsOnce
<1> HIDE DEF n
<1>3. n \in 1 .. n /\ \A k \in 1 .. n : k = n \/ k \in 1 .. n - 1
  BY <1>1
<1>4. \A k \in 1 .. n : k # n => t[k] = st[k] /\ Hold(st[k]) # x
  BY <1>1, <1>2, <1>3
<1>5. \A y \in Blocks : Holds(t, y) <=> Holds(st, y) /\ y # x
  BY <1>1, <1>2, <1>4, ListsAssumption DEF Holds, n
<1>6. HoldsOnce(t)
  BY <1>1, <1>2, <1>4 DEF HoldsOnce, n
<1>7. Holds(st, x)
  BY <1>2, <1>3 DEF Holds, n
<1>8. QED
  BY <1>5, <1>6, <1>7

(***************************************************************************)
(* Owners, by the way the stack changes.                                   *)
(***************************************************************************)
WalksKept(st, kp) == \A k \in 1 .. Len(st) : st[k].pc = "walk" => st[k].mine \in kp
Listed(st, u, x) == On(u, x) /\ ~InHand(st, x)

LEMMA OwnedSame ==
  ASSUME NEW st, NEW lv, NEW kp, NEW u, Owned(st, lv, kp, u), NEW t, SameHolds(st, t),
         NEW v, \A x \in Blocks : Listed(t, v, x) <=> Listed(st, u, x), WalksKept(t, kp)
  PROVE  Owned(t, lv, kp, v)
BY DEF Owned, SameHolds, Listed, WalksKept, Owns

LEMMA OwnedGains ==
  ASSUME NEW st, NEW lv, NEW kp, NEW u, Owned(st, lv, kp, u), NEW t, NEW x \in Blocks,
         InHand(st, x), On(u, x), ~Writing(t), WalksKept(t, kp),
         \A y \in Blocks : Holds(t, y) <=> Holds(st, y) \/ y = x,
         HoldsOnce(st) => HoldsOnce(t)
  PROVE  Owned(t, lv, kp, u)
<1>1. ~Owns(st, lv, kp, x)
  BY DEF Owned
<1>2. \A y \in Blocks : InHand(st, y) <=> y = x
  BY DEF InHand
<1>3. \A y \in Blocks : ~InHand(t, y)
  BY DEF InHand
<1>4. QED
  BY <1>1, <1>2, <1>3 DEF Owned, Owns, WalksKept

LEMMA OwnedLoses ==
  ASSUME NEW st, NEW lv, NEW kp, NEW u, Owned(st, lv, kp, u), NEW t, NEW x \in Blocks,
         Holds(st, x), ~Writing(st), Writing(t), InHand(t, x), WalksKept(t, kp),
         \A y \in Blocks : Holds(t, y) <=> Holds(st, y) /\ y # x, HoldsOnce(t)
  PROVE  Owned(t, lv, kp, u) /\ On(u, x)
<1>1. \A y \in Blocks : InHand(t, y) <=> y = x
  BY DEF InHand
<1>2. \A y \in Blocks : ~InHand(st, y)
  BY DEF InHand
<1>3. On(u, x) /\ x \notin lv /\ x \notin kp
  BY DEF Owned, Owns
<1>4. QED
  BY <1>1, <1>2, <1>3 DEF Owned, Owns, WalksKept

LEMMA OwnedKept ==
  ASSUME NEW st, NEW lv, NEW kp, NEW u, Owned(st, lv, kp, u), NEW t, NEW x \in Blocks,
         Holds(st, x), ~Writing(st), ~Writing(t), WalksKept(t, kp \cup {x}),
         \A y \in Blocks : Holds(t, y) <=> Holds(st, y) /\ y # x, HoldsOnce(t)
  PROVE  Owned(t, lv, kp \cup {x}, u)
<1>1. \A y \in Blocks : ~InHand(st, y) /\ ~InHand(t, y)
  BY DEF InHand
<1>2. x \notin lv /\ x \notin kp
  BY DEF Owned
<1>3. lv \cap (kp \cup {x}) = {}
  BY <1>2 DEF Owned
<1>4. \A y \in Blocks : Owns(t, lv, kp \cup {x}, y) <=> Owns(st, lv, kp, y)
  BY DEF Owns
<1>5. \A y \in Blocks : Holds(t, y) => y \notin lv /\ y \notin kp \cup {x}
  BY DEF Owned
<1>6. QED
  BY <1>1, <1>3, <1>4, <1>5 DEF Owned, WalksKept

(* The last call ends and gives b to the program; or none. *)
LEMMA OwnedEnds ==
  ASSUME NEW st, NEW lv, NEW kp, NEW u, Owned(st, lv, kp, u), NEW t, t = <<>>, Len(st) = 1,
         NEW b \in Cell, Hold(st[1]) = b, \A x \in Blocks : Listed(st, u, x) <=> On(u, x),
         NEW lw, lw = lv \cup ({b} \ {NoBlock})
  PROVE  Owned(t, lw, kp, u)
<1>1. Len(t) = 0
  OBVIOUS
<1>2. \A x \in Blocks : ~Holds(t, x) /\ ~InHand(t, x)
  BY <1>1 DEF Holds, InHand, Writing
<1>3. \A x \in Blocks : Holds(st, x) <=> b = x
  BY DEF Holds
<1>4. \A x \in Blocks : Owns(t, lw, kp, x) <=> Owns(st, lv, kp, x)
  BY <1>2, <1>3, ListsAssumption DEF Owns
<1>5. lw \cap kp = {}
  BY <1>3, ListsAssumption DEF Owned, Cell
<1>6. HoldsOnce(t)
  BY <1>1 DEF HoldsOnce
<1>7. \A x \in Blocks : Owns(t, lw, kp, x) <=> On(u, x) /\ ~InHand(t, x)
  <2>1. \A x \in Blocks : Owns(st, lv, kp, x) <=> Listed(st, u, x)
    BY DEF Owned, Listed
  <2>2. QED
    BY <1>2, <1>4, <2>1
<1>8. \A k \in 1 .. Len(t) : t[k].pc = "walk" => t[k].mine \in kp
  BY <1>1
<1>9. QED
  BY <1>2, <1>5, <1>6, <1>7, <1>8 DEF Owned

(* The program calls, and gives what c holds; or nothing. *)
LEMMA OwnedStarts ==
  ASSUME NEW st, NEW lv, NEW kp, NEW u, Owned(st, lv, kp, u), st = <<>>,
         NEW t, Len(t) = 1, ~Writing(t), t[1].pc # "walk",
         Hold(t[1]) = NoBlock \/ Hold(t[1]) \in lv, lv \subseteq Blocks,
         NEW lw, lw = lv \ {Hold(t[1])}
  PROVE  Owned(t, lw, kp, u)
<1>1. Len(st) = 0
  OBVIOUS
<1>2. \A x \in Blocks : ~Holds(st, x) /\ ~InHand(st, x) /\ ~InHand(t, x)
  BY <1>1 DEF Holds, InHand, Writing
<1>3. \A x \in Blocks : Holds(t, x) <=> Hold(t[1]) = x
  BY DEF Holds
<1>4. \A x \in Blocks : Owns(t, lw, kp, x) <=> Owns(st, lv, kp, x)
  BY <1>2, <1>3, ListsAssumption DEF Owns
<1>5. lw \cap kp = {} /\ \A x \in Blocks : Holds(t, x) => x \notin lw /\ x \notin kp
  BY <1>3, ListsAssumption DEF Owned
<1>6. HoldsOnce(t)
  BY DEF HoldsOnce
<1>7. \A x \in Blocks : Owns(t, lw, kp, x) <=> On(u, x) /\ ~InHand(t, x)
  <2>1. \A x \in Blocks : Owns(st, lv, kp, x) <=> On(u, x) /\ ~InHand(st, x)
    BY DEF Owned
  <2>2. QED
    BY <1>2, <1>4, <2>1
<1>8. \A k \in 1 .. Len(t) : t[k].pc = "walk" => t[k].mine \in kp
  OBVIOUS
<1>9. QED
  BY <1>5, <1>6, <1>7, <1>8 DEF Owned

(***************************************************************************)
(* Cursors, by the way the stack and the list change.                      *)
(***************************************************************************)
(* What the frames below k own is still on the list, in its order. *)
Follow(st, lv, kp, u, v) ==
  \A c, b \in Blocks : Owns(st, lv, kp, c) /\ Owns(st, lv, kp, b) /\ From(u, c, b)
                         => From(v, c, b)

LEMMA ReportLike ==
  ASSUME NEW st, NEW lv, NEW kp, NEW u, NEW k \in 1 .. Len(st), ReportAt(st, lv, kp, k, u),
         NEW t, \A j \in 1 .. k - 1 : t[j] = st[j], NEW kp2, kp \subseteq kp2,
         lv \subseteq Blocks, st[k].elm \in Cell, Len(st) \in Nat,
         t[k].elm = st[k].elm, st[k].seen \subseteq t[k].seen,
         t[k].pc \in {"printed", "advance"} => t[k].elm \in t[k].seen,
         NEW v, Follow(st, lv, kp, u, v)
  PROVE  ReportAt(t, lv, kp2, k, v)
<1> DEFINE c == st[k].elm
<1>1. /\ c # NoBlock => Below(st, lv, kp, k, c)
      /\ \A b \in lv : b \in st[k].seen \/ (c # NoBlock /\ From(u, c, b))
  BY DEF ReportAt, Covers
<1>2. t[k].elm = c /\ c \in Cell
  OBVIOUS
<1> HIDE DEF c
<1>3. c # NoBlock => Below(t, lv, kp2, k, c)
  BY <1>1 DEF Below
<1>4. c # NoBlock => Owns(st, lv, kp, c) /\ c \in Blocks
  <2>1. SUFFICES ASSUME c # NoBlock PROVE Owns(st, lv, kp, c) /\ c \in Blocks
    OBVIOUS
  <2>2. \A j \in 1 .. k - 1 : j \in 1 .. Len(st)
    OBVIOUS
  <2>3. QED
    BY <1>1, <1>2, <2>1, <2>2 DEF Below, Owns, Holds, Cell
<1>5. \A b \in lv : Owns(st, lv, kp, b) /\ b \in Blocks
  BY DEF Owns
<1>6. \A b \in lv : b \in t[k].seen \/ (c # NoBlock /\ From(v, c, b))
  BY <1>1, <1>4, <1>5 DEF Follow
<1>7. QED
  BY <1>2, <1>3, <1>6 DEF ReportAt, Covers

LEMMA ReportsBelow ==
  ASSUME NEW st \in Seq(Frames), NEW lv, NEW kp, NEW u, Reported(st, lv, kp, u),
         NEW m \in Int, m <= Len(st), NEW t, \A j \in 1 .. m : t[j] = st[j],
         NEW kp2, kp \subseteq kp2, lv \subseteq Blocks, NEW v, Follow(st, lv, kp, u, v)
  PROVE  \A k \in 1 .. m : Prints(t[k]) => ReportAt(t, lv, kp2, k, v)
<1>1. SUFFICES ASSUME NEW k \in 1 .. m, Prints(t[k]) PROVE ReportAt(t, lv, kp2, k, v)
  OBVIOUS
<1>2. k \in 1 .. Len(st) /\ Len(st) \in Nat /\ t[k] = st[k]
  OBVIOUS
<1>3. ReportAt(st, lv, kp, k, u)
  BY <1>1, <1>2 DEF Reported
<1>4. st[k].elm \in Cell
  <2>1. st[k] \in Frames
    BY <1>2, ElementOfSeq
  <2>2. QED
    BY <2>1 DEF Frames
<1>5. \A j \in 1 .. k - 1 : t[j] = st[j]
  OBVIOUS
<1>6. t[k].pc \in {"printed", "advance"} => t[k].elm \in t[k].seen
  BY <1>2, <1>3 DEF ReportAt
<1>7. t[k].elm = st[k].elm /\ st[k].seen \subseteq t[k].seen
  BY <1>2
<1>8. QED
  BY <1>2, <1>3, <1>4, <1>5, <1>6, <1>7, ReportLike

LEMMA SameFollows ==
  ASSUME NEW st, NEW lv, NEW kp, NEW u
  PROVE  Follow(st, lv, kp, u, u)
BY DEF Follow

(* Nobody else is left to own what is in use. *)
LEMMA OwnedBelow ==
  ASSUME NEW st, NEW lv, NEW kp, NEW u, Owned(st, lv, kp, u), Len(st) \in Nat,
         Hold(st[Len(st)]) = NoBlock, ~Writing(st), NEW x \in Blocks, On(u, x)
  PROVE  Below(st, lv, kp, Len(st), x)
<1>1. Owns(st, lv, kp, x)
  BY DEF Owned, InHand
<1>2. CASE Holds(st, x)
  <2>1. PICK k \in 1 .. Len(st) : Hold(st[k]) = x
    BY <1>2 DEF Holds
  <2>2. k # Len(st)
    BY <2>1, ListsAssumption
  <2>3. k \in 1 .. Len(st) - 1
    BY <2>2
  <2>4. QED
    BY <2>1, <2>3 DEF Below
<1>3. CASE ~Holds(st, x)
  BY <1>1, <1>3 DEF Owns, Below
<1>4. QED
  BY <1>2, <1>3

LEMMA WalkCovers ==
  ASSUME NEW h, NEW nx, NEW u, Path(h, nx, u), NEW b, On(u, b)
  PROVE  h \in Blocks /\ h # NoBlock /\ On(u, h) /\ From(u, h, b)
<1>1. u \in Seq(Blocks) /\ h = Nth(u, 1)
  BY DEF Path
<1>2. PICK k \in 1 .. Len(u) : u[k] = b
  BY DEF On
<1>3. 1 \in 1 .. Len(u) /\ 1 <= k /\ Len(u) \in Nat
  BY <1>1, <1>2
<1>4. h = u[1] /\ h \in Blocks /\ h # NoBlock
  BY <1>1, <1>3, SeqFacts
<1>5. QED
  BY <1>2, <1>3, <1>4 DEF On, From

LEMMA AdvanceCovers ==
  ASSUME NEW h, NEW nx, NEW u, Path(h, nx, u), NEW c, On(u, c)
  PROVE  /\ nx[c] = NoBlock \/ (nx[c] \in Blocks /\ On(u, nx[c]))
         /\ \A b : From(u, c, b) => b = c \/ (nx[c] # NoBlock /\ From(u, nx[c], b))
<1>1. /\ u \in Seq(Blocks) /\ \A i, j \in 1 .. Len(u) : u[i] = u[j] => i = j
      /\ \A k \in 1 .. Len(u) : nx[u[k]] = Nth(u, k + 1)
  BY DEF Path
<1>2. /\ Len(u) \in Nat
      /\ \A k \in 1 .. Len(u) : u[k] \in Blocks /\ u[k] # NoBlock /\ Nth(u, k) = u[k]
      /\ \A k : k \notin 1 .. Len(u) => Nth(u, k) = NoBlock
  BY <1>1, SeqFacts
<1>3. PICK k \in 1 .. Len(u) : u[k] = c
  BY DEF On
<1>4. nx[c] = Nth(u, k + 1)
  BY <1>1, <1>3
<1>5. nx[c] = NoBlock \/ (nx[c] \in Blocks /\ On(u, nx[c]))
  BY <1>2, <1>4 DEF On
<1>6. ASSUME NEW b, From(u, c, b) PROVE b = c \/ (nx[c] # NoBlock /\ From(u, nx[c], b))
  <2>1. PICK i, j \in 1 .. Len(u) : i <= j /\ u[i] = c /\ u[j] = b
    BY <1>6 DEF From
  <2>2. i = k
    BY <1>1, <1>3, <2>1
  <2>3. CASE j = k
    BY <1>3, <2>1, <2>3
  <2>4. CASE j # k
    <3>1. k + 1 \in 1 .. Len(u) /\ k + 1 <= j
      BY <1>2, <2>1, <2>2, <2>4
    <3>2. nx[c] = u[k + 1] /\ nx[c] # NoBlock
      BY <1>2, <1>4, <3>1
    <3>3. QED
      BY <2>1, <3>1, <3>2 DEF From
  <2>5. QED
    BY <2>3, <2>4
<1>7. QED
  BY <1>5, <1>6

(***************************************************************************)
(* The invariant, part by part.                                            *)
(***************************************************************************)
LEMMA QuietLists ==
  ASSUME NEW L, LinkInv(L), CountInv(L), ~Writing(stack), ~Writing(stack'),
         UNCHANGED <<links, numFree, fresh>>
  PROVE  LinkInv(L)' /\ CountInv(L)'
<1>1. next' = next /\ prev' = prev /\ head' = head /\ fresh' = fresh /\ numFree' = numFree
  BY DEF links
<1>2. Linkage(stack', head', next', prev', fresh', L)
  BY <1>1 DEF LinkInv, Linkage
<1>3. numFree' = Len(L["free"]) + Lag(stack')
  BY <1>1 DEF CountInv, Lag
<1>4. QED
  BY <1>2, <1>3 DEF LinkInv, CountInv

(* A call has put its block on a list. *)
LEMMA DoneLists ==
  ASSUME ShapeInv, NEW L, LinkInv(L), Writing(stack), Top.pc = "linked", ~Writing(stack'),
         UNCHANGED <<links, fresh>>
  PROVE  /\ LinkInv(L)' /\ Top.elm \in Blocks
         /\ On(L["inuse"], Top.elm) <=> Top.list = "inuse"
<1> DEFINE l == Top.list
           x == Top.elm
           s == L[l]
           r == L[Other(l)]
<1>1. stack # <<>> /\ l \in Lists
  BY TopFacts DEF Writing
<1>2. /\ L \in [Lists -> Seq(Blocks)]
      /\ Mid(head[l], head[Other(l)], next, prev, "linked", x, s, r)
  BY DEF LinkInv, Linkage, MovesElm, Top
<1>3. /\ Headers(next, prev) /\ x \in Blocks /\ Path(head[l], next, s)
      /\ Path(head[Other(l)], next, r) /\ Back(prev, s, 0) /\ Back(prev, r, 0)
      /\ ~On(r, x) /\ Apart(s, r) /\ s # <<>> /\ s[1] = x
  BY <1>2 DEF Mid, Changing
<1>4. On(s, x)
  <2>1. s \in Seq(Blocks)
    BY <1>3 DEF Path
  <2>2. 1 \in 1 .. Len(s)
    BY <1>3, <2>1, SeqFacts
  <2>3. QED
    BY <1>3, <2>2 DEF On
<1>5. Still(head, next, prev, L)
  <2>1. \A m \in Lists : m = l \/ m = Other(l)
    BY <1>1 DEF Lists, Other
  <2>2. \A m \in Lists : Path(head[m], next, L[m]) /\ Back(prev, L[m], 0)
    BY <1>3, <2>1
  <2>3. Apart(L["free"], L["inuse"])
    BY <1>1, <1>3 DEF Apart, Lists, Other
  <2>4. QED
    BY <1>3, <2>2, <2>3 DEF Still
<1>6. next' = next /\ prev' = prev /\ head' = head /\ fresh' = fresh
  BY DEF links
<1>7. Linkage(stack', head', next', prev', fresh', L)
  BY <1>2, <1>5, <1>6 DEF Linkage, LinkInv
<1>8. On(L["inuse"], x) <=> l = "inuse"
  BY <1>1, <1>3, <1>4 DEF Lists, Other
<1>9. QED
  BY <1>3, <1>7, <1>8 DEF LinkInv

LEMMA RunsTop ==
  ASSUME Runs(stack, stack')
  PROVE  /\ Top' = stack'[Len(stack)] /\ Top = stack[Len(stack)] /\ stack # <<>>
         /\ stack' # <<>> /\ Len(stack) \in Nat /\ Len(stack) # 0
BY EmptySeq DEF Runs, Top

LEMMA OwnRuns ==
  ASSUME NEW L, OwnInv(L), Runs(stack, stack'), UNCHANGED <<live, kept>>,
         Hold(Top') = Hold(Top), Top'.pc # "walk",
         NEW M, \A x \in Blocks : Listed(stack', M["inuse"], x) <=> Listed(stack, L["inuse"], x)
  PROVE  OwnInv(M)'
<1>1. Top' = stack'[Len(stack)] /\ Top = stack[Len(stack)]
  BY RunsTop
<1>2. SameHolds(stack, stack')
  BY <1>1, HoldsRuns
<1>3. WalksKept(stack', kept)
  <2>1. \A k \in 1 .. Len(stack) : k = Len(stack) \/ k \in 1 .. Len(stack) - 1
    BY DEF Runs
  <2>2. QED
    BY <1>1, <2>1 DEF WalksKept, OwnInv, Owned, Runs
<1>4. Owned(stack', live, kept, M["inuse"])
  BY <1>2, <1>3, OwnedSame DEF OwnInv
<1>5. QED
  BY <1>4 DEF OwnInv

LEMMA OwnEnters ==
  ASSUME NEW L, OwnInv(L), Enters(stack, stack'), UNCHANGED <<live, kept>>,
         \/ Hold(stack'[Len(stack)]) = Hold(Top) /\ Hold(Top') = NoBlock
         \/ Hold(stack'[Len(stack)]) = NoBlock /\ Hold(Top') = Hold(Top),
         Top'.pc # "walk", stack'[Len(stack)].pc # "walk", ~Writing(stack), ~Writing(stack')
  PROVE  OwnInv(L)'
<1>1. Top' = stack'[Len(stack')] /\ Top = stack[Len(stack)]
  BY DEF Top
<1>2. SameHolds(stack, stack')
  BY <1>1, HoldsEnters, HoldsPasses
<1>3. WalksKept(stack', kept)
  <2>1. Len(stack) \in Nat /\ Len(stack') = Len(stack) + 1
        /\ \A k \in 1 .. Len(stack) - 1 : stack'[k] = stack[k]
    BY DEF Enters
  <2>2. \A k \in 1 .. Len(stack) + 1 :
          k = Len(stack) \/ k = Len(stack) + 1 \/ (k \in 1 .. Len(stack) - 1 /\ k \in 1 .. Len(stack))
    BY <2>1
  <2>3. QED
    BY <1>1, <2>1, <2>2 DEF WalksKept, OwnInv, Owned
<1>4. \A x \in Blocks : Listed(stack', L["inuse"], x) <=> Listed(stack, L["inuse"], x)
  BY DEF Listed, InHand
<1>5. Owned(stack', live, kept, L["inuse"])
  BY <1>2, <1>3, <1>4, OwnedSame DEF OwnInv
<1>6. QED
  BY <1>5 DEF OwnInv

LEMMA OwnLeaves ==
  ASSUME NEW L, OwnInv(L), Leaves(stack, stack'), UNCHANGED <<live, kept>>,
         Hold(Top) = NoBlock, ~Writing(stack), ~Writing(stack')
  PROVE  OwnInv(L)'
<1>1. SameHolds(stack, stack')
  BY HoldsLeaves DEF Top
<1>2. WalksKept(stack', kept)
  BY DEF WalksKept, OwnInv, Owned, Leaves
<1>3. \A x \in Blocks : Listed(stack', L["inuse"], x) <=> Listed(stack, L["inuse"], x)
  BY DEF Listed, InHand
<1>4. Owned(stack', live, kept, L["inuse"])
  BY <1>1, <1>2, <1>3, OwnedSame DEF OwnInv
<1>5. QED
  BY <1>4 DEF OwnInv

(* A malloc or free that is done was called by a report that waits for it. *)
LEMMA CallerIs ==
  ASSUME ShapeInv, stack # <<>>, Len(stack) > 1, Top.fn \in {"malloc", "free"}
  PROVE  LET g == stack[Len(stack) - 1]
         IN  /\ g.fn = "report" /\ g \in Frames
             /\ \/ g.pc \in {"close", "kept", "printed"} /\ Top.fn = "malloc" /\ g.mine = NoBlock
                \/ g.pc \in {"locale", "advance"} /\ Top.fn = "free"
<1> DEFINE n == Len(stack)
           g == stack[n - 1]
<1>1. StackOk(stack) /\ Top = stack[n]
  BY DEF ShapeInv, Top
<1>2. /\ n \in Nat \ {0}
      /\ \A k \in 1 .. n - 1 : Calls(stack[k], stack[k + 1])
      /\ \A k \in 1 .. n : stack[k] \in Frames
  BY <1>1, StackFacts
<1>3. n - 1 \in 1 .. n - 1 /\ n - 1 \in 1 .. n /\ (n - 1) + 1 = n
  BY <1>2
<1>4. Calls(g, Top) /\ g \in Frames
  BY <1>1, <1>2, <1>3
<1> HIDE DEF g, n
<1>5. /\ g.fn = "report"
      /\ \/ g.pc \in {"close", "kept", "printed"} /\ Top.fn = "malloc" /\ g.mine = NoBlock
         \/ g.pc \in {"locale", "advance"} /\ Top.fn = "free"
  BY <1>4 DEF Calls
<1>6. QED
  BY <1>4, <1>5 DEF g, n

LEMMA OwnHands ==
  ASSUME ShapeInv, NEW L, OwnInv(L), stack # <<>>, Top.fn \in {"malloc", "free"},
         NEW b, Hands(stack, stack', b), Hold(Top) = b, Top.fn = "free" => b = NoBlock,
         UNCHANGED <<live, kept>>,
         \A x \in Blocks : Listed(stack, L["inuse"], x) <=> On(L["inuse"], x)
  PROVE  OwnInv(L)' /\ ~Writing(stack')
<1> DEFINE n == Len(stack)
           g == stack[n - 1]
           h == stack'[n - 1]
<1>1. n > 1 /\ n \in Nat /\ Len(stack') = n - 1 /\ stack' # <<>>
      /\ h.pc = g.pc /\ h.elm = g.elm /\ h.mine = b
      /\ \A k \in 1 .. n - 2 : stack'[k] = stack[k]
  BY DEF Hands
<1>2. \/ g.pc \in {"close", "kept", "printed"} /\ Top.fn = "malloc" /\ g.mine = NoBlock
      \/ g.pc \in {"locale", "advance"} /\ Top.fn = "free"
  BY <1>1, CallerIs
<1>3. Hold(g) = NoBlock /\ Hold(h) = b /\ g.pc # "walk" /\ h.pc \notin LinkLabels
  <2>0. h.pc = g.pc /\ h.mine = b
    BY <1>1
  <2> HIDE DEF g, h
  <2>1. Hold(g) = NoBlock
    BY <1>2, HoldIs
  <2>2. Hold(h) = b
    BY <1>2, <2>0, HoldIs
  <2>3. g.pc # "walk" /\ h.pc \notin LinkLabels
    BY <1>2, <2>0 DEF LinkLabels, Removing, Inserting
  <2>4. QED
    BY <2>1, <2>2, <2>3
<1>4. SameHolds(stack, stack')
  BY <1>3, HoldsHands DEF Top
<1>5. ~Writing(stack')
  BY <1>1, <1>3 DEF Writing
<1>6. WalksKept(stack', kept)
  <2> HIDE DEF n, g, h
  <2>1. \A k \in 1 .. n - 1 : k = n - 1 \/ (k \in 1 .. n - 2 /\ k \in 1 .. n)
    BY <1>1
  <2>2. stack'[n - 1] = h
    BY DEF h
  <2>3. QED
    BY <1>1, <1>3, <2>1, <2>2 DEF WalksKept, OwnInv, Owned, n
<1>7. \A x \in Blocks : Listed(stack', L["inuse"], x) <=> Listed(stack, L["inuse"], x)
  BY <1>5 DEF Listed, InHand
<1>8. Owned(stack', live, kept, L["inuse"])
  BY <1>4, <1>6, <1>7, OwnedSame DEF OwnInv
<1>9. QED
  BY <1>5, <1>8 DEF OwnInv

(* A report's frame that has the same cursor after a step. *)
LEMMA ReportOwn ==
  ASSUME ShapeInv, NEW L, ReportInv(L), NEW k \in 1 .. Len(stack), Prints(stack[k]),
         \A j \in 1 .. k - 1 : stack'[j] = stack[j], live' = live, kept \subseteq kept',
         stack'[k].elm = stack[k].elm, stack[k].seen \subseteq stack'[k].seen,
         stack'[k].pc \in {"printed", "advance"} => stack'[k].elm \in stack'[k].seen,
         NEW M, Follow(stack, live, kept, L["inuse"], M["inuse"])
  PROVE  ReportAt(stack', live', kept', k, M["inuse"])
<1>1. ReportAt(stack, live, kept, k, L["inuse"])
  BY DEF ReportInv, Reported
<1>2. stack # <<>> /\ StackOk(stack) /\ live \subseteq Blocks
  BY DEF ShapeInv, DataOk
<1>3. Len(stack) \in Nat /\ stack[k] \in Frames
  BY <1>2, StackFacts
<1>4. stack[k].elm \in Cell
  BY <1>3 DEF Frames
<1> DEFINE t == stack'
           v == M["inuse"]
           u == L["inuse"]
           kp2 == kept'
<1>5. ReportAt(t, live, kp2, k, v)
  <2>1. /\ \A j \in 1 .. k - 1 : t[j] = stack[j]
        /\ t[k].elm = stack[k].elm /\ stack[k].seen \subseteq t[k].seen
        /\ t[k].pc \in {"printed", "advance"} => t[k].elm \in t[k].seen
        /\ kept \subseteq kp2 /\ Follow(stack, live, kept, u, v)
        /\ ReportAt(stack, live, kept, k, u)
    BY <1>1
  <2> HIDE DEF t, u, v, kp2
  <2>2. QED
    BY <1>2, <1>3, <1>4, <2>1, ReportLike
<1>6. QED
  BY <1>5

LEMMA ReportSteps ==
  ASSUME ShapeInv, NEW L, ReportInv(L), stack # <<>>, live' = live, kept \subseteq kept',
         NEW m \in Int, m <= Len(stack), \A j \in 1 .. m : stack'[j] = stack[j],
         NEW M, Follow(stack, live, kept, L["inuse"], M["inuse"]),
         \A k \in m + 1 .. Len(stack') :
           Prints(stack'[k]) => ReportAt(stack', live', kept', k, M["inuse"]),
         Len(stack') \in Nat
  PROVE  ReportInv(M)'
<1>1. /\ stack \in Seq(Frames) /\ live \subseteq Blocks
      /\ Reported(stack, live, kept, L["inuse"])
  BY TopFacts DEF ShapeInv, DataOk, ReportInv
<1> DEFINE t == stack'
           v == M["inuse"]
           u == L["inuse"]
           kp2 == kept'
<1>2. /\ \A j \in 1 .. m : t[j] = stack[j]
      /\ kept \subseteq kp2 /\ Follow(stack, live, kept, u, v)
      /\ Reported(stack, live, kept, u)
  BY <1>1
<1>3. Len(t) \in Nat /\ live' = live
      /\ \A i \in m + 1 .. Len(t) : Prints(t[i]) => ReportAt(t, live, kp2, i, v)
  OBVIOUS
<1> HIDE DEF t, u, v, kp2
<1>4. \A k \in 1 .. m : Prints(t[k]) => ReportAt(t, live, kp2, k, v)
  BY <1>1, <1>2, ReportsBelow
<1>5. \A k \in 1 .. Len(t) : k \in 1 .. m \/ k \in m + 1 .. Len(t)
  BY <1>3
<1>6. Reported(t, live, kp2, v)
  BY <1>3, <1>4, <1>5 DEF Reported
<1>7. QED
  BY <1>3, <1>6 DEF ReportInv, t, kp2, v

(* The running frame goes on, or ends. *)
LEMMA ReportRuns ==
  ASSUME ShapeInv, NEW L, ReportInv(L), Runs(stack, stack'), live' = live, kept \subseteq kept',
         NEW M, Follow(stack, live, kept, L["inuse"], M["inuse"]),
         Prints(Top') => ReportAt(stack', live', kept', Len(stack), M["inuse"])
  PROVE  ReportInv(M)'
<1> DEFINE n == Len(stack)
<1>1. n \in Nat /\ Len(stack') = n /\ stack # <<>> /\ \A j \in 1 .. n - 1 : stack'[j] = stack[j]
  BY DEF Runs
<1>2. Top' = stack'[n]
  BY RunsTop
<1>3. Prints(stack'[n]) => ReportAt(stack', live', kept', n, M["inuse"])
  BY <1>2
<1> HIDE DEF n
<1>4. \A k \in (n - 1) + 1 .. Len(stack') : k = n
  BY <1>1
<1>5. n - 1 \in Int /\ n - 1 <= Len(stack) /\ Len(stack') \in Nat
  BY <1>1 DEF n
<1>6. QED
  BY <1>1, <1>3, <1>4, <1>5, ReportSteps

LEMMA ReportEnters ==
  ASSUME ShapeInv, NEW L, ReportInv(L), Enters(stack, stack'), live' = live, kept' = kept,
         ~Prints(Top'),
         Prints(stack'[Len(stack)]) => ReportAt(stack', live', kept', Len(stack), L["inuse"])
  PROVE  ReportInv(L)'
<1> DEFINE n == Len(stack)
<1>1. n \in Nat /\ Len(stack') = n + 1 /\ stack # <<>>
      /\ \A j \in 1 .. n - 1 : stack'[j] = stack[j]
  BY DEF Enters
<1>2. Top' = stack'[n + 1]
  BY <1>1 DEF Top
<1>3. ~Prints(stack'[n + 1]) /\ (Prints(stack'[n]) => ReportAt(stack', live', kept', n, L["inuse"]))
  BY <1>2
<1> HIDE DEF n
<1>4. \A k \in (n - 1) + 1 .. Len(stack') : k = n \/ k = n + 1
  BY <1>1
<1>5. n - 1 \in Int /\ n - 1 <= Len(stack) /\ Len(stack') \in Nat
  BY <1>1 DEF n
<1>6. Follow(stack, live, kept, L["inuse"], L["inuse"])
  BY SameFollows
<1>7. \A k \in (n - 1) + 1 .. Len(stack') :
        Prints(stack'[k]) => ReportAt(stack', live', kept', k, L["inuse"])
  BY <1>3, <1>4
<1>8. QED
  BY <1>1, <1>5, <1>6, <1>7, ReportSteps

LEMMA ReportLeaves ==
  ASSUME ShapeInv, NEW L, ReportInv(L), Leaves(stack, stack'), live' = live, kept' = kept
  PROVE  ReportInv(L)'
<1> DEFINE n == Len(stack)
<1>1. n \in Nat /\ Len(stack') = n - 1 /\ stack # <<>>
      /\ \A j \in 1 .. n - 1 : stack'[j] = stack[j]
  BY DEF Leaves
<1>2. n \in Nat \ {0}
  BY <1>1, TopFacts
<1> HIDE DEF n
<1>3. \A k \in (n - 1) + 1 .. Len(stack') : FALSE
  BY <1>1
<1>4. n - 1 \in Int /\ n - 1 <= Len(stack) /\ Len(stack') \in Nat
  BY <1>1, <1>2 DEF n
<1>5. Follow(stack, live, kept, L["inuse"], L["inuse"])
  BY SameFollows
<1>6. QED
  BY <1>1, <1>3, <1>4, <1>5, ReportSteps

LEMMA ReportHands ==
  ASSUME ShapeInv, NEW L, ReportInv(L), NEW b, Hands(stack, stack', b), live' = live, kept' = kept
  PROVE  ReportInv(L)'
<1> DEFINE n == Len(stack)
           g == stack[n - 1]
           h == stack'[n - 1]
<1>1. /\ n \in Nat /\ n > 1 /\ Len(stack') = n - 1
      /\ \A j \in 1 .. n - 2 : stack'[j] = stack[j]
      /\ h.fn = g.fn /\ h.pc = g.pc /\ h.elm = g.elm /\ h.seen = g.seen
  BY DEF Hands
<1>2. stack # <<>>
  BY <1>1, EmptySeq
<1>3. Follow(stack, live, kept, L["inuse"], L["inuse"])
  BY SameFollows
<1>4. n - 1 \in 1 .. Len(stack) /\ \A j \in 1 .. (n - 1) - 1 : stack'[j] = stack[j]
  BY <1>1
<1>5. Prints(h) => ReportAt(stack', live', kept', n - 1, L["inuse"])
  <2>1. SUFFICES ASSUME Prints(h) PROVE ReportAt(stack', live', kept', n - 1, L["inuse"])
    OBVIOUS
  <2>2. Prints(g)
    BY <1>1, <2>1 DEF Prints
  <2>3. g.pc \in {"printed", "advance"} => g.elm \in g.seen
    BY <1>4, <2>2 DEF ReportInv, Reported, ReportAt
  <2>4. h.pc \in {"printed", "advance"} => h.elm \in h.seen
    BY <1>1, <2>3
  <2> DEFINE k == n - 1
  <2>5. /\ k \in 1 .. Len(stack) /\ Prints(stack[k]) /\ \A j \in 1 .. k - 1 : stack'[j] = stack[j]
        /\ stack'[k].elm = stack[k].elm /\ stack[k].seen \subseteq stack'[k].seen
        /\ stack'[k].pc \in {"printed", "advance"} => stack'[k].elm \in stack'[k].seen
        /\ kept \subseteq kept'
    BY <1>1, <1>4, <2>2, <2>4
  <2> HIDE DEF k
  <2>6. ReportAt(stack', live', kept', k, L["inuse"])
    BY <1>3, <2>5, ReportOwn
  <2>7. QED
    BY <2>6 DEF k
<1>6. Prints(stack'[n - 1]) => ReportAt(stack', live', kept', n - 1, L["inuse"])
  BY <1>5
<1> HIDE DEF n, g, h
<1>7. \A k \in (n - 2) + 1 .. Len(stack') : k = n - 1
  BY <1>1
<1>8. n - 2 \in Int /\ n - 2 <= Len(stack) /\ Len(stack') \in Nat
  BY <1>1 DEF n
<1>9. \A k \in (n - 2) + 1 .. Len(stack') :
        Prints(stack'[k]) => ReportAt(stack', live', kept', k, L["inuse"])
  BY <1>6, <1>7
<1>10. kept \subseteq kept'
  OBVIOUS
<1>11. QED
  BY <1>1, <1>2, <1>3, <1>8, <1>9, <1>10, ReportSteps

(***************************************************************************)
(* The writes of rmElm and insertElmHead, once more: all of the invariant. *)
(***************************************************************************)
IsLink == \/ Remove1 \/ Remove2 \/ Remove3 \/ Remove4 \/ Remove5
          \/ Insert1 \/ Insert2 \/ Insert3 \/ Insert4
LEMMA LinkKeeps ==
  ASSUME ShapeInv, NEW L, ListsAre(L), IsLink
  PROVE  \E M : ListsAre(M)' /\ Moved1(L, M)
<1>1. LinkInv(L) /\ CountInv(L) /\ OwnInv(L) /\ ReportInv(L)
  BY DEF ListsAre
<1>2. /\ (\E M : Written1(L, M)) /\ Written /\ Runs(stack, stack') /\ Hold(Top) = NoBlock
      /\ Hold(Top') = NoBlock /\ Top'.pc \in LinkLabels /\ ~Prints(Top')
  BY <1>1, LinkWrites DEF IsLink
<1>3. PICK M : Written1(L, M)
  BY <1>2
<1>4. /\ LinkInv(M)' /\ Moved1(L, M) /\ Rest(L, M, Top.elm)
      /\ Top'.elm = Top.elm /\ Writing(stack) /\ Writing(stack')
      /\ Len(M["free"]) + Lag(stack') = Len(L["free"]) + Lag(stack)
  BY <1>3 DEF Written1
<1>5. numFree' = numFree /\ live' = live /\ kept' = kept
  BY <1>2 DEF Written
<1>6. CountInv(M)'
  BY <1>1, <1>4, <1>5 DEF CountInv
<1>7. KeepsOrder(L["inuse"], M["inuse"], Top.elm)
  BY <1>4, OtherList DEF Rest
<1>8. Top = stack[Len(stack)] /\ Top' = stack'[Len(stack')]
  BY DEF Top
<1>9. /\ \A x \in Blocks : InHand(stack, x) <=> x = Top.elm
      /\ \A x \in Blocks : InHand(stack', x) <=> x = Top.elm
  BY <1>4, <1>8 DEF InHand
<1>10. \A x \in Blocks : Listed(stack', M["inuse"], x) <=> Listed(stack, L["inuse"], x)
  BY <1>7, <1>9 DEF Listed, KeepsOrder
<1>11. Top'.pc # "walk"
  BY <1>2 DEF LinkLabels, Removing, Inserting
<1>12. OwnInv(M)'
  BY <1>1, <1>2, <1>5, <1>10, <1>11, OwnRuns
<1>13. Follow(stack, live, kept, L["inuse"], M["inuse"])
  <2>1. \A x \in Blocks : Owns(stack, live, kept, x) => x # Top.elm
    BY <1>1, <1>9 DEF OwnInv, Owned
  <2>2. QED
    BY <1>7, <2>1 DEF Follow, KeepsOrder
<1>14. ReportInv(M)'
  BY <1>1, <1>2, <1>5, <1>13, ReportRuns
<1>15. QED
  BY <1>4, <1>6, <1>12, <1>14 DEF ListsAre

(***************************************************************************)
(* The steps that write no pointer, by the way the stack changes.          *)
(***************************************************************************)
StillBin == UNCHANGED <<links, numFree, fresh, live, kept>>

LEMMA NotWriting ==
  ASSUME Top.pc \notin LinkLabels
  PROVE  ~Writing(stack)
BY DEF Writing, Top

LEMMA RunsKeeps ==
  ASSUME ShapeInv, NEW L, ListsAre(L), Runs(stack, stack'), StillBin, Hold(Top') = Hold(Top),
         Top.pc \notin LinkLabels, Top'.pc \notin LinkLabels \cup {"walk"},
         Prints(Top') => ReportAt(stack', live', kept', Len(stack), L["inuse"])
  PROVE  ListsAre(L)'
<1>1. LinkInv(L) /\ CountInv(L) /\ OwnInv(L) /\ ReportInv(L)
  BY DEF ListsAre
<1>2. UNCHANGED <<links, numFree, fresh>> /\ live' = live /\ kept' = kept /\ kept \subseteq kept'
  BY DEF StillBin
<1>3. ~Writing(stack) /\ ~Writing(stack') /\ Top'.pc # "walk"
  BY DEF Writing, Top
<1>4. LinkInv(L)' /\ CountInv(L)'
  BY <1>1, <1>2, <1>3, QuietLists
<1>5. \A x \in Blocks : Listed(stack', L["inuse"], x) <=> Listed(stack, L["inuse"], x)
  BY <1>3 DEF Listed, InHand
<1>6. OwnInv(L)'
  BY <1>1, <1>2, <1>3, <1>5, OwnRuns
<1>7. ReportInv(L)'
  BY <1>1, <1>2, SameFollows, ReportRuns
<1>8. QED
  BY <1>4, <1>6, <1>7 DEF ListsAre

LEMMA EntersKeeps ==
  ASSUME ShapeInv, NEW L, ListsAre(L), NEW p \in Labels \ (LinkLabels \cup {"walk"}), NEW c,
         CallsAt(p, c), StillBin, c.pc \notin LinkLabels \cup {"walk"}, ~Prints(c),
         \/ Hold(stack'[Len(stack)]) = Hold(Top) /\ Hold(c) = NoBlock
         \/ Hold(stack'[Len(stack)]) = NoBlock /\ Hold(c) = Hold(Top),
         Top.pc \notin LinkLabels,
         Prints(stack'[Len(stack)]) => ReportAt(stack', live', kept', Len(stack), L["inuse"])
  PROVE  ListsAre(L)'
<1>1. LinkInv(L) /\ CountInv(L) /\ OwnInv(L) /\ ReportInv(L)
  BY DEF ListsAre
<1>2. UNCHANGED <<links, numFree, fresh>> /\ live' = live /\ kept' = kept
  BY DEF StillBin
<1>3. Enters(stack, stack') /\ Top' = c /\ stack'[Len(stack)].pc = p
  BY DEF CallsAt
<1>4. ~Writing(stack) /\ ~Writing(stack') /\ Top'.pc # "walk" /\ stack'[Len(stack)].pc # "walk"
  BY <1>3 DEF Writing, Top
<1>5. LinkInv(L)' /\ CountInv(L)'
  BY <1>1, <1>2, <1>4, QuietLists
<1>6. OwnInv(L)'
  BY <1>1, <1>2, <1>3, <1>4, OwnEnters
<1>7. ReportInv(L)'
  BY <1>1, <1>2, <1>3, ReportEnters
<1>8. QED
  BY <1>5, <1>6, <1>7 DEF ListsAre

(* A call ends, and gives b to its caller. *)
LEMMA GivesKeeps ==
  ASSUME ShapeInv, NEW L, OwnInv(L), ReportInv(L), stack # <<>>, Top.fn \in {"malloc", "free"},
         NEW b \in Cell, GivesBack(b), Hold(Top) = b, Top.fn = "free" => b = NoBlock,
         kept' = kept, \A x \in Blocks : Listed(stack, L["inuse"], x) <=> On(L["inuse"], x)
  PROVE  OwnInv(L)' /\ ReportInv(L)' /\ ~Writing(stack')
<1>1. CASE Len(stack) > 1 /\ Hands(stack, stack', b) /\ live' = live
  <2>1. OwnInv(L)' /\ ~Writing(stack')
    BY <1>1, OwnHands
  <2>2. ReportInv(L)'
    BY <1>1, ReportHands
  <2>3. QED
    BY <2>1, <2>2
<1>2. CASE Ended /\ live' = live \cup ({b} \ {NoBlock})
  <2>1. stack' = <<>> /\ Len(stack) = 1 /\ Top = stack[1]
    BY <1>2 DEF Ended, Top
  <2>2. ~Writing(stack')
    BY <2>1 DEF Writing
  <2>3. Reported(stack', live', kept', L["inuse"])
    BY <2>1 DEF Reported
  <2>4. Hold(stack[1]) = b
    BY <2>1
  <2>5. Owned(stack, live, kept, L["inuse"])
    BY DEF OwnInv
  <2> DEFINE t == stack'
             lw == live'
             u == L["inuse"]
  <2>6. Owned(t, lw, kept, u)
    <3>1. t = <<>> /\ lw = live \cup ({b} \ {NoBlock}) /\ Owned(stack, live, kept, u)
          /\ \A x \in Blocks : Listed(stack, u, x) <=> On(u, x)
      BY <1>2, <2>1, <2>5
    <3> HIDE DEF t, lw, u
    <3>2. QED
      BY <2>1, <2>4, <3>1, OwnedEnds
  <2>7. QED
    BY <2>2, <2>3, <2>6 DEF OwnInv, ReportInv
<1>3. QED
  BY <1>1, <1>2 DEF GivesBack

(* The program calls. *)
LEMMA StartsKeeps ==
  ASSUME ShapeInv, NEW L, ListsAre(L), NEW c, StartsWith(c), c.pc \notin LinkLabels \cup {"walk"},
         ~Prints(c), Hold(c) = NoBlock \/ Hold(c) \in live, live' = live \ {Hold(c)},
         UNCHANGED <<links, numFree, fresh, kept>>
  PROVE  ListsAre(L)'
<1>1. LinkInv(L) /\ CountInv(L) /\ Owned(stack, live, kept, L["inuse"])
  BY DEF ListsAre, OwnInv
<1>2. stack = <<>> /\ stack' # <<>> /\ Len(stack') = 1 /\ stack'[1] = c
  BY DEF StartsWith
<1>3. ~Writing(stack) /\ ~Writing(stack')
  BY <1>2 DEF Writing
<1>4. LinkInv(L)' /\ CountInv(L)'
  BY <1>1, <1>3, QuietLists
<1>5. live \subseteq Blocks
  BY DEF ShapeInv, DataOk
<1> DEFINE t == stack'
           lw == live'
           u == L["inuse"]
<1>6. Owned(t, lw, kept, u)
  <2>1. /\ Len(t) = 1 /\ ~Writing(t) /\ t[1].pc # "walk" /\ lw = live \ {Hold(t[1])}
        /\ Hold(t[1]) = NoBlock \/ Hold(t[1]) \in live
        /\ Owned(stack, live, kept, u)
    BY <1>1, <1>2, <1>3
  <2> HIDE DEF t, lw, u
  <2>2. QED
    BY <1>2, <1>5, <2>1, OwnedStarts
<1>7. Reported(stack', live', kept', L["inuse"])
  BY <1>2 DEF Reported
<1>8. QED
  BY <1>4, <1>6, <1>7 DEF ListsAre, OwnInv, ReportInv

(***************************************************************************)
(* The steps of getBuf.                                                    *)
(***************************************************************************)
LEMMA ReplenishKeeps ==
  ASSUME ShapeInv, NEW L, ListsAre(L), Replenish
  PROVE  ListsAre(L)'
<1>1. /\ Runs(stack, stack') /\ Top'.fn = "malloc"
      /\ Top.pc = "replenish" /\ Top'.pc \in {"pool", "load"}
  BY ReplenishGoes DEF KeepsAll, Keeps
<1>2. Hold(Top) = NoBlock /\ Hold(Top') = NoBlock /\ ~Prints(Top')
  BY <1>1, HoldIs DEF Prints
<1>3. Top.pc \notin LinkLabels /\ Top'.pc \notin LinkLabels \cup {"walk"}
  BY <1>1 DEF LinkLabels, Removing, Inserting
<1>4. StillBin
  BY DEF Replenish, StillBin
<1>5. QED
  BY <1>1, <1>2, <1>3, <1>4, RunsKeeps

LEMMA LimitKeeps ==
  ASSUME ShapeInv, NEW L, ListsAre(L), Limit
  PROVE  ListsAre(L)'
<1>1. /\ Top.fn = "malloc" /\ Top.pc = "limit" /\ Top.pc \notin LinkLabels
      /\ \/ Runs(stack, stack') /\ KeepsAll(Top, Top') /\ Top'.pc = "publish"
         \/ CallsAt("limit", ReportFrame("limit"))
  BY LimitGoes DEF LinkLabels, Removing, Inserting
<1>2. StillBin
  BY DEF Limit, StillBin
<1>3. CASE Runs(stack, stack') /\ KeepsAll(Top, Top') /\ Top'.pc = "publish"
  <2>1. Hold(Top') = Hold(Top)
    BY <1>1, <1>3, HoldIs DEF KeepsAll
  <2>2. ~Prints(Top') /\ Top'.pc \notin LinkLabels \cup {"walk"}
    BY <1>3 DEF Prints, LinkLabels, Removing, Inserting
  <2>3. QED
    BY <1>1, <1>2, <1>3, <2>1, <2>2, RunsKeeps
<1>4. CASE CallsAt("limit", ReportFrame("limit"))
  <2> DEFINE c == ReportFrame("limit")
  <2>1. c.pc = "open"
    BY DEF ReportFrame, Frame
  <2>2. c.pc \notin LinkLabels \cup {"walk"} /\ ~Prints(c) /\ Hold(c) = NoBlock
    BY <2>1, HoldIs DEF LinkLabels, Removing, Inserting, Prints
  <2>3. "limit" \in Labels \ (LinkLabels \cup {"walk"})
    BY DEF Labels, LinkLabels, Removing, Inserting
  <2>4. /\ stack'[Len(stack)].pc = "limit" /\ stack'[Len(stack)].elm = Top.elm
        /\ stack'[Len(stack)].fn = "malloc"
    BY <1>1, <1>4 DEF CallsAt, KeepsAll, Keeps
  <2>5. Hold(stack'[Len(stack)]) = Hold(Top) /\ ~Prints(stack'[Len(stack)])
    BY <1>1, <2>4, HoldIs DEF Prints
  <2> HIDE DEF c
  <2>6. CallsAt("limit", c)
    BY <1>4 DEF c
  <2>7. QED
    BY <1>1, <1>2, <2>2, <2>3, <2>5, <2>6, EntersKeeps
<1>5. QED
  BY <1>1, <1>3, <1>4

LEMMA FilledKeeps ==
  ASSUME ShapeInv, NEW L, ListsAre(L), Filled
  PROVE  ListsAre(L)'
<1>1. LinkInv(L) /\ CountInv(L) /\ OwnInv(L) /\ ReportInv(L)
  BY DEF ListsAre
<1>2. /\ Runs(stack, stack') /\ Top'.fn = "malloc" /\ Top.fn = "malloc" /\ Top.pc = "linked"
      /\ Top.list = "free" /\ Top'.pc \in {"pool", "load"} /\ Top.elm \in Blocks
  BY FilledGoes DEF KeepsAll, Keeps
<1>3. numFree' = numFree + 1 /\ UNCHANGED <<links, fresh>> /\ live' = live /\ kept' = kept
      /\ kept \subseteq kept' /\ UNCHANGED <<live, kept>>
  BY DEF Filled
<1>4. Top = stack[Len(stack)] /\ Top' = stack'[Len(stack')]
  BY DEF Top
<1>5. Writing(stack) /\ ~Writing(stack') /\ Top'.pc # "walk"
  BY <1>2, <1>4 DEF Writing, Runs, LinkLabels, Removing, Inserting
<1>6. LinkInv(L)' /\ ~On(L["inuse"], Top.elm)
  BY <1>1, <1>2, <1>3, <1>5, DoneLists
<1>7. CountInv(L)'
  <2>1. Lag(stack) = -1 /\ Lag(stack') = 0
    BY <1>2, <1>4, <1>5 DEF Lag, LagOf
  <2>2. Len(L["free"]) \in Nat
    BY <1>1, OtherList, SeqFacts DEF LinkInv, Linkage
  <2>3. QED
    BY <1>1, <1>3, <2>1, <2>2 DEF CountInv
<1>8. \A x \in Blocks : Listed(stack', L["inuse"], x) <=> Listed(stack, L["inuse"], x)
  BY <1>4, <1>5, <1>6 DEF Listed, InHand
<1>9. Hold(Top) = NoBlock /\ Hold(Top') = NoBlock /\ ~Prints(Top')
  BY <1>2, HoldIs DEF Prints
<1>10. OwnInv(L)'
  BY <1>1, <1>2, <1>3, <1>5, <1>8, <1>9, OwnRuns
<1>11. ReportInv(L)'
  BY <1>1, <1>2, <1>3, <1>9, SameFollows, ReportRuns
<1>12. QED
  BY <1>6, <1>7, <1>10, <1>11 DEF ListsAre

LEMMA WalksStay ==
  ASSUME NEW L, OwnInv(L), Runs(stack, stack') \/ Enters(stack, stack'),
         stack'[Len(stack)].pc # "walk", Top'.pc # "walk", kept \subseteq kept'
  PROVE  WalksKept(stack', kept')
<1>1. \A k \in 1 .. Len(stack) : stack[k].pc = "walk" => stack[k].mine \in kept'
  BY DEF OwnInv, Owned
<1>2. Top' = stack'[Len(stack')]
  BY DEF Top
<1>3. CASE Runs(stack, stack')
  <2>1. \A k \in 1 .. Len(stack) : k = Len(stack) \/ k \in 1 .. Len(stack) - 1
    BY <1>3 DEF Runs
  <2>2. QED
    BY <1>1, <1>2, <1>3, <2>1 DEF Runs, WalksKept
<1>4. CASE Enters(stack, stack')
  <2>1. Len(stack) \in Nat /\ Len(stack') = Len(stack) + 1
        /\ \A i \in 1 .. Len(stack) - 1 : stack'[i] = stack[i]
    BY <1>4 DEF Enters
  <2>2. \A k \in 1 .. Len(stack) + 1 :
          k = Len(stack) \/ k = Len(stack) + 1 \/ (k \in 1 .. Len(stack) - 1 /\ k \in 1 .. Len(stack))
    BY <2>1
  <2>3. QED
    BY <1>1, <1>2, <2>1, <2>2 DEF WalksKept
<1>5. QED
  BY <1>3, <1>4

(* The block that getBuf has put on the list in use is its own. *)
LEMMA CountKeeps ==
  ASSUME ShapeInv, NEW L, ListsAre(L), Count
  PROVE  ListsAre(L)'
<1> DEFINE f == stack'[Len(stack)]
<1>1. LinkInv(L) /\ CountInv(L) /\ OwnInv(L) /\ ReportInv(L)
  BY DEF ListsAre
<1>2. /\ Top.fn = "malloc" /\ Top.pc = "linked" /\ Top.list = "inuse" /\ Top.elm \in Blocks
      /\ f.pc = "limit" /\ f.fn = "malloc" /\ f.elm = Top.elm
      /\ \/ Runs(stack, stack') /\ Top' = f
         \/ Enters(stack, stack') /\ Top' = ReportFrame("hwm")
  BY CountGoes, RunsTop DEF CallsAt, KeepsAll, Keeps
<1>3. numFree' = numFree - 1 /\ UNCHANGED <<links, fresh>> /\ live' = live /\ kept' = kept
      /\ kept \subseteq kept'
  BY DEF Count
<1>4. Top = stack[Len(stack)] /\ Top' = stack'[Len(stack')] /\ stack # <<>> /\ stack' # <<>>
  BY <1>2 DEF Top, Runs, Enters
<1>5. Top'.pc \in {"limit", "open"} /\ ~Prints(Top') /\ ~Prints(f)
  BY <1>2 DEF ReportFrame, Frame, Prints
<1>6. Hold(Top) = NoBlock /\ Hold(f) = Top.elm
  BY <1>2, HoldIs
<1>7. Writing(stack) /\ ~Writing(stack') /\ Top'.pc # "walk" /\ f.pc # "walk"
  BY <1>2, <1>4, <1>5 DEF Writing, LinkLabels, Removing, Inserting
<1>8. LinkInv(L)' /\ On(L["inuse"], Top.elm)
  BY <1>1, <1>2, <1>3, <1>7, DoneLists
<1>9. CountInv(L)'
  <2>1. Lag(stack) = 1 /\ Lag(stack') = 0
    BY <1>2, <1>4, <1>7 DEF Lag, LagOf
  <2>2. Len(L["free"]) \in Nat
    BY <1>1, OtherList, SeqFacts DEF LinkInv, Linkage
  <2>3. QED
    BY <1>1, <1>3, <2>1, <2>2 DEF CountInv
<1> DEFINE t == stack'
           x == Top.elm
           u == L["inuse"]
<1>10. OwnInv(L)'
  <2>1. Owned(stack, live, kept, u) /\ InHand(stack, x) /\ x \in Blocks
    BY <1>1, <1>2, <1>4, <1>7 DEF OwnInv, InHand
  <2>2. ~Holds(stack, x)
    BY <2>1 DEF Owned, Owns
  <2>3. WalksKept(t, kept)
    BY <1>1, <1>2, <1>3, <1>7, WalksStay
  <2>4. Runs(stack, t) \/ (Enters(stack, t) /\ Hold(t[Len(t)]) = NoBlock)
    BY <1>2, <1>4, <1>5, HoldIs DEF ReportFrame, Frame
  <2>5. Hold(stack[Len(stack)]) = NoBlock /\ Hold(t[Len(stack)]) = x
    BY <1>4, <1>6
  <2>6. ~Writing(t) /\ On(u, x)
    BY <1>7, <1>8
  <2> HIDE DEF t, x, u, f
  <2>7. /\ \A y \in Blocks : Holds(t, y) <=> Holds(stack, y) \/ y = x
        /\ HoldsOnce(stack) => HoldsOnce(t)
    BY <2>1, <2>2, <2>4, <2>5, HoldsGains
  <2>8. Owned(t, live, kept, u)
    BY <2>1, <2>3, <2>6, <2>7, OwnedGains
  <2>9. QED
    BY <1>3, <2>8 DEF OwnInv, t, u
<1>11. ReportInv(L)'
  <2>1. CASE Runs(stack, stack') /\ Top' = f
    BY <1>1, <1>3, <1>5, <2>1, SameFollows, ReportRuns
  <2>2. CASE Enters(stack, stack') /\ Top' = ReportFrame("hwm")
    BY <1>1, <1>3, <1>5, <2>2, ReportEnters
  <2>3. QED
    BY <1>2, <2>1, <2>2
<1>12. QED
  BY <1>8, <1>9, <1>10, <1>11 DEF ListsAre

LEMMA PublishKeeps ==
  ASSUME ShapeInv, NEW L, ListsAre(L), Publish
  PROVE  ListsAre(L)'
<1>1. LinkInv(L) /\ CountInv(L) /\ OwnInv(L) /\ ReportInv(L)
  BY DEF ListsAre
<1>2. /\ Top.fn = "malloc" /\ Top.pc = "publish" /\ Top.elm \in Blocks /\ stack # <<>>
      /\ GivesBack(Top.elm) \/ (stack' = stack /\ live' = live)
  BY PublishGoes
<1>3. UNCHANGED <<links, numFree, fresh>> /\ kept' = kept
  BY DEF Publish
<1>4. ~Writing(stack) /\ Hold(Top) = Top.elm
  BY <1>2, NotWriting, HoldIs DEF LinkLabels, Removing, Inserting
<1>5. CASE GivesBack(Top.elm)
  <2>1. \A x \in Blocks : Listed(stack, L["inuse"], x) <=> On(L["inuse"], x)
    BY <1>4 DEF Listed, InHand
  <2>2. Top.elm \in Cell /\ Top.fn # "free"
    BY <1>2 DEF Cell
  <2>3. OwnInv(L)' /\ ReportInv(L)' /\ ~Writing(stack')
    BY <1>1, <1>2, <1>3, <1>4, <1>5, <2>1, <2>2, GivesKeeps
  <2>4. QED
    BY <1>1, <1>3, <1>4, <2>3, QuietLists DEF ListsAre
<1>6. CASE stack' = stack /\ live' = live
  BY <1>1, <1>3, <1>4, <1>6, QuietLists DEF ListsAre, OwnInv, ReportInv
<1>7. QED
  BY <1>2, <1>5, <1>6

(***************************************************************************)
(* putBuf, and the calls that begin to move a block.                       *)
(***************************************************************************)
LEMMA PutKeeps ==
  ASSUME ShapeInv, NEW L, ListsAre(L), Put
  PROVE  ListsAre(L)'
<1>1. LinkInv(L) /\ CountInv(L) /\ OwnInv(L) /\ ReportInv(L)
  BY DEF ListsAre
<1>2. /\ Top.fn = "free" /\ Top.pc = "linked" /\ Top.list = "free" /\ Top.elm \in Blocks
      /\ stack # <<>> /\ GivesBack(NoBlock)
  BY PutGoes
<1>3. UNCHANGED <<links, fresh>> /\ numFree' = numFree + 1 /\ kept' = kept
  BY DEF Put
<1>4. Writing(stack) /\ Top = stack[Len(stack)] /\ Hold(Top) = NoBlock
  BY <1>2, HoldIs DEF Writing, Top, LinkLabels, Removing, Inserting
<1>5. ~On(L["inuse"], Top.elm)
  <2>1. Mid(head["free"], head["inuse"], next, prev, "linked", Top.elm, L["free"], L["inuse"])
    BY <1>1, <1>2, <1>4, OtherList DEF LinkInv, Linkage, MovesElm
  <2>2. QED
    BY <2>1 DEF Mid
<1>6. \A x \in Blocks : Listed(stack, L["inuse"], x) <=> On(L["inuse"], x)
  BY <1>4, <1>5 DEF Listed, InHand
<1>7. NoBlock \in Cell /\ Top.fn \in {"malloc", "free"}
  BY <1>2 DEF Cell
<1>8. OwnInv(L)' /\ ReportInv(L)' /\ ~Writing(stack')
  BY <1>1, <1>2, <1>3, <1>4, <1>6, <1>7, GivesKeeps
<1>9. LinkInv(L)'
  BY <1>1, <1>2, <1>3, <1>4, <1>8, DoneLists
<1>10. CountInv(L)'
  <2>1. Lag(stack) = -1 /\ Lag(stack') = 0
    BY <1>2, <1>4, <1>8 DEF Lag, LagOf
  <2>2. Len(L["free"]) \in Nat
    BY <1>1, OtherList, SeqFacts DEF LinkInv, Linkage
  <2>3. QED
    BY <1>1, <1>3, <2>1, <2>2 DEF CountInv
<1>11. QED
  BY <1>8, <1>9, <1>10 DEF ListsAre

(* A call begins to move x, which is on list l, or new (pc = "in1"). *)
LEMMA BeginsLinks ==
  ASSUME ShapeInv, NEW L, LinkInv(L), CountInv(L), ~Writing(stack), Runs(stack, stack'),
         NEW x \in Blocks, Top'.elm = x, NEW l \in Lists, Top'.list = l,
         \/ Top'.pc = "rm1" /\ On(L[l], x) /\ fresh' = fresh
         \/ Top'.pc = "in1" /\ l = "free" /\ x \in fresh /\ fresh' = fresh \ {x},
         Top'.fn = "malloc" => l = "free" /\ (Top'.pc = "rm1" => head["free"] = x),
         Top'.fn \in {"malloc", "free"}, UNCHANGED <<links, numFree>>
  PROVE  LinkInv(L)' /\ CountInv(L)' /\ Writing(stack') /\ \A y : InHand(stack', y) <=> y = x
<1>1. next' = next /\ prev' = prev /\ head' = head /\ numFree' = numFree
  BY DEF links
<1>2. /\ L \in [Lists -> Seq(Blocks)] /\ Still(head, next, prev, L)
      /\ \A y \in fresh : ~On(L["free"], y) /\ ~On(L["inuse"], y)
  BY DEF LinkInv, Linkage
<1>3. stack' # <<>> /\ Top' = stack'[Len(stack')]
  BY DEF Runs, Top
<1>4. Writing(stack') /\ \A y : InHand(stack', y) <=> y = x
  BY <1>3 DEF Writing, InHand, LinkLabels, Removing, Inserting
<1> DEFINE g == Top'
           s == L[l]
           r == L[Other(l)]
<1>5. /\ Headers(next, prev) /\ Path(head[l], next, s) /\ Path(head[Other(l)], next, r)
      /\ Back(prev, s, 0) /\ Back(prev, r, 0) /\ Apart(s, r)
  BY <1>2, OtherList DEF Still, Apart, Lists, Other
<1>6. Mid(head[l], head[Other(l)], next, prev, g.pc, x, s, r) /\ x \notin fresh'
  <2>1. CASE g.pc = "rm1" /\ On(s, x) /\ fresh' = fresh
    <3>1. ~On(r, x)
      BY <1>5, <2>1 DEF Apart
    <3>2. x \notin fresh
      BY <1>2, <2>1 DEF Lists
    <3>3. QED
      BY <1>5, <2>1, <3>1, <3>2 DEF Mid, Changing
  <2>2. CASE g.pc = "in1" /\ l = "free" /\ x \in fresh /\ fresh' = fresh \ {x}
    <3>1. ~On(s, x) /\ ~On(r, x)
      BY <1>2, <2>2, OtherList
    <3>2. QED
      BY <1>5, <2>2, <3>1 DEF Mid, Changing
  <2>3. QED
    BY <2>1, <2>2
<1>7. /\ g.elm = x /\ g.list = l /\ g.pc \in {"rm1", "in1"}
      /\ g.fn = "malloc" /\ g.pc = "rm1" => head["free"] = x
      /\ g.fn = "malloc" => l = "free"
      /\ g.pc = "in1" => l = "free"
      /\ \A y \in fresh' : y \in fresh
  OBVIOUS
<1> HIDE DEF g, s, r
<1>8. MovesElm(g, head, next, prev, fresh', L)
  BY <1>6, <1>7 DEF MovesElm, s, r
<1>9. \A y \in fresh' : ~On(L["free"], y) /\ ~On(L["inuse"], y)
  BY <1>2, <1>7
<1>10. Linkage(stack', head, next, prev, fresh', L)
  BY <1>2, <1>3, <1>4, <1>8, <1>9 DEF Linkage, g
<1>11. LagOf(g) = 0
  BY <1>7 DEF LagOf, Removing, Lists
<1>12. Lag(stack') = 0 /\ Lag(stack) = 0
  BY <1>3, <1>4, <1>11 DEF Lag, g
<1>13. QED
  BY <1>1, <1>4, <1>10, <1>12 DEF LinkInv, CountInv

LEMMA LoadKeeps ==
  ASSUME ShapeInv, NEW L, ListsAre(L), Load
  PROVE  ListsAre(L)'
<1> DEFINE x == head["free"]
<1>1. LinkInv(L) /\ CountInv(L) /\ OwnInv(L) /\ ReportInv(L)
  BY DEF ListsAre
<1>2. /\ Runs(stack, stack') /\ Top.pc = "load" /\ Top'.fn = "malloc"
      /\ Top'.pc = "rm1" /\ Top'.elm = x /\ Top'.list = "free" /\ x \in Blocks
  BY LoadGoes DEF Keeps
<1>3. UNCHANGED <<links, numFree>> /\ fresh' = fresh /\ live' = live /\ kept' = kept
      /\ kept \subseteq kept' /\ UNCHANGED <<live, kept>>
  BY DEF Load
<1>4. ~Writing(stack)
  BY <1>2, NotWriting DEF LinkLabels, Removing, Inserting
<1>5. On(L["free"], x) /\ ~On(L["inuse"], x)
  <2>1. /\ L["free"] \in Seq(Blocks) /\ Path(x, next, L["free"])
        /\ Apart(L["free"], L["inuse"])
    BY <1>1, <1>4, OtherList DEF LinkInv, Linkage, Still
  <2>2. x = Nth(L["free"], 1) /\ x # NoBlock
    BY <1>2, <2>1, ListsAssumption DEF Path
  <2>3. 1 \in 1 .. Len(L["free"]) /\ L["free"][1] = x
    BY <2>1, <2>2, SeqFacts
  <2>4. QED
    BY <2>1, <2>3 DEF On, Apart
<1>6. LinkInv(L)' /\ CountInv(L)' /\ Writing(stack') /\ \A y : InHand(stack', y) <=> y = x
  <2>1. "free" \in Lists
    BY DEF Lists
  <2> HIDE DEF x
  <2>2. Top'.fn = "malloc" => "free" = "free" /\ (Top'.pc = "rm1" => head["free"] = x)
    BY DEF x
  <2>3. QED
    BY <1>1, <1>2, <1>3, <1>4, <1>5, <2>1, <2>2, BeginsLinks
<1>7. \A y \in Blocks : Listed(stack', L["inuse"], y) <=> Listed(stack, L["inuse"], y)
  BY <1>4, <1>5, <1>6 DEF Listed, InHand
<1>8. Hold(Top) = NoBlock /\ Hold(Top') = NoBlock /\ ~Prints(Top')
  BY <1>2, HoldIs DEF Prints
<1>9. OwnInv(L)'
  BY <1>1, <1>2, <1>3, <1>7, <1>8, OwnRuns
<1>10. ReportInv(L)'
  BY <1>1, <1>2, <1>3, <1>8, SameFollows, ReportRuns
<1>11. QED
  BY <1>6, <1>9, <1>10 DEF ListsAre

LEMMA PoolKeeps ==
  ASSUME ShapeInv, NEW L, ListsAre(L), Pool
  PROVE  ListsAre(L)'
<1>1. LinkInv(L) /\ CountInv(L) /\ OwnInv(L) /\ ReportInv(L)
  BY DEF ListsAre
<1>2. /\ Top.fn = "malloc" /\ Top.pc = "pool" /\ stack # <<>>
      /\ \/ /\ Runs(stack, stack') /\ Keeps(Top, Top')
            /\ Top'.pc = "in1" /\ Top'.list = "free"
            /\ Top'.elm \in fresh /\ fresh' = fresh \ {Top'.elm} /\ live' = live
         \/ CallsAt("pool", ReportFrame("oom")) /\ fresh' = fresh /\ live' = live
         \/ /\ \/ Ended
               \/ Len(stack) > 1 /\ Hands(stack, stack', NoBlock)
            /\ fresh' = fresh /\ live' = live
  BY PoolGoes DEF CallsAt
<1>3. UNCHANGED <<links, numFree>> /\ kept' = kept /\ kept \subseteq kept'
  BY DEF Pool
<1>4. ~Writing(stack) /\ Top.pc \notin LinkLabels /\ Hold(Top) = NoBlock
  BY <1>2, NotWriting, HoldIs DEF LinkLabels, Removing, Inserting
<1>5. CASE /\ Runs(stack, stack') /\ Keeps(Top, Top')
           /\ Top'.pc = "in1" /\ Top'.list = "free"
           /\ Top'.elm \in fresh /\ fresh' = fresh \ {Top'.elm} /\ live' = live
  <2> DEFINE x == Top'.elm
  <2>1. x \in Blocks /\ x \in fresh /\ "free" \in Lists /\ Top'.fn = "malloc"
    BY <1>2, <1>5 DEF ShapeInv, DataOk, Lists, Keeps
  <2>2. LinkInv(L)' /\ CountInv(L)' /\ Writing(stack') /\ \A y : InHand(stack', y) <=> y = x
    <3>1. /\ Top'.elm = x
          /\ Top'.pc = "in1" /\ "free" = "free" /\ x \in fresh /\ fresh' = fresh \ {x}
          /\ Top'.fn = "malloc" => "free" = "free" /\ (Top'.pc = "rm1" => head["free"] = x)
      BY <1>5
    <3> HIDE DEF x
    <3>2. QED
      BY <1>1, <1>3, <1>4, <1>5, <2>1, <3>1, BeginsLinks
  <2>3. ~On(L["inuse"], x)
    BY <1>1, <2>1 DEF LinkInv, Linkage
  <2>4. \A y \in Blocks : Listed(stack', L["inuse"], y) <=> Listed(stack, L["inuse"], y)
    BY <1>4, <2>2, <2>3 DEF Listed, InHand
  <2>5. Hold(Top') = NoBlock /\ ~Prints(Top') /\ Top'.pc # "walk"
    BY <1>5, HoldIs DEF Prints
  <2>6. UNCHANGED <<live, kept>> /\ live' = live
    BY <1>3, <1>5
  <2>7. OwnInv(L)'
    BY <1>1, <1>4, <1>5, <2>4, <2>5, <2>6, OwnRuns
  <2>8. ReportInv(L)'
    BY <1>1, <1>3, <1>5, <2>5, SameFollows, ReportRuns
  <2>9. QED
    BY <2>2, <2>7, <2>8 DEF ListsAre
<1>6. CASE CallsAt("pool", ReportFrame("oom")) /\ fresh' = fresh /\ live' = live
  <2> DEFINE c == ReportFrame("oom")
  <2>1. c.pc = "open"
    BY DEF ReportFrame, Frame
  <2>2. c.pc \notin LinkLabels \cup {"walk"} /\ ~Prints(c) /\ Hold(c) = NoBlock
    BY <2>1, HoldIs DEF LinkLabels, Removing, Inserting, Prints
  <2>3. "pool" \in Labels \ (LinkLabels \cup {"walk"})
    BY DEF Labels, LinkLabels, Removing, Inserting
  <2>4. /\ stack'[Len(stack)].pc = "pool" /\ stack'[Len(stack)].fn = "malloc"
    BY <1>2, <1>6 DEF CallsAt, KeepsAll, Keeps
  <2>5. Hold(stack'[Len(stack)]) = Hold(Top) /\ ~Prints(stack'[Len(stack)])
    BY <1>4, <2>4, HoldIs DEF Prints
  <2>6. StillBin
    BY <1>3, <1>6 DEF StillBin
  <2> HIDE DEF c
  <2>7. CallsAt("pool", c)
    BY <1>6 DEF c
  <2>8. QED
    BY <1>4, <2>2, <2>3, <2>5, <2>6, <2>7, EntersKeeps
<1>7. CASE /\ \/ Ended
              \/ Len(stack) > 1 /\ Hands(stack, stack', NoBlock)
           /\ fresh' = fresh /\ live' = live
  <2>1. GivesBack(NoBlock) /\ NoBlock \in Cell
    BY <1>7 DEF GivesBack, Cell
  <2>2. \A x \in Blocks : Listed(stack, L["inuse"], x) <=> On(L["inuse"], x)
    BY <1>4 DEF Listed, InHand
  <2>3. OwnInv(L)' /\ ReportInv(L)' /\ ~Writing(stack')
    BY <1>1, <1>2, <1>3, <1>4, <2>1, <2>2, GivesKeeps
  <2>4. UNCHANGED <<links, numFree, fresh>>
    BY <1>3, <1>7
  <2>5. QED
    BY <1>1, <1>4, <2>3, <2>4, QuietLists DEF ListsAre
<1>8. QED
  BY <1>2, <1>5, <1>6, <1>7

LEMMA MarkKeeps ==
  ASSUME ShapeInv, NEW L, ListsAre(L), Mark
  PROVE  ListsAre(L)'
<1> DEFINE x == Top.elm
           u == L["inuse"]
           t == stack'
<1>1. LinkInv(L) /\ CountInv(L) /\ OwnInv(L) /\ ReportInv(L)
  BY DEF ListsAre
<1>2. /\ Top.fn = "free" /\ Top.pc = "mark" /\ x \in Blocks /\ stack # <<>>
      /\ \/ /\ Runs(stack, stack') /\ Top'.fn = "free"
            /\ Top'.pc = "rm1" /\ Top'.elm = x /\ Top'.list = "inuse"
         \/ stack' = stack
  BY MarkGoes DEF Keeps
<1>3. UNCHANGED <<links, numFree>> /\ fresh' = fresh /\ live' = live /\ kept' = kept
      /\ kept \subseteq kept' /\ UNCHANGED <<live, kept>> /\ UNCHANGED <<links, numFree, fresh>>
  BY DEF Mark
<1>4. ~Writing(stack) /\ Hold(Top) = x
  BY <1>2, NotWriting, HoldIs DEF LinkLabels, Removing, Inserting
<1>5. CASE stack' = stack
  BY <1>1, <1>3, <1>4, <1>5, QuietLists DEF ListsAre, OwnInv, ReportInv
<1>6. CASE /\ Runs(stack, stack') /\ Top'.fn = "free"
           /\ Top'.pc = "rm1" /\ Top'.elm = x /\ Top'.list = "inuse"
  <2>1. Top = stack[Len(stack)] /\ Top' = t[Len(t)] /\ t # <<>> /\ t[Len(stack)] = Top'
        /\ Len(stack) \in 1 .. Len(stack)
    BY <1>6, RunsTop DEF Top, Runs
  <2>2. Hold(stack[Len(stack)]) = x /\ Hold(t[Len(stack)]) = NoBlock /\ ~Prints(Top')
        /\ Top'.pc # "walk" /\ t[Len(stack)].pc # "walk"
    BY <1>4, <1>6, <2>1, HoldIs DEF Prints
  <2>3. Writing(t) /\ InHand(t, x)
    BY <1>6, <2>1 DEF Writing, InHand, LinkLabels, Removing, Inserting
  <2>4. WalksKept(t, kept)
    BY <1>1, <1>3, <1>6, <2>2, WalksStay
  <2>5. Owned(stack, live, kept, u) /\ HoldsOnce(stack)
    BY <1>1 DEF OwnInv, Owned
  <2>6. Runs(stack, t) /\ x \in Blocks /\ ~Writing(stack)
    BY <1>2, <1>4, <1>6
  <2>7. Owned(t, live, kept, u) /\ On(u, x)
    <3> HIDE DEF t, x, u
    <3>1. /\ \A y \in Blocks : Holds(t, y) <=> Holds(stack, y) /\ y # x
          /\ HoldsOnce(t) /\ Holds(stack, x)
      BY <2>2, <2>5, <2>6, HoldsLoses
    <3>2. QED
      BY <2>3, <2>4, <2>5, <2>6, <3>1, OwnedLoses
  <2>8. OwnInv(L)'
    BY <1>3, <2>7 DEF OwnInv
  <2>9. LinkInv(L)' /\ CountInv(L)'
    <3>1. /\ "inuse" \in Lists /\ On(L["inuse"], x) /\ Top'.elm = x /\ Top'.fn # "malloc"
          /\ Top'.fn \in {"malloc", "free"}
      BY <1>6, <2>7 DEF Lists
    <3> HIDE DEF x
    <3>2. QED
      BY <1>1, <1>3, <1>6, <2>6, <3>1, BeginsLinks
  <2>10. ReportInv(L)'
    BY <1>1, <1>3, <1>6, <2>2, SameFollows, ReportRuns
  <2>11. QED
    BY <2>8, <2>9, <2>10 DEF ListsAre
<1>7. QED
  BY <1>2, <1>5, <1>6

(***************************************************************************)
(* The steps of onExitHelper.                                              *)
(***************************************************************************)
LEMMA ReportLabels ==
  /\ \A p \in {"open", "close", "locale", "kept", "walk", "print", "printed", "advance"} :
       p \notin LinkLabels
  /\ {"close", "locale", "kept", "printed", "advance"} \subseteq Labels \ (LinkLabels \cup {"walk"})
BY DEF Labels, LinkLabels, Removing, Inserting

LEMMA NewMalloc ==
  /\ MallocFrame.pc \notin LinkLabels \cup {"walk"} /\ ~Prints(MallocFrame)
  /\ Hold(MallocFrame) = NoBlock
<1>1. MallocFrame.pc = "replenish" /\ MallocFrame.fn = "malloc"
  BY DEF MallocFrame, Frame
<1>2. QED
  BY <1>1, HoldIs DEF LinkLabels, Removing, Inserting, Prints

LEMMA NewFree ==
  ASSUME NEW b
  PROVE  /\ FreeFrame(b).pc \notin LinkLabels \cup {"walk"} /\ ~Prints(FreeFrame(b))
         /\ Hold(FreeFrame(b)) = b
<1>1. FreeFrame(b).pc = "mark" /\ FreeFrame(b).fn = "free" /\ FreeFrame(b).elm = b
  BY DEF FreeFrame, Frame
<1>2. QED
  BY <1>1, HoldIs DEF LinkLabels, Removing, Inserting, Prints

LEMMA NewReport ==
  ASSUME NEW w
  PROVE  /\ ReportFrame(w).pc \notin LinkLabels \cup {"walk"} /\ ~Prints(ReportFrame(w))
         /\ Hold(ReportFrame(w)) = NoBlock
<1>1. ReportFrame(w).pc = "open"
  BY DEF ReportFrame, Frame
<1>2. QED
  BY <1>1, HoldIs DEF LinkLabels, Removing, Inserting, Prints

LEMMA OpenKeeps ==
  ASSUME ShapeInv, NEW L, ListsAre(L), Open
  PROVE  ListsAre(L)'
<1>1. CallsAt("close", MallocFrame) /\ Top.pc = "open" /\ At("report", "open")
  BY OpenGoes DEF Open
<1>2. Top.mine = NoBlock
  BY <1>1, ReportTop DEF ReportFrameOk
<1>3. stack'[Len(stack)].pc = "close" /\ stack'[Len(stack)].mine = NoBlock
  BY <1>1, <1>2 DEF CallsAt, KeepsAll, Keeps
<1>4. Hold(stack'[Len(stack)]) = NoBlock /\ Hold(Top) = NoBlock /\ ~Prints(stack'[Len(stack)])
  BY <1>1, <1>3, HoldIs DEF Prints
<1>5. StillBin
  BY DEF Open, StillBin
<1>6. QED
  BY <1>1, <1>4, <1>5, ReportLabels, NewMalloc, EntersKeeps

LEMMA CloseKeeps ==
  ASSUME ShapeInv, NEW L, ListsAre(L), Close
  PROVE  ListsAre(L)'
<1>1. CallsAt("locale", FreeFrame(Top.mine)) /\ Top.pc = "close"
  BY CloseGoes
<1>2. stack'[Len(stack)].pc = "locale"
  BY <1>1 DEF CallsAt
<1>3. Hold(stack'[Len(stack)]) = NoBlock /\ Hold(Top) = Top.mine /\ ~Prints(stack'[Len(stack)])
  BY <1>1, <1>2, HoldIs DEF Prints
<1>4. StillBin
  BY DEF Close, StillBin
<1> DEFINE c == FreeFrame(Top.mine)
<1>5. c.pc \notin LinkLabels \cup {"walk"} /\ ~Prints(c) /\ Hold(c) = Top.mine /\ CallsAt("locale", c)
  BY <1>1, NewFree
<1> HIDE DEF c
<1>6. Hold(c) = Hold(Top) /\ Top.pc \notin LinkLabels
  BY <1>1, <1>3, <1>5, ReportLabels
<1>7. QED
  BY <1>3, <1>4, <1>5, <1>6, ReportLabels, EntersKeeps

LEMMA SetLocaleKeeps ==
  ASSUME ShapeInv, NEW L, ListsAre(L), SetLocale
  PROVE  ListsAre(L)'
<1>1. CallsAt("kept", MallocFrame) /\ Top.pc = "locale" /\ At("report", "locale")
  BY SetLocaleGoes DEF SetLocale
<1>2. Top.mine = NoBlock
  BY <1>1, ReportTop DEF TopOk
<1>3. stack'[Len(stack)].pc = "kept" /\ stack'[Len(stack)].mine = NoBlock
  BY <1>1, <1>2 DEF CallsAt, KeepsAll, Keeps
<1>4. Hold(stack'[Len(stack)]) = NoBlock /\ Hold(Top) = NoBlock /\ ~Prints(stack'[Len(stack)])
  BY <1>1, <1>3, HoldIs DEF Prints
<1>5. StillBin
  BY DEF SetLocale, StillBin
<1>6. QED
  BY <1>1, <1>4, <1>5, ReportLabels, NewMalloc, EntersKeeps

(* The report gives the C library's block away: the library owns it. *)
LEMMA KeepKeeps ==
  ASSUME ShapeInv, NEW L, ListsAre(L), Keep
  PROVE  ListsAre(L)'
<1> DEFINE x == Top.mine
           u == L["inuse"]
           t == stack'
<1>1. LinkInv(L) /\ CountInv(L) /\ OwnInv(L) /\ ReportInv(L)
  BY DEF ListsAre
<1>2. /\ Runs(stack, stack') /\ Top'.mine = x /\ Top'.pc = "walk"
      /\ Top.fn = "report" /\ Top.pc = "kept" /\ x \in Blocks
  BY KeepGoes DEF KeepsAll, Keeps
<1>3. kept' = kept \cup {x} /\ UNCHANGED <<links, numFree, fresh>> /\ live' = live
  BY DEF Keep
<1>4. t[Len(t)] = Top' /\ t[Len(stack)] = Top' /\ stack[Len(stack)] = Top
  BY <1>2, RunsTop DEF Runs
<1>5. ~Writing(stack) /\ ~Writing(t)
  BY <1>2, <1>4, ReportLabels DEF Writing, Top
<1>6. Hold(stack[Len(stack)]) = x /\ Hold(t[Len(stack)]) = NoBlock /\ ~Prints(Top')
  BY <1>2, <1>4, HoldIs DEF Prints
<1>7. WalksKept(t, kept \cup {x})
  <2>1. \A k \in 1 .. Len(stack) : k = Len(stack) \/ k \in 1 .. Len(stack) - 1
    BY <1>2 DEF Runs
  <2>2. \A k \in 1 .. Len(stack) : stack[k].pc = "walk" => stack[k].mine \in kept
    BY <1>1 DEF OwnInv, Owned
  <2>3. t[Len(stack)].mine = x
    BY <1>2, <1>4
  <2> HIDE DEF x, t
  <2>4. QED
    BY <1>2, <2>1, <2>2, <2>3 DEF Runs, WalksKept, t
<1>8. Owned(stack, live, kept, u) /\ HoldsOnce(stack) /\ Runs(stack, t)
  BY <1>1, <1>2 DEF OwnInv, Owned
<1>9. Owned(t, live, kept \cup {x}, u)
  <2> HIDE DEF t, x, u
  <2>1. /\ \A y \in Blocks : Holds(t, y) <=> Holds(stack, y) /\ y # x
        /\ HoldsOnce(t) /\ Holds(stack, x)
    BY <1>2, <1>6, <1>8, HoldsLoses
  <2>2. QED
    BY <1>2, <1>5, <1>7, <1>8, <2>1, OwnedKept
<1>10. OwnInv(L)'
  BY <1>3, <1>9 DEF OwnInv
<1>11. LinkInv(L)' /\ CountInv(L)'
  BY <1>1, <1>3, <1>5, QuietLists
<1>12. kept \subseteq kept'
  BY <1>3
<1>13. ReportInv(L)'
  BY <1>1, <1>2, <1>3, <1>6, <1>12, SameFollows, ReportRuns
<1>14. QED
  BY <1>10, <1>11, <1>13 DEF ListsAre

(* A cursor that is set to a block on the list. *)
LEMMA CursorSet ==
  ASSUME NEW L, OwnInv(L), Runs(stack, stack'), Hold(Top) = NoBlock, ~Writing(stack),
         NEW c, Top'.elm = c, Top'.pc = "print", UNCHANGED <<live, kept>>,
         c # NoBlock => c \in Blocks /\ On(L["inuse"], c),
         \A b \in live : b \in Top'.seen \/ (c # NoBlock /\ From(L["inuse"], c, b))
  PROVE  ReportAt(stack', live', kept', Len(stack), L["inuse"])
<1> DEFINE n == Len(stack)
           u == L["inuse"]
<1>1. Top' = stack'[n] /\ Hold(stack[n]) = NoBlock /\ n \in Nat
      /\ \A j \in 1 .. n - 1 : stack'[j] = stack[j]
  BY RunsTop DEF Runs
<1>2. c # NoBlock => Below(stack', live, kept, n, c)
  <2>1. SUFFICES ASSUME c # NoBlock PROVE Below(stack', live, kept, n, c)
    OBVIOUS
  <2>2. Owned(stack, live, kept, u) /\ c \in Blocks /\ On(u, c)
    BY <2>1 DEF OwnInv
  <2>3. Below(stack, live, kept, n, c)
    <3> HIDE DEF u
    <3>1. QED
      BY <1>1, <2>2, OwnedBelow
  <2>4. QED
    BY <1>1, <2>3 DEF Below
<1>3. stack'[n].elm = c /\ stack'[n].pc = "print" /\ stack'[n].seen = Top'.seen
  BY <1>1
<1>4. live' = live /\ kept' = kept
  OBVIOUS
<1>5. \A b \in live : b \in stack'[n].seen \/ (c # NoBlock /\ From(u, c, b))
  BY <1>3
<1> HIDE DEF n, u
<1>6. ReportAt(stack', live, kept, n, u)
  BY <1>2, <1>3, <1>5 DEF ReportAt, Covers
<1>7. QED
  BY <1>4, <1>6 DEF n, u

LEMMA WalkKeeps ==
  ASSUME ShapeInv, NEW L, ListsAre(L), Walk
  PROVE  ListsAre(L)'
<1> DEFINE u == L["inuse"]
           c == head["inuse"]
<1>1. LinkInv(L) /\ OwnInv(L)
  BY DEF ListsAre
<1>2. /\ Runs(stack, stack') /\ Top.pc \in {"locale", "walk"}
      /\ Top'.pc = "print" /\ Top'.elm = c
  BY WalkGoes
<1>3. StillBin /\ UNCHANGED <<live, kept>>
  BY DEF Walk, StillBin
<1>4. Top.pc \notin LinkLabels /\ Top'.pc \notin LinkLabels \cup {"walk"} /\ ~Writing(stack)
  BY <1>2, ReportLabels, NotWriting
<1>5. Hold(Top) = NoBlock /\ Hold(Top') = Hold(Top)
  BY <1>2, HoldIs
<1>6. Path(c, next, u)
  BY <1>1, <1>4 DEF LinkInv, Linkage, Still, Lists
<1>7. \A b : On(u, b) => c \in Blocks /\ c # NoBlock /\ On(u, c) /\ From(u, c, b)
  <2> HIDE DEF u, c
  <2>1. QED
    BY <1>6, WalkCovers
<1>8. c # NoBlock => c \in Blocks /\ On(u, c)
  <2>1. SUFFICES ASSUME c # NoBlock PROVE c \in Blocks /\ On(u, c)
    OBVIOUS
  <2>2. u \in Seq(Blocks) /\ c = Nth(u, 1)
    BY <1>6 DEF Path
  <2>3. 1 \in 1 .. Len(u) /\ c = u[1] /\ c \in Blocks
    <3> HIDE DEF u, c
    <3>1. QED
      BY <2>1, <2>2, SeqFacts
  <2>4. QED
    BY <2>3 DEF On
<1>9. \A b \in live : On(u, b)
  BY <1>1, <1>4 DEF OwnInv, Owned, Owns, InHand, ShapeInv, DataOk
<1>10. \A b \in live : b \in Top'.seen \/ (c # NoBlock /\ From(u, c, b))
  BY <1>7, <1>9
<1>11. ReportAt(stack', live', kept', Len(stack), u)
  <2> HIDE DEF c
  <2>1. QED
    BY <1>1, <1>2, <1>3, <1>4, <1>5, <1>8, <1>10, CursorSet
<1>12. QED
  BY <1>2, <1>3, <1>4, <1>5, <1>11, RunsKeeps

LEMMA AdvanceKeeps ==
  ASSUME ShapeInv, NEW L, ListsAre(L), Advance
  PROVE  ListsAre(L)'
<1> DEFINE u == L["inuse"]
           e == Top.elm
           c == next[e]
<1>1. LinkInv(L) /\ OwnInv(L) /\ ReportInv(L)
  BY DEF ListsAre
<1>2. /\ Runs(stack, stack') /\ Top.pc = "advance" /\ Top.fn = "report" /\ e \in Blocks
      /\ Top'.pc = "print" /\ Top'.elm = c /\ Top'.seen = Top.seen
  BY AdvanceGoes
<1>3. StillBin /\ UNCHANGED <<live, kept>>
  BY DEF Advance, StillBin
<1>4. Top.pc \notin LinkLabels /\ Top'.pc \notin LinkLabels \cup {"walk"} /\ ~Writing(stack)
  BY <1>2, ReportLabels, NotWriting
<1>5. Hold(Top) = NoBlock /\ Hold(Top') = Hold(Top)
  BY <1>2, HoldIs
<1>6. Path(head["inuse"], next, u)
  BY <1>1, <1>4 DEF LinkInv, Linkage, Still, Lists
<1>7. /\ Below(stack, live, kept, Len(stack), e)
      /\ \A b \in live : b \in Top.seen \/ From(u, e, b)
      /\ e \in Top.seen
  <2>1. Top = stack[Len(stack)] /\ Len(stack) \in 1 .. Len(stack) /\ Len(stack) \in Nat
    BY <1>2, RunsTop
  <2>2. Prints(stack[Len(stack)])
    BY <1>2, <2>1 DEF Prints
  <2>3. ReportAt(stack, live, kept, Len(stack), u)
    BY <1>1, <2>1, <2>2 DEF ReportInv, Reported
  <2>4. e # NoBlock
    BY <1>2, ListsAssumption
  <2>5. QED
    BY <1>2, <2>1, <2>3, <2>4 DEF ReportAt, Covers
<1>8. On(u, e)
  <2>1. Owns(stack, live, kept, e)
    <3>1. Len(stack) \in Nat /\ \A j \in 1 .. Len(stack) - 1 : j \in 1 .. Len(stack)
      BY <1>2 DEF Runs
    <3>2. QED
      BY <1>7, <3>1 DEF Below, Owns, Holds
  <2>2. QED
    BY <1>1, <1>2, <2>1 DEF OwnInv, Owned
<1>9. /\ c = NoBlock \/ (c \in Blocks /\ On(u, c))
      /\ \A b : From(u, e, b) => b = e \/ (c # NoBlock /\ From(u, c, b))
  <2> HIDE DEF u, e
  <2>1. QED
    BY <1>6, <1>8, AdvanceCovers
<1>10. \A b \in live : b \in Top'.seen \/ (c # NoBlock /\ From(u, c, b))
  BY <1>2, <1>7, <1>9
<1>11. ReportAt(stack', live', kept', Len(stack), u)
  <2> HIDE DEF c
  <2>1. QED
    BY <1>1, <1>2, <1>3, <1>4, <1>5, <1>9, <1>10, CursorSet
<1>12. QED
  BY <1>2, <1>3, <1>4, <1>5, <1>11, RunsKeeps

(* The cursor stays, and its block has been printed. *)
LEMMA CursorKept ==
  ASSUME ShapeInv, NEW L, ReportInv(L), stack # <<>>, Prints(Top),
         Runs(stack, stack') \/ Enters(stack, stack'),
         UNCHANGED <<live, kept>>, NEW f, f = stack'[Len(stack)], f.elm = Top.elm,
         Top.seen \subseteq f.seen, f.elm \in f.seen
  PROVE  ReportAt(stack', live', kept', Len(stack), L["inuse"])
<1> DEFINE k == Len(stack)
<1>1. /\ k \in 1 .. Len(stack) /\ Top = stack[k]
      /\ \A j \in 1 .. k - 1 : stack'[j] = stack[j]
  BY TopFacts DEF Runs, Enters
<1>2. /\ Prints(stack[k]) /\ stack'[k].elm = stack[k].elm /\ stack[k].seen \subseteq stack'[k].seen
      /\ stack'[k].pc \in {"printed", "advance"} => stack'[k].elm \in stack'[k].seen
      /\ live' = live /\ kept \subseteq kept'
  BY <1>1
<1>3. Follow(stack, live, kept, L["inuse"], L["inuse"])
  BY SameFollows
<1> HIDE DEF k
<1>4. ReportAt(stack', live', kept', k, L["inuse"])
  BY <1>1, <1>2, <1>3, ReportOwn
<1>5. QED
  BY <1>4 DEF k

LEMMA PrintAllocatesKeeps ==
  ASSUME ShapeInv, NEW L, ListsAre(L), PrintElmAllocates
  PROVE  ListsAre(L)'
<1> DEFINE f == stack'[Len(stack)]
<1>1. /\ Enters(stack, stack') /\ Top' = MallocFrame /\ Top.fn = "report" /\ Top.pc = "print"
      /\ f.seen = Top.seen \cup {Top.elm} /\ f.pc = "printed" /\ f.elm = Top.elm
      /\ f.mine = NoBlock
  BY PrintAllocatesGoes
<1>2. StillBin /\ UNCHANGED <<live, kept>> /\ stack # <<>>
  BY <1>1 DEF PrintElmAllocates, StillBin, Enters
<1>3. Hold(f) = NoBlock /\ Hold(Top) = NoBlock /\ Prints(Top)
  BY <1>1, HoldIs DEF Prints
<1>4. ReportInv(L)
  BY DEF ListsAre
<1>5. Top.seen \subseteq f.seen /\ f.elm \in f.seen
  BY <1>1
<1>6. ReportAt(stack', live', kept', Len(stack), L["inuse"])
  BY <1>1, <1>2, <1>3, <1>4, <1>5, CursorKept
<1>7. LinkInv(L) /\ CountInv(L) /\ OwnInv(L)
  BY DEF ListsAre
<1>8. ~Writing(stack) /\ ~Writing(stack') /\ Top'.pc # "walk" /\ f.pc # "walk" /\ ~Prints(Top')
  BY <1>1, ReportLabels, NewMalloc DEF Writing, Top
<1>9. UNCHANGED <<links, numFree, fresh>> /\ live' = live /\ kept' = kept
  BY <1>2 DEF StillBin
<1>10. LinkInv(L)' /\ CountInv(L)'
  BY <1>7, <1>8, <1>9, QuietLists
<1>11. OwnInv(L)'
  BY <1>1, <1>2, <1>3, <1>7, <1>8, NewMalloc, OwnEnters
<1>12. ReportInv(L)'
  BY <1>1, <1>4, <1>6, <1>8, <1>9, ReportEnters
<1>13. QED
  BY <1>10, <1>11, <1>12 DEF ListsAre

LEMMA PrintKeeps ==
  ASSUME ShapeInv, NEW L, ListsAre(L), PrintElm
  PROVE  ListsAre(L)'
<1>1. /\ Runs(stack, stack') /\ Top.fn = "report" /\ Top.pc = "print"
      /\ Top'.seen = Top.seen \cup {Top.elm} /\ Top'.pc = "advance" /\ Top'.elm = Top.elm
  BY PrintGoes
<1>2. StillBin /\ UNCHANGED <<live, kept>> /\ Top' = stack'[Len(stack)] /\ stack # <<>>
  BY <1>1, RunsTop DEF PrintElm, StillBin
<1>3. Hold(Top') = Hold(Top) /\ Prints(Top)
  BY <1>1, HoldIs DEF Prints
<1>4. ReportInv(L)
  BY DEF ListsAre
<1>5. Top.seen \subseteq Top'.seen /\ Top'.elm \in Top'.seen
  BY <1>1
<1>6. ReportAt(stack', live', kept', Len(stack), L["inuse"])
  BY <1>1, <1>2, <1>3, <1>4, <1>5, CursorKept
<1>7. Top.pc \notin LinkLabels /\ Top'.pc \notin LinkLabels \cup {"walk"}
  BY <1>1, ReportLabels
<1>8. QED
  BY <1>1, <1>2, <1>3, <1>6, <1>7, RunsKeeps

LEMMA PrintedKeeps ==
  ASSUME ShapeInv, NEW L, ListsAre(L), Printed
  PROVE  ListsAre(L)'
<1> DEFINE f == stack'[Len(stack)]
           c == FreeFrame(Top.mine)
<1>1. /\ Top.fn = "report" /\ Top.pc = "printed" /\ stack # <<>> /\ Prints(Top)
      /\ \/ Runs(stack, stack') /\ KeepsAll(Top, Top') /\ Top'.pc = "advance"
            /\ Top.mine = NoBlock
         \/ CallsAt("advance", c)
  BY PrintedGoes DEF Prints, Runs, CallsAt, Enters
<1>2. StillBin /\ UNCHANGED <<live, kept>>
  BY DEF Printed, StillBin
<1>3. ReportInv(L) /\ Top.pc \notin LinkLabels /\ Hold(Top) = Top.mine
  BY <1>1, ReportLabels, HoldIs DEF ListsAre
<1>4. Top.elm \in Top.seen
  <2>1. Top = stack[Len(stack)] /\ Len(stack) \in 1 .. Len(stack)
    BY <1>1, TopFacts
  <2>2. QED
    BY <1>1, <1>3, <2>1 DEF ReportInv, Reported, ReportAt
<1>5. f.elm = Top.elm /\ Top.seen \subseteq f.seen /\ f.elm \in f.seen /\ f.pc = "advance"
  BY <1>1, <1>4, RunsTop DEF CallsAt, KeepsAll, Keeps
<1>6. ReportAt(stack', live', kept', Len(stack), L["inuse"])
  BY <1>1, <1>2, <1>3, <1>5, CursorKept DEF CallsAt
<1>7. CASE Runs(stack, stack') /\ KeepsAll(Top, Top') /\ Top'.pc = "advance"
           /\ Top.mine = NoBlock
  <2>1. Hold(Top') = Hold(Top) /\ Top'.pc \notin LinkLabels \cup {"walk"}
    BY <1>3, <1>7, ReportLabels, HoldIs
  <2>2. QED
    BY <1>2, <1>3, <1>6, <1>7, <2>1, RunsKeeps
<1>8. CASE CallsAt("advance", c)
  <2>1. c.pc \notin LinkLabels \cup {"walk"} /\ ~Prints(c) /\ Hold(c) = Hold(Top)
    BY <1>3, NewFree
  <2>2. Hold(f) = NoBlock
    BY <1>5, HoldIs
  <2> HIDE DEF c
  <2>3. QED
    BY <1>2, <1>3, <1>6, <1>8, <2>1, <2>2, ReportLabels, EntersKeeps
<1>9. QED
  BY <1>1, <1>7, <1>8

LEMMA EndKeeps ==
  ASSUME ShapeInv, NEW L, ListsAre(L), End
  PROVE  ListsAre(L)'
<1>1. LinkInv(L) /\ CountInv(L) /\ OwnInv(L) /\ ReportInv(L)
  BY DEF ListsAre
<1>2. Top.pc = "print" /\ stack # <<>> /\ (stack' = stack \/ Leaves(stack, stack'))
  BY EndGoes
<1>3. UNCHANGED <<links, numFree, fresh>> /\ live' = live /\ kept' = kept
      /\ UNCHANGED <<live, kept>>
  BY DEF End
<1>4. ~Writing(stack) /\ Hold(Top) = NoBlock
  BY <1>2, ReportLabels, NotWriting, HoldIs
<1>5. CASE stack' = stack
  BY <1>1, <1>3, <1>4, <1>5, QuietLists DEF ListsAre, OwnInv, ReportInv
<1>6. CASE Leaves(stack, stack')
  <2>1. ~Writing(stack')
    <3> DEFINE n == Len(stack)
    <3>1. StackOk(stack) /\ n \in Nat /\ n # 0 /\ Len(stack') = n - 1
          /\ \A k \in 1 .. n - 1 : stack'[k] = stack[k]
      BY <1>2, <1>6, TopFacts DEF ShapeInv, Leaves
    <3>2. SUFFICES ASSUME stack' # <<>>, n - 1 \in 1 .. n - 1
                   PROVE  stack[n - 1].pc \notin LinkLabels
      <4>1. CASE n = 1
        <5>1. stack' = <<>>
          BY <3>1, <4>1, <1>2, EndGoes, EmptySeq DEF StackOk
        <5>2. QED
          BY <5>1 DEF Writing
      <4>2. CASE n # 1
        <5>1. n - 1 \in 1 .. n - 1
          BY <3>1, <4>2
        <5>2. QED
          BY <3>1, <3>2, <5>1 DEF Writing
      <4>3. QED
        BY <4>1, <4>2
    <3>3. Calls(stack[n - 1], stack[(n - 1) + 1])
      BY <3>1, <3>2 DEF StackOk
    <3>4. QED
      BY <3>3 DEF Calls, LinkLabels, Removing, Inserting
  <2>2. QED
    BY <1>1, <1>3, <1>4, <1>6, <2>1, QuietLists, OwnLeaves, ReportLeaves DEF ListsAre
<1>7. QED
  BY <1>2, <1>5, <1>6

(***************************************************************************)
(* The calls of the program, and the steps that change nothing.            *)
(***************************************************************************)
LEMMA StillKeeps ==
  ASSUME ShapeInv, NEW L, ListsAre(L), UNCHANGED <<stack, links, numFree, fresh, live, kept>>
  PROVE  ListsAre(L)'
BY DEF ListsAre, LinkInv, CountInv, OwnInv, ReportInv, links

LEMMA MallocKeeps ==
  ASSUME ShapeInv, NEW L, ListsAre(L), Malloc
  PROVE  ListsAre(L)'
<1>1. StartsWith(MallocFrame)
  BY MallocGoes
<1>2. UNCHANGED <<links, numFree, fresh, kept>> /\ live' = live
  BY DEF Malloc
<1>3. live' = live \ {NoBlock}
  BY <1>2, ListsAssumption DEF ShapeInv, DataOk
<1>4. QED
  BY <1>1, <1>2, <1>3, NewMalloc, StartsKeeps

LEMMA FreeKeeps ==
  ASSUME ShapeInv, NEW L, ListsAre(L), NEW b \in live, Free(b)
  PROVE  ListsAre(L)'
<1>1. StartsWith(FreeFrame(b))
  BY FreeGoes
<1>2. UNCHANGED <<links, numFree, fresh, kept>> /\ live' = live \ {b}
  BY DEF Free
<1>3. QED
  BY <1>1, <1>2, NewFree, StartsKeeps

LEMMA ReportKeeps ==
  ASSUME ShapeInv, NEW L, ListsAre(L), Report, ~Signals
  PROVE  ListsAre(L)'
<1>1. StartsWith(ReportFrame("signal"))
  BY ReportGoes
<1>2. UNCHANGED <<links, numFree, fresh, kept>> /\ live' = live
  BY DEF Report
<1>3. live' = live \ {NoBlock}
  BY <1>2, ListsAssumption DEF ShapeInv, DataOk
<1>4. QED
  BY <1>1, <1>2, <1>3, NewReport, StartsKeeps

LEMMA ListsStep ==
  ASSUME ShapeInv, NEW L, ListsAre(L), ~Signals, [Next]_vars
  PROVE  \E M : ListsAre(M)' /\ Moved1(L, M)
<1>1. CASE IsLink
  BY <1>1, LinkKeeps
<1>2. CASE LibraryFails \/ UNCHANGED vars
  <2>1. UNCHANGED <<stack, links, numFree, fresh, live, kept>>
    BY <1>2 DEF LibraryFails, vars, links
  <2>2. ListsAre(L)'
    BY <2>1, StillKeeps
  <2>3. QED
    BY <2>2 DEF Moved1
<1>3. CASE ListsAre(L)'
  BY <1>3 DEF Moved1
<1>4. \/ IsLink \/ LibraryFails \/ UNCHANGED vars \/ ListsAre(L)'
  BY Actions, MallocKeeps, FreeKeeps, ReportKeeps, ReplenishKeeps, PoolKeeps, FilledKeeps,
     LoadKeeps, CountKeeps, LimitKeeps, PublishKeeps, MarkKeeps, PutKeeps, OpenKeeps, CloseKeeps,
     SetLocaleKeeps, KeepKeeps, WalkKeeps, PrintAllocatesKeeps, PrintKeeps, PrintedKeeps,
     AdvanceKeeps, EndKeeps, Zenon DEF IsLink
<1>5. QED
  BY <1>1, <1>2, <1>3, <1>4

(***************************************************************************)
(* The two lists are those that a walk from their heads comes to.          *)
(***************************************************************************)
Walked == [l \in Lists |-> Forward(l)]
BinInv == ShapeInv /\ ListsAre(Walked)

LEMMA WalkedIs ==
  ASSUME NEW st, NEW hd, NEW nx, NEW pv, NEW fr, NEW L, Linkage(st, hd, nx, pv, fr, L),
         st # <<>> => st[Len(st)].list \in Lists
  PROVE  \A l \in Lists : Path(hd[l], nx, L[l])
<1>1. CASE ~Writing(st)
  BY <1>1 DEF Linkage, Still
<1>2. CASE Writing(st)
  <2> DEFINE g == st[Len(st)]
  <2>1. MovesElm(g, hd, nx, pv, fr, L) /\ g.list \in Lists
    BY <1>2 DEF Linkage, Writing
  <2>2. Path(hd[g.list], nx, L[g.list]) /\ Path(hd[Other(g.list)], nx, L[Other(g.list)])
    BY <2>1 DEF MovesElm, Mid
  <2>3. \A l \in Lists : l = g.list \/ l = Other(g.list)
    BY <2>1 DEF Lists, Other
  <2>4. QED
    BY <2>2, <2>3
<1>3. QED
  BY <1>1, <1>2

LEMMA WalkedNow ==
  ASSUME ShapeInv, NEW L, LinkInv(L)
  PROVE  L = Walked
<1>1. stack # <<>> => stack[Len(stack)].list \in Lists
  BY TopFacts
<1>2. L \in [Lists -> Seq(Blocks)] /\ \A l \in Lists : Path(head[l], next, L[l])
  BY <1>1, WalkedIs DEF LinkInv, Linkage
<1>3. \A l \in Lists : Visited(WalkFrom(head[l], next)) = L[l]
  BY <1>2, WalkIs
<1>4. \A l \in Lists : Forward(l) = L[l]
  BY <1>3 DEF Forward
<1>5. QED
  BY <1>2, <1>4 DEF Walked

LEMMA WalkedNext ==
  ASSUME ShapeInv', NEW L, LinkInv(L)'
  PROVE  L = Walked'
<1>1. stack' # <<>> => stack'[Len(stack')].list \in Lists
  <2>1. StackOk(stack')
    BY DEF ShapeInv
  <2>2. SUFFICES ASSUME stack' # <<>> PROVE stack'[Len(stack')].list \in Lists
    OBVIOUS
  <2>3. Len(stack') \in Nat \ {0} /\ \A k \in 1 .. Len(stack') : stack'[k] \in Frames
    BY <2>1, <2>2, StackFacts
  <2>4. QED
    BY <2>3 DEF Frames
<1>2. L \in [Lists -> Seq(Blocks)] /\ \A l \in Lists : Path(head'[l], next', L[l])
  BY <1>1, WalkedIs DEF LinkInv, Linkage
<1>3. \A l \in Lists : Visited(WalkFrom(head'[l], next')) = L[l]
  BY <1>2, WalkIs
<1>4. \A l \in Lists : Forward(l)' = L[l]
  BY <1>3 DEF Forward
<1>5. QED
  BY <1>2, <1>4 DEF Walked

LEMMA ListsInit ==
  ASSUME Init
  PROVE  \E L : ListsAre(L) /\ L["inuse"] = <<>>
<1>1. PICK s : FirstList(s)
  BY FirstLists
<1> DEFINE L == [l \in Lists |-> IF l = "free" THEN s ELSE <<>>]
<1>2. /\ s \in Seq(Blocks) /\ Len(s) = HighWater /\ HighWater \in Nat
      /\ \A i, j \in 1 .. Len(s) : s[i] = s[j] => i = j
      /\ Headers(next, prev)
      /\ head["free"] = Nth(s, 1) /\ head["inuse"] = NoBlock
      /\ \A k \in 1 .. Len(s) : next[s[k]] = Nth(s, k + 1) /\ prev[s[k]] = Nth(s, k - 1)
      /\ \A x \in fresh : ~On(s, x)
  BY <1>1, ListsAssumption DEF FirstList, Headers
<1>3. numFree = HighWater /\ live = {} /\ kept = {} /\ stack = <<>>
  BY DEF Init
<1>4. L \in [Lists -> Seq(Blocks)] /\ L["free"] = s /\ L["inuse"] = <<>>
  BY <1>2 DEF Lists
<1> HIDE DEF L
<1>5. Len(<<>>) = 0 /\ <<>> \in Seq(Blocks) /\ \A x : ~On(<<>>, x)
  BY DEF On
<1>6. ~Writing(stack) /\ Len(stack) = 0
  BY <1>3 DEF Writing
<1>7. Path(head["free"], next, s) /\ Back(prev, s, 0)
  BY <1>2 DEF Path, Back
<1>8. Path(head["inuse"], next, <<>>) /\ Back(prev, <<>>, 0)
  BY <1>2, <1>5 DEF Path, Back, Nth
<1>9. Apart(s, <<>>)
  BY <1>5 DEF Apart
<1>10. Still(head, next, prev, L)
  BY <1>2, <1>4, <1>7, <1>8, <1>9 DEF Still, Lists
<1>11. LinkInv(L)
  BY <1>2, <1>4, <1>5, <1>6, <1>10 DEF LinkInv, Linkage
<1>12. CountInv(L)
  BY <1>2, <1>3, <1>4, <1>6 DEF CountInv, Lag
<1>13. OwnInv(L)
  <2>1. \A x \in Blocks : ~Holds(stack, x) /\ ~Owns(stack, live, kept, x)
    BY <1>3, <1>6 DEF Holds, Owns
  <2>2. HoldsOnce(stack) /\ live \cap kept = {}
    BY <1>3, <1>6 DEF HoldsOnce
  <2>3. \A k \in 1 .. Len(stack) : FALSE
    BY <1>6
  <2>4. QED
    BY <1>4, <1>5, <2>1, <2>2, <2>3 DEF OwnInv, Owned
<1>14. ReportInv(L)
  BY <1>6 DEF ReportInv, Reported
<1>15. QED
  BY <1>4, <1>11, <1>12, <1>13, <1>14 DEF ListsAre

LEMMA BinInit ==
  ASSUME Init
  PROVE  BinInv /\ Walked["inuse"] = <<>>
<1>1. PICK L : ListsAre(L) /\ L["inuse"] = <<>>
  BY ListsInit
<1>2. ShapeInv /\ L = Walked
  BY <1>1, ShapeInit, WalkedNow DEF ListsAre
<1>3. QED
  BY <1>1, <1>2 DEF BinInv

LEMMA BinStep ==
  ASSUME BinInv, ~Signals, [Next]_vars
  PROVE  BinInv' /\ Moved1(Walked, Walked')
<1>1. ShapeInv /\ ListsAre(Walked)
  BY DEF BinInv
<1>2. ShapeInv'
  BY <1>1, ShapeStep
<1>3. PICK M : ListsAre(M)' /\ Moved1(Walked, M)
  BY <1>1, ListsStep
<1>4. LinkInv(M)'
  BY <1>3 DEF ListsAre
<1>5. M = Walked'
  BY <1>2, <1>4, WalkedNext
<1>6. ListsAre(Walked)'
  BY <1>3, <1>5 DEF ListsAre, LinkInv, CountInv, OwnInv, ReportInv
<1>7. QED
  BY <1>2, <1>3, <1>5, <1>6 DEF BinInv

LEMMA WalkedFacts ==
  ASSUME BinInv
  PROVE  /\ ShapeInv /\ LinkInv(Walked) /\ CountInv(Walked) /\ OwnInv(Walked)
         /\ ReportInv(Walked)
         /\ Walked["free"] = Forward("free") /\ Walked["inuse"] = Forward("inuse")
         /\ Forward("free") \in Seq(Blocks) /\ Forward("inuse") \in Seq(Blocks)
<1>1. Walked["free"] = Forward("free") /\ Walked["inuse"] = Forward("inuse")
  BY DEF Walked, Lists
<1>2. LinkInv(Walked)
  BY DEF BinInv, ListsAre
<1>3. Walked["free"] \in Seq(Blocks) /\ Walked["inuse"] \in Seq(Blocks)
  BY <1>2, OtherList DEF LinkInv, Linkage
<1>4. QED
  BY <1>1, <1>2, <1>3 DEF BinInv, ListsAre

(***************************************************************************)
(* The properties.                                                         *)
(***************************************************************************)
LEMMA TypeHolds ==
  ASSUME BinInv
  PROVE  TypeOK
<1> DEFINE F == Forward("free")
<1>1. ShapeInv /\ LinkInv(Walked) /\ CountInv(Walked) /\ Walked["free"] = F /\ F \in Seq(Blocks)
  BY WalkedFacts
<1>2. Len(F) \in Nat /\ (F # <<>> => Len(F) > 0)
  BY <1>1, SeqFacts
<1>3. Lag(stack) \in {-1, 0, 1} /\ (Lag(stack) = -1 => F # <<>>)
  <2>1. CASE ~Writing(stack)
    BY <2>1 DEF Lag
  <2>2. CASE Writing(stack)
    <3>1. Lag(stack) = LagOf(Top) /\ LagOf(Top) \in {-1, 0, 1}
      BY <2>2 DEF Lag, LagOf, Top
    <3>2. LagOf(Top) = -1 => Top.list = "free" /\ Top.pc = "linked"
      BY DEF LagOf
    <3>3. MovesElm(Top, head, next, prev, fresh, Walked)
      BY <1>1, <2>2 DEF LinkInv, Linkage, Top
    <3>4. Top.list = "free" /\ Top.pc = "linked" => Walked["free"] # <<>>
      BY <3>3 DEF MovesElm, Mid, Changing
    <3>5. QED
      BY <1>1, <3>1, <3>2, <3>4
  <2>3. QED
    BY <2>1, <2>2
<1>4. numFree = Len(F) + Lag(stack)
  BY <1>1 DEF CountInv
<1> HIDE DEF F
<1>5. numFree \in Nat
  BY <1>2, <1>3, <1>4
<1>6. DataOk /\ StackOk(stack)
  BY <1>1 DEF ShapeInv
<1>7. \A k \in 1 .. Len(stack) :
        /\ stack[k].fn \in {"malloc", "free", "report"} /\ stack[k].pc \in Labels
        /\ {stack[k].elm, stack[k].mine} \subseteq Blocks \cup {NoBlock}
  <2>1. ASSUME NEW k \in 1 .. Len(stack)
        PROVE  /\ stack[k].fn \in {"malloc", "free", "report"} /\ stack[k].pc \in Labels
               /\ {stack[k].elm, stack[k].mine} \subseteq Blocks \cup {NoBlock}
    <3>1. stack[k] \in Frames
      BY <1>6, ElementOfSeq DEF StackOk
    <3>2. QED
      BY <3>1 DEF Frames, Cell
  <2>2. QED
    BY <2>1
<1>8. QED
  BY <1>5, <1>6, <1>7 DEF TypeOK, DataOk, Cell

(* Whoever has a block in a frame owns it, but for the block that a report *)
(* waits to see freed: its caller holds that one.                          *)
LEMMA HeldIsOwned ==
  ASSUME BinInv, ~Writing(stack), NEW x \in Blocks
  PROVE  x \in Held <=> Owns(stack, live, kept, x)
<1>1. StackOk(stack) /\ live \subseteq Blocks /\ kept \subseteq Blocks
      /\ \A k \in 1 .. Len(stack) : stack[k].pc = "walk" => stack[k].mine \in kept
  BY WalkedFacts DEF ShapeInv, DataOk, OwnInv, Owned
<1>2. x # NoBlock
  BY ListsAssumption
<1>3. ASSUME NEW k \in 1 .. Len(stack), stack[k].mine = x
      PROVE  Owns(stack, live, kept, x)
  <2> DEFINE g == stack[k]
             h == stack[k + 1]
  <2>1. stack # <<>> /\ Len(stack) \in Nat
    BY <1>1, <1>3, EmptySeq DEF StackOk
  <2>2. FrameOk(g) /\ g.mine # NoBlock
    BY <1>1, <1>2, <1>3 DEF StackOk
  <2>3. g.fn = "report" /\ g.pc \in {"close", "locale", "kept", "walk", "printed", "advance"}
    BY <2>2 DEF FrameOk, MallocFrameOk, FreeFrameOk, ReportFrameOk
  <2>4. CASE g.pc \in {"close", "kept", "printed"}
    BY <1>3, <2>4, HoldIs DEF Owns, Holds
  <2>5. CASE g.pc = "walk"
    BY <1>1, <1>3, <2>5 DEF Owns
  <2>6. CASE g.pc \in {"locale", "advance"}
    <3>1. k # Len(stack)
      BY <1>1, <2>1, <2>2, <2>3, <2>6 DEF StackOk, TopOk
    <3>2. k \in 1 .. Len(stack) - 1 /\ k + 1 \in 1 .. Len(stack)
      BY <2>1, <3>1
    <3>3. Calls(g, h) /\ FrameOk(h)
      BY <1>1, <3>2 DEF StackOk
    <3>4. h.fn = "free" /\ g.mine = h.elm
      BY <2>3, <2>6, <3>3 DEF Calls
    <3>5. FreeFrameOk(h)
      BY <3>3, <3>4 DEF FrameOk, MallocFrameOk, ReportFrameOk
    <3>6. k + 1 = Len(stack)
      <4>1. SUFFICES ASSUME k + 1 # Len(stack) PROVE FALSE
        OBVIOUS
      <4>2. k + 1 \in 1 .. Len(stack) - 1
        BY <2>1, <3>2, <4>1
      <4>3. Calls(h, stack[(k + 1) + 1])
        BY <1>1, <4>2 DEF StackOk
      <4>4. QED
        BY <3>4, <4>3 DEF Calls
    <3>7. h.pc = "mark"
      BY <2>1, <3>5, <3>6 DEF FreeFrameOk, Writing
    <3>8. Hold(h) = x
      BY <1>3, <3>4, <3>7, HoldIs
    <3>9. QED
      BY <3>2, <3>8 DEF Owns, Holds
  <2>7. QED
    BY <2>3, <2>4, <2>5, <2>6
<1>4. ASSUME NEW k \in 1 .. Len(stack), stack[k].pc \in {"limit", "publish", "mark"},
             stack[k].elm = x
      PROVE  Owns(stack, live, kept, x)
  BY <1>4, HoldIs DEF Owns, Holds
<1>5. ASSUME NEW k \in 1 .. Len(stack), Hold(stack[k]) = x
      PROVE  x \in Held
  <2>1. \/ stack[k].pc \in {"limit", "publish", "mark"} /\ stack[k].elm = x
        \/ stack[k].mine = x
    BY <1>2, <1>5 DEF Hold
  <2>2. QED
    BY <2>1 DEF Held
<1>6. x \in Held => Owns(stack, live, kept, x)
  <2>1. SUFFICES ASSUME x \in Held, x \notin live, x \notin kept
                 PROVE  Owns(stack, live, kept, x)
    BY DEF Owns
  <2>2. \/ \E k \in 1 .. Len(stack) : stack[k].mine = x
        \/ \E k \in 1 .. Len(stack) :
             stack[k].pc \in {"limit", "publish", "mark"} /\ stack[k].elm = x
    BY <2>1 DEF Held
  <2>3. QED
    BY <1>3, <1>4, <2>2
<1>7. Owns(stack, live, kept, x) => x \in Held
  <2>1. x \in live \cup kept => x \in Held
    BY DEF Held
  <2>2. QED
    BY <1>5, <2>1 DEF Owns, Holds
<1>8. QED
  BY <1>6, <1>7

LEMMA HeldBlocks ==
  ASSUME BinInv
  PROVE  Held \subseteq Blocks \cup {NoBlock}
<1>1. StackOk(stack) /\ live \subseteq Blocks /\ kept \subseteq Blocks
  BY WalkedFacts DEF ShapeInv, DataOk
<1>2. ASSUME NEW k \in 1 .. Len(stack) PROVE stack[k].elm \in Cell /\ stack[k].mine \in Cell
  <2>1. stack[k] \in Frames
    BY <1>1, ElementOfSeq DEF StackOk
  <2>2. QED
    BY <2>1 DEF Frames
<1>3. QED
  BY <1>1, <1>2 DEF Held, Cell

LEMMA LinkedHolds ==
  ASSUME BinInv
  PROVE  Linked
<1>1. SUFFICES ASSUME ~Writing(stack)
               PROVE  /\ \A l \in Lists : \A k \in 1 .. Len(Forward(l)) :
                           prev[Forward(l)[k]] = IF k = 1 THEN NoBlock ELSE Forward(l)[k - 1]
                      /\ ToSet(Forward("inuse")) \ {NoBlock} = Held \ {NoBlock}
                      /\ numFree = Len(Forward("free"))
  BY DEF Linked, Writing, Top, LinkLabels, Removing, Inserting
<1>2. /\ LinkInv(Walked) /\ CountInv(Walked) /\ OwnInv(Walked)
      /\ Walked["free"] = Forward("free") /\ Walked["inuse"] = Forward("inuse")
      /\ Forward("free") \in Seq(Blocks) /\ Forward("inuse") \in Seq(Blocks)
  BY WalkedFacts
<1>3. ASSUME NEW l \in Lists, NEW k \in 1 .. Len(Forward(l))
      PROVE  prev[Forward(l)[k]] = IF k = 1 THEN NoBlock ELSE Forward(l)[k - 1]
  <2> DEFINE s == Forward(l)
  <2>1. Back(prev, Walked[l], 0)
    BY <1>1, <1>2 DEF LinkInv, Linkage, Still
  <2>2. Walked[l] = s /\ s \in Seq(Blocks)
    BY <1>2 DEF Walked, Lists
  <2>3. prev[s[k]] = Nth(s, k - 1) /\ k \in 1 .. Len(s) /\ Len(s) \in Nat
    <3>1. k # 0 /\ Back(prev, s, 0)
      BY <2>1, <2>2
    <3>2. QED
      BY <2>2, <3>1 DEF Back
  <2> HIDE DEF s
  <2>4. prev[s[k]] = IF k = 1 THEN NoBlock ELSE s[k - 1]
    BY <2>3 DEF Nth
  <2>5. QED
    BY <2>4 DEF s
<1>4. ToSet(Forward("inuse")) \ {NoBlock} = Held \ {NoBlock}
  <2> DEFINE s == Forward("inuse")
  <2>1. \A x : x \in ToSet(s) <=> On(s, x)
    BY <1>2 DEF ToSet, On
  <2>2. \A x : On(s, x) => x \in Blocks
    BY <1>2, SeqFacts DEF On
  <2>3. \A x \in Blocks : On(s, x) <=> Owns(stack, live, kept, x)
    BY <1>1, <1>2 DEF OwnInv, Owned, InHand
  <2>4. \A x \in Blocks : x \in Held <=> Owns(stack, live, kept, x)
    BY <1>1, HeldIsOwned
  <2>5. Held \subseteq Blocks \cup {NoBlock}
    BY HeldBlocks
  <2> HIDE DEF s
  <2>6. ToSet(s) \ {NoBlock} = Held \ {NoBlock}
    BY <2>1, <2>2, <2>3, <2>4, <2>5
  <2>7. QED
    BY <2>6 DEF s
<1>5. numFree = Len(Forward("free"))
  <2>1. Lag(stack) = 0 /\ Len(Forward("free")) \in Nat
    BY <1>1, <1>2, SeqFacts DEF Lag
  <2>2. QED
    BY <1>2, <2>1 DEF CountInv
<1>6. QED
  BY <1>3, <1>4, <1>5

LEMMA ReportHolds ==
  ASSUME BinInv
  PROVE  ReportComplete
<1>1. ReportInv(Walked)
  BY WalkedFacts
<1>2. SUFFICES ASSUME NEW k \in 1 .. Len(stack), stack[k].fn = "report", stack[k].pc = "print",
                      stack[k].elm = NoBlock
               PROVE  live \subseteq stack[k].seen
  BY DEF ReportComplete
<1>3. ReportAt(stack, live, kept, k, Walked["inuse"])
  BY <1>1, <1>2 DEF ReportInv, Reported, Prints
<1>4. QED
  BY <1>2, <1>3 DEF ReportAt, Covers

(***************************************************************************)
(* A step of the lists is one of BlockLists, or none.                      *)
(***************************************************************************)
LEMMA ListsRefine ==
  ASSUME BinInv, BinInv', Moved1(Walked, Walked')
  PROVE  [ImplementsLists!Next]_(ImplementsLists!vars)
<1> DEFINE f == Forward("free")
           u == Forward("inuse")
           f1 == Forward("free")'
           u1 == Forward("inuse")'
<1>1. /\ Walked["free"] = f /\ Walked["inuse"] = u /\ f \in Seq(Blocks) /\ u \in Seq(Blocks)
      /\ Walked \in [Lists -> Seq(Blocks)]
  BY WalkedFacts DEF LinkInv, Linkage
<1>2. Walked'["free"] = f1 /\ Walked'["inuse"] = u1
  BY DEF Walked, Lists
<1>3. /\ \A x : On(f, x) <=> x \in ToSet(f)
      /\ \A x : On(u, x) <=> x \in ToSet(u)
  BY <1>1 DEF On, ToSet
<1>4. \/ f1 = f /\ u1 = u
      \/ f # <<>> /\ f1 = Tail(f) /\ u1 = u
      \/ \E k \in 1 .. Len(u) : u1 = RemoveAt(u, k) /\ f1 = f
      \/ \E x \in Blocks : /\ ~On(f, x) /\ ~On(u, x)
                           /\ \/ f1 = <<x>> \o f /\ u1 = u
                              \/ u1 = <<x>> \o u /\ f1 = f
  <2> DEFINE W == Walked
             V == Walked'
  <2>1. W["free"] = f /\ W["inuse"] = u /\ W \in [Lists -> Seq(Blocks)] /\ Moved1(W, V)
        /\ V["free"] = f1 /\ V["inuse"] = u1
    BY <1>1, <1>2
  <2> HIDE DEF W, V, f, u, f1, u1
  <2>2. CASE V = W
    BY <2>1, <2>2
  <2>3. CASE W["free"] # <<>> /\ V = [W EXCEPT !["free"] = Tail(@)]
    BY <2>1, <2>3, OtherList
  <2>4. CASE \E k \in 1 .. Len(W["inuse"]) : V = [W EXCEPT !["inuse"] = RemoveAt(@, k)]
    <3>1. PICK k \in 1 .. Len(W["inuse"]) : V = [W EXCEPT !["inuse"] = RemoveAt(@, k)]
      BY <2>4
    <3>2. V["inuse"] = RemoveAt(W["inuse"], k) /\ V["free"] = W["free"]
      BY <2>1, <3>1, OtherList
    <3>3. QED
      BY <2>1, <3>2
  <2>5. CASE \E x \in Blocks, l \in Lists : /\ ~On(W["free"], x) /\ ~On(W["inuse"], x)
                                            /\ V = [W EXCEPT ![l] = <<x>> \o @]
    <3>1. PICK x \in Blocks, l \in Lists : /\ ~On(W["free"], x) /\ ~On(W["inuse"], x)
                                           /\ V = [W EXCEPT ![l] = <<x>> \o @]
      BY <2>5
    <3>2. \/ V["free"] = <<x>> \o W["free"] /\ V["inuse"] = W["inuse"]
          \/ V["inuse"] = <<x>> \o W["inuse"] /\ V["free"] = W["free"]
      BY <2>1, <3>1 DEF Lists
    <3>3. QED
      BY <2>1, <3>1, <3>2
  <2>6. QED
    BY <2>1, <2>2, <2>3, <2>4, <2>5 DEF Moved1
<1>5. CASE f1 = f /\ u1 = u
  BY <1>5 DEF ImplementsLists!vars
<1>6. CASE f # <<>> /\ f1 = Tail(f) /\ u1 = u
  BY <1>6 DEF ImplementsLists!Next, ImplementsLists!TakeFree
<1>7. CASE \E k \in 1 .. Len(u) : u1 = RemoveAt(u, k) /\ f1 = f
  <2>1. PICK k \in 1 .. Len(u) : u1 = RemoveAt(u, k) /\ f1 = f
    BY <1>7
  <2>2. k \in DOMAIN u /\ u[k] \in Blocks
    BY <1>1, <2>1
  <2>3. ImplementsLists!TakeInUse(u[k])
    BY <2>1, <2>2 DEF ImplementsLists!TakeInUse, ImplementsLists!RemoveAt, RemoveAt
  <2>4. QED
    BY <2>2, <2>3 DEF ImplementsLists!Next
<1>8. CASE \E x \in Blocks : /\ ~On(f, x) /\ ~On(u, x)
                             /\ \/ f1 = <<x>> \o f /\ u1 = u
                                \/ u1 = <<x>> \o u /\ f1 = f
  <2>1. PICK x \in Blocks : /\ ~On(f, x) /\ ~On(u, x)
                            /\ \/ f1 = <<x>> \o f /\ u1 = u
                               \/ u1 = <<x>> \o u /\ f1 = f
    BY <1>8
  <2>2. x \notin ImplementsLists!Listed
    BY <1>3, <2>1 DEF ImplementsLists!Listed, ImplementsLists!ToSet, ToSet
  <2>3. ImplementsLists!PutFree(x) \/ ImplementsLists!PutInUse(x)
    BY <2>1, <2>2 DEF ImplementsLists!PutFree, ImplementsLists!PutInUse
  <2>4. QED
    BY <2>3 DEF ImplementsLists!Next
<1>9. QED
  BY <1>4, <1>5, <1>6, <1>7, <1>8

LEMMA ListsFirst ==
  ASSUME Init
  PROVE  ImplementsLists!Init
<1>1. BinInv /\ Walked["inuse"] = <<>>
  BY BinInit
<1>2. /\ Forward("inuse") = <<>> /\ Forward("free") \in Seq(Blocks) /\ LinkInv(Walked)
      /\ Walked["free"] = Forward("free")
  BY <1>1, WalkedFacts
<1>3. stack = <<>>
  BY DEF Init
<1>4. Path(head["free"], next, Forward("free"))
  BY <1>2, <1>3, OtherList DEF LinkInv, Linkage, Still, Writing
<1>5. IsInjective(Forward("free"))
  BY <1>2, <1>4 DEF IsInjective, Path
<1>6. QED
  BY <1>2, <1>5 DEF ImplementsLists!Init, ImplementsLists!IsInjective, IsInjective

(* Without signals inside a call, every variable keeps its type; the count *)
(* of free blocks never wraps below zero (getBuf's and putBuf's numFree).  *)
THEOREM TypesHold == ~Signals => (Spec => []TypeOK)
<1> SUFFICES ASSUME ~Signals PROVE Spec => []TypeOK
  OBVIOUS
<1>1. Init => BinInv
  BY BinInit
<1>2. BinInv /\ [Next]_vars => BinInv'
  BY BinStep
<1>3. BinInv => TypeOK
  BY TypeHolds
<1>4. QED
  BY <1>1, <1>2, <1>3, PTL DEF Spec

(* ... whenever rmElm and insertElmHead are not at work, both lists are    *)
(* linked both ways, numFree counts the free one, and the other holds what *)
(* the program, the C library and the calls hold.                          *)
THEOREM ListsLinked == ~Signals => (Spec => []Linked)
<1> SUFFICES ASSUME ~Signals PROVE Spec => []Linked
  OBVIOUS
<1>1. Init => BinInv
  BY BinInit
<1>2. BinInv /\ [Next]_vars => BinInv'
  BY BinStep
<1>3. BinInv => Linked
  BY LinkedHolds
<1>4. QED
  BY <1>1, <1>2, <1>3, PTL DEF Spec

(* ... a report that has come to the end of the list has printed all that  *)
(* the program holds, whatever it and the reports inside it allocated.     *)
THEOREM ReportsComplete == ~Signals => (Spec => []ReportComplete)
<1> SUFFICES ASSUME ~Signals PROVE Spec => []ReportComplete
  OBVIOUS
<1>1. Init => BinInv
  BY BinInit
<1>2. BinInv /\ [Next]_vars => BinInv'
  BY BinStep
<1>3. BinInv => ReportComplete
  BY ReportHolds
<1>4. QED
  BY <1>1, <1>2, <1>3, PTL DEF Spec

(* ... every write of a pointer is a step of BlockLists, or leaves what a  *)
(* reader of the lists would find as it was.                               *)
THEOREM LinksImplementLists == ~Signals => (Spec => ListsKept)
<1> SUFFICES ASSUME ~Signals PROVE Spec => ListsKept
  OBVIOUS
<1>1. Init => BinInv /\ ImplementsLists!Init
  BY BinInit, ListsFirst
<1>2. BinInv /\ [Next]_vars => BinInv' /\ [ImplementsLists!Next]_(ImplementsLists!vars)
  BY BinStep, ListsRefine
<1>3. QED
  BY <1>1, <1>2, PTL DEF Spec, ListsKept
===============================================================================
