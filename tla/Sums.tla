--------------------------------- MODULE Sums ---------------------------------
(***************************************************************************)
(* Sums over finite sets.  SumFunctionOnSet of the community modules is a  *)
(* recursion that takes the elements in some order; the theorems on the    *)
(* heap's counters need that the order does not matter.  Induction is by   *)
(* the least number principle, which is a fact about sets.                 *)
(***************************************************************************)
EXTENDS Integers, FiniteSets, FiniteSetTheorems, WellFoundedInduction, TLAPS

(* Every nonempty set of numbers has a least one. *)
LEMMA LeastNumber ==
  ASSUME NEW T \in SUBSET Nat, T # {}
  PROVE  \E m \in T : \A k \in T : m <= k
<1> DEFINE R == OpToRel(<, Nat)
<1>1. IsWellFoundedOn(R, Nat)
  BY NatLessThanWellFounded, Zenon
<1>2. \A x, y \in Nat : y < x => <<y, x>> \in R
  BY DEF OpToRel
<1> HIDE DEF R
<1>3. PICK x \in T : \A y \in T : ~(<<y, x>> \in R)
  BY <1>1, WFMin
<1>4. ASSUME NEW y \in T PROVE x <= y
  <2>1. x \in Nat /\ y \in Nat
    OBVIOUS
  <2>2. ~(y < x)
    BY <1>2, <1>3, <2>1
  <2>3. QED
    BY <2>1, <2>2
<1>5. QED
  BY <1>4

(* Induction, as a fact about the set of the numbers that it reaches. *)
LEMMA InductionSet ==
  ASSUME NEW G, 0 \in G, \A n \in Nat : n \in G => n + 1 \in G
  PROVE  Nat \subseteq G
<1> SUFFICES ASSUME Nat \ G # {} PROVE FALSE
  OBVIOUS
<1>1. PICK m \in Nat \ G : \A k \in Nat \ G : m <= k
  BY LeastNumber
<1>2. m # 0 /\ m - 1 \in Nat /\ (m - 1) + 1 = m
  BY <1>1
<1>3. m - 1 \in G
  BY <1>1, <1>2
<1>4. QED
  BY <1>1, <1>2, <1>3

(***************************************************************************)
(* The recursion that the sum is.                                          *)
(***************************************************************************)
Pick(s) == CHOOSE x \in s : TRUE
SumStep(f, g, s) == IF s = {} THEN 0 ELSE f[Pick(s)] + g[s \ {Pick(s)}]
SumFcn(f, S) == CHOOSE g : g = [s \in SUBSET S |-> SumStep(f, g, s)]

(* The element that the recursion takes is in the set. *)
LEMMA PickIn == \A s : s # {} => Pick(s) \in s
BY DEF Pick

(* The fold of the community modules is this function. *)
LEMMA SumIsFcn == \A f, S : SumFunctionOnSet(f, S) = SumFcn(f, S)[S]
BY DEF SumFunctionOnSet, FoldFunctionOnSet, MapThenFoldSet, SumFcn, SumStep, Pick

(* Taking an element away makes a set smaller. *)
LEMMA Smaller ==
  ASSUME NEW s, IsFiniteSet(s), s # {}
  PROVE  /\ Pick(s) \in s /\ IsFiniteSet(s \ {Pick(s)})
         /\ Cardinality(s) \in Nat \ {0}
         /\ Cardinality(s \ {Pick(s)}) = Cardinality(s) - 1
<1>1. Pick(s) \in s
  BY PickIn
<1>2. QED
  BY <1>1, FS_RemoveElement, FS_CardinalityType, FS_EmptySet

(* A function with that recursion exists: it is built up by cardinality.   *)
LEMMA SumFcnExists ==
  ASSUME NEW f, NEW S, IsFiniteSet(S)
  PROVE  SumFcn(f, S) = [s \in SUBSET S |-> SumStep(f, SumFcn(f, S), s)]
<1> DEFINE Upto(n, g) == /\ g = [s \in SUBSET S |-> g[s]]
                         /\ \A s \in SUBSET S : Cardinality(s) <= n => g[s] = SumStep(f, g, s)
           G == {n \in Nat : \E g : Upto(n, g)}
<1>1. \A s \in SUBSET S : IsFiniteSet(s) /\ Cardinality(s) \in Nat
  BY FS_Subset, FS_CardinalityType
<1>2. 0 \in G
  <2> DEFINE g == [s \in SUBSET S |-> 0]
  <2>1. \A s \in SUBSET S : Cardinality(s) <= 0 => s = {}
    BY <1>1, FS_EmptySet
  <2>2. Upto(0, g)
    BY <2>1 DEF SumStep
  <2>3. QED
    BY <2>2
<1>3. ASSUME NEW n \in Nat, n \in G PROVE n + 1 \in G
  <2>1. PICK g : Upto(n, g)
    BY <1>3
  <2> DEFINE h == [s \in SUBSET S |-> IF Cardinality(s) <= n THEN g[s] ELSE SumStep(f, g, s)]
  <2>2. ASSUME NEW s \in SUBSET S, Cardinality(s) <= n + 1 PROVE h[s] = SumStep(f, h, s)
    <3>1. CASE s = {}
      <4>1. SumStep(f, g, s) = 0 /\ SumStep(f, h, s) = 0
        BY <3>1 DEF SumStep
      <4>2. Cardinality(s) <= n
        BY <3>1, FS_EmptySet
      <4>3. QED
        BY <2>1, <4>1, <4>2
    <3>2. CASE s # {}
      <4>1. s \ {Pick(s)} \in SUBSET S /\ Cardinality(s \ {Pick(s)}) <= n
        BY <1>1, <2>2, <3>2, Smaller
      <4>2. h[s \ {Pick(s)}] = g[s \ {Pick(s)}]
        BY <4>1
      <4>3. SumStep(f, h, s) = SumStep(f, g, s)
        BY <3>2, <4>2 DEF SumStep
      <4>4. h[s] = SumStep(f, g, s)
        BY <2>1
      <4>5. QED
        BY <4>3, <4>4
    <3>3. QED
      BY <3>1, <3>2
  <2>3. h = [s \in SUBSET S |-> h[s]]
    OBVIOUS
  <2> HIDE DEF h
  <2>4. Upto(n + 1, h)
    BY <2>2, <2>3
  <2> HIDE DEF Upto
  <2>5. \E q : Upto(n + 1, q)
    BY <2>4
  <2>6. QED
    BY <2>5
<1>4. Cardinality(S) \in Nat /\ Cardinality(S) \in G
  <2> HIDE DEF G
  <2>1. QED
    BY <1>2, <1>3, InductionSet, FS_CardinalityType
<1>5. PICK g : Upto(Cardinality(S), g)
  BY <1>4
<1>6. \A s \in SUBSET S : Cardinality(s) <= Cardinality(S)
  BY FS_Subset
<1>7. g = [s \in SUBSET S |-> SumStep(f, g, s)]
  BY <1>5, <1>6
<1>8. QED
  BY <1>7 DEF SumFcn

(* The recursion at one set. *)
LEMMA SumFcnAt ==
  ASSUME NEW f, NEW S, IsFiniteSet(S), NEW s \in SUBSET S
  PROVE  SumFcn(f, S)[s] = SumStep(f, SumFcn(f, S), s)
<1> DEFINE g == SumFcn(f, S)
<1>1. g = [r \in SUBSET S |-> SumStep(f, g, r)]
  BY SumFcnExists
<1> HIDE DEF g
<1>2. g[s] = SumStep(f, g, s)
  BY <1>1
<1>3. QED
  BY <1>2 DEF g

(* The sum over S is its recursion, whatever larger set it is part of. *)
LEMMA SumFcnAgrees ==
  ASSUME NEW f, NEW S, NEW T, IsFiniteSet(S), T \subseteq S
  PROVE  SumFcn(f, S)[T] = SumFcn(f, T)[T]
<1> DEFINE g == SumFcn(f, S)
           h == SumFcn(f, T)
           Agree(n) == \A s \in SUBSET T : Cardinality(s) = n => g[s] = h[s]
           G == {n \in Nat : Agree(n)}
<1>1. IsFiniteSet(T) /\ \A s \in SUBSET T : IsFiniteSet(s) /\ s \in SUBSET S
  BY FS_Subset
<1>2. /\ \A s \in SUBSET T : g[s] = SumStep(f, g, s)
      /\ \A s \in SUBSET T : h[s] = SumStep(f, h, s)
  BY <1>1, SumFcnAt
<1> HIDE DEF g, h
<1>3. 0 \in G
  <2>1. \A s \in SUBSET T : Cardinality(s) = 0 => s = {}
    BY <1>1, FS_EmptySet
  <2>2. QED
    BY <1>2, <2>1 DEF SumStep
<1>4. ASSUME NEW n \in Nat, n \in G PROVE n + 1 \in G
  <2>1. ASSUME NEW s \in SUBSET T, Cardinality(s) = n + 1 PROVE g[s] = h[s]
    <3>1. s # {} /\ IsFiniteSet(s)
      BY <1>1, <2>1, FS_EmptySet
    <3>2. s \ {Pick(s)} \in SUBSET T /\ Cardinality(s \ {Pick(s)}) = n
      BY <2>1, <3>1, Smaller
    <3>3. g[s \ {Pick(s)}] = h[s \ {Pick(s)}]
      BY <1>4, <3>2
    <3>4. QED
      BY <1>2, <3>1, <3>3 DEF SumStep
  <2>2. QED
    BY <2>1
<1>5. Nat \subseteq G
  <2> HIDE DEF G
  <2>1. QED
    BY <1>3, <1>4, InductionSet
<1>6. Cardinality(T) \in Nat
  BY <1>1, FS_CardinalityType
<1>7. QED
  BY <1>5, <1>6 DEF g, h

(***************************************************************************)
(* What the theorems use.                                                  *)
(***************************************************************************)
(* The sum over no elements. *)
LEMMA SumEmpty == \A f : SumFunctionOnSet(f, {}) = 0
<1> SUFFICES ASSUME NEW f PROVE SumFunctionOnSet(f, {}) = 0
  OBVIOUS
<1>1. IsFiniteSet({}) /\ {} \in SUBSET {}
  BY FS_EmptySet
<1>2. SumFcn(f, {})[{}] = SumStep(f, SumFcn(f, {}), {})
  BY <1>1, SumFcnAt
<1>3. QED
  BY <1>2, SumIsFcn DEF SumStep

(* The sum over more, by its recursion. *)
LEMMA SumPick ==
  ASSUME NEW f, NEW S, IsFiniteSet(S), S # {}
  PROVE  SumFunctionOnSet(f, S) = f[Pick(S)] + SumFunctionOnSet(f, S \ {Pick(S)})
<1>1. SumFcn(f, S)[S] = SumStep(f, SumFcn(f, S), S)
  BY SumFcnAt
<1>2. SumFcn(f, S)[S \ {Pick(S)}] = SumFcn(f, S \ {Pick(S)})[S \ {Pick(S)}]
  BY SumFcnAgrees
<1>3. QED
  BY <1>1, <1>2, SumIsFcn DEF SumStep

(* Induction over finite sets, as a fact about a set of sets. *)
LEMMA SetInduction ==
  ASSUME NEW S, IsFiniteSet(S), NEW G,
         {} \in G,
         \A s \in SUBSET S : s # {} /\ s \ {Pick(s)} \in G => s \in G
  PROVE  SUBSET S \subseteq G
<1> DEFINE N == {n \in Nat : \A s \in SUBSET S : Cardinality(s) = n => s \in G}
<1>1. \A s \in SUBSET S : IsFiniteSet(s) /\ Cardinality(s) \in Nat
  BY FS_Subset, FS_CardinalityType
<1>2. 0 \in N
  BY <1>1, FS_EmptySet
<1>3. ASSUME NEW n \in Nat, n \in N PROVE n + 1 \in N
  <2>1. ASSUME NEW s \in SUBSET S, Cardinality(s) = n + 1 PROVE s \in G
    <3>1. s # {} /\ IsFiniteSet(s)
      BY <1>1, <2>1, FS_EmptySet
    <3>2. Cardinality(s \ {Pick(s)}) = Cardinality(s) - 1
      BY <3>1, Smaller
    <3>3. s \ {Pick(s)} \in SUBSET S /\ Cardinality(s \ {Pick(s)}) = n
      BY <2>1, <3>2
    <3>4. QED
      BY <1>3, <3>1, <3>3
  <2>2. QED
    BY <2>1
<1>4. Nat \subseteq N
  <2> HIDE DEF N
  <2>1. QED
    BY <1>2, <1>3, InductionSet
<1>5. QED
  BY <1>1, <1>4

(* A sum of integers is one. *)
LEMMA SumInt ==
  ASSUME NEW f, NEW S, IsFiniteSet(S), \A x \in S : f[x] \in Int
  PROVE  SumFunctionOnSet(f, S) \in Int
<1> DEFINE G == {s \in SUBSET S : SumFunctionOnSet(f, s) \in Int}
<1>1. {} \in G
  BY SumEmpty
<1>2. ASSUME NEW s \in SUBSET S, s # {}, s \ {Pick(s)} \in G PROVE s \in G
  <2>1. IsFiniteSet(s) /\ Pick(s) \in s
    BY <1>2, FS_Subset, PickIn
  <2>2. QED
    BY <1>2, <2>1, SumPick
<1> HIDE DEF G
<1>3. SUBSET S \subseteq G
  BY <1>1, <1>2, SetInduction
<1>4. QED
  BY <1>3 DEF G

(* A sum of natural numbers is one. *)
LEMMA SumNat ==
  ASSUME NEW f, NEW S, IsFiniteSet(S), \A x \in S : f[x] \in Nat
  PROVE  SumFunctionOnSet(f, S) \in Nat
<1> DEFINE G == {s \in SUBSET S : SumFunctionOnSet(f, s) \in Nat}
<1>1. {} \in G
  BY SumEmpty
<1>2. ASSUME NEW s \in SUBSET S, s # {}, s \ {Pick(s)} \in G PROVE s \in G
  <2>1. IsFiniteSet(s) /\ Pick(s) \in s
    BY <1>2, FS_Subset, PickIn
  <2>2. QED
    BY <1>2, <2>1, SumPick
<1> HIDE DEF G
<1>3. SUBSET S \subseteq G
  BY <1>1, <1>2, SetInduction
<1>4. QED
  BY <1>3 DEF G

(* Functions that agree on a set have the same sum over it. *)
LEMMA SumSame ==
  ASSUME NEW f, NEW g, NEW S, IsFiniteSet(S), \A x \in S : f[x] = g[x]
  PROVE  SumFunctionOnSet(f, S) = SumFunctionOnSet(g, S)
<1> DEFINE G == {s \in SUBSET S : SumFunctionOnSet(f, s) = SumFunctionOnSet(g, s)}
<1>1. {} \in G
  BY SumEmpty
<1>2. ASSUME NEW s \in SUBSET S, s # {}, s \ {Pick(s)} \in G PROVE s \in G
  <2>1. IsFiniteSet(s) /\ Pick(s) \in s
    BY <1>2, FS_Subset, PickIn
  <2>2. QED
    BY <1>2, <2>1, SumPick
<1> HIDE DEF G
<1>3. SUBSET S \subseteq G
  BY <1>1, <1>2, SetInduction
<1>4. QED
  BY <1>3 DEF G

(* An element more adds its value: the order of the recursion is no matter.*)
LEMMA SumAdd ==
  ASSUME NEW f, NEW S, NEW b, IsFiniteSet(S), b \notin S,
         \A x \in S \cup {b} : f[x] \in Int
  PROVE  SumFunctionOnSet(f, S \cup {b}) = SumFunctionOnSet(f, S) + f[b]
<1> DEFINE Sum(s) == SumFunctionOnSet(f, s)
           Adds(s) == \A x \in (S \cup {b}) \ s : Sum(s \cup {x}) = Sum(s) + f[x]
           N == {n \in Nat : \A s \in SUBSET S : Cardinality(s) = n => Adds(s)}
<1>1. \A s \in SUBSET (S \cup {b}) : /\ IsFiniteSet(s) /\ Cardinality(s) \in Nat
                                     /\ Sum(s) \in Int
  <2>1. IsFiniteSet(S \cup {b})
    BY FS_AddElement
  <2>2. QED
    BY <2>1, FS_Subset, FS_CardinalityType, SumInt
<1>2. ASSUME NEW n \in Nat, \A m \in Nat : m < n => m \in N PROVE n \in N
  <2> SUFFICES ASSUME NEW s \in SUBSET S, Cardinality(s) = n, NEW x \in (S \cup {b}) \ s
               PROVE  Sum(s \cup {x}) = Sum(s) + f[x]
    OBVIOUS
  <2> DEFINE u == s \cup {x}
             p == Pick(u)
  <2>1. u \in SUBSET (S \cup {b}) /\ p \in u /\ IsFiniteSet(u) /\ u # {}
    BY <1>1, PickIn
  <2>2. Sum(u) = f[p] + Sum(u \ {p})
    BY <2>1, SumPick
  <2> HIDE DEF p
  <2>3. CASE p = x
    <3>1. u \ {p} = s
      BY <2>3
    <3>2. f[x] \in Int /\ Sum(s) \in Int /\ Sum(u) = f[x] + Sum(s)
      BY <1>1, <2>2, <2>3, <3>1
    <3> HIDE DEF Sum
    <3>3. Sum(u) = Sum(s) + f[x]
      BY <3>2
    <3>4. QED
      BY <3>3
  <2>4. CASE p # x
    <3>1. p \in s
      BY <2>1, <2>4
    <3> DEFINE r == s \ {p}
    <3>2. /\ r \in SUBSET S /\ Cardinality(r) \in Nat /\ Cardinality(r) < n
          /\ p \in (S \cup {b}) \ r /\ x \in (S \cup {b}) \ r
          /\ r \cup {p} = s /\ r \cup {x} = u \ {p}
      BY <1>1, <2>4, <3>1, FS_RemoveElement
    <3> HIDE DEF r, u
    <3>3. Adds(r)
      BY <1>2, <3>2
    <3>4. Sum(s) = Sum(r) + f[p] /\ Sum(u \ {p}) = Sum(r) + f[x]
      BY <3>2, <3>3
    <3>5. f[p] \in Int /\ f[x] \in Int /\ Sum(r) \in Int
      BY <1>1, <3>2
    <3> HIDE DEF Sum
    <3>6. Sum(u) = Sum(s) + f[x]
      BY <2>2, <3>4, <3>5
    <3>7. QED
      BY <3>6 DEF u
  <2>5. QED
    BY <2>3, <2>4
<1>3. Nat \subseteq N
  <2> HIDE DEF N
  <2> SUFFICES ASSUME Nat \ N # {} PROVE FALSE
    OBVIOUS
  <2>1. PICK m \in Nat \ N : \A k \in Nat \ N : m <= k
    BY LeastNumber
  <2>2. QED
    BY <1>2, <2>1
<1>4. Adds(S)
  BY <1>1, <1>3
<1>5. QED
  BY <1>4

(* An element less takes its value away. *)
LEMMA SumRemove ==
  ASSUME NEW f, NEW S, NEW b \in S, IsFiniteSet(S), \A x \in S : f[x] \in Int
  PROVE  SumFunctionOnSet(f, S \ {b}) = SumFunctionOnSet(f, S) - f[b]
<1>1. (S \ {b}) \cup {b} = S /\ IsFiniteSet(S \ {b}) /\ b \notin S \ {b}
  BY FS_RemoveElement
<1>2. SumFunctionOnSet(f, S) = SumFunctionOnSet(f, S \ {b}) + f[b]
  BY <1>1, SumAdd
<1>3. SumFunctionOnSet(f, S \ {b}) \in Int /\ f[b] \in Int
  BY <1>1, SumInt
<1>4. QED
  BY <1>2, <1>3

(* One value that changes changes the sum by as much. *)
LEMMA SumChange ==
  ASSUME NEW f, NEW g, NEW S, NEW b \in S, IsFiniteSet(S),
         \A x \in S : f[x] \in Int /\ g[x] \in Int, \A x \in S \ {b} : g[x] = f[x]
  PROVE  SumFunctionOnSet(g, S) = SumFunctionOnSet(f, S) - f[b] + g[b]
<1>1. IsFiniteSet(S \ {b})
  BY FS_RemoveElement
<1>2. SumFunctionOnSet(g, S \ {b}) = SumFunctionOnSet(f, S \ {b})
  BY <1>1, SumSame
<1>3. /\ SumFunctionOnSet(f, S \ {b}) = SumFunctionOnSet(f, S) - f[b]
      /\ SumFunctionOnSet(g, S \ {b}) = SumFunctionOnSet(g, S) - g[b]
  BY SumRemove
<1>4. /\ SumFunctionOnSet(f, S) \in Int /\ SumFunctionOnSet(g, S) \in Int
      /\ f[b] \in Int /\ g[b] \in Int
  BY SumInt
<1>5. QED
  BY <1>2, <1>3, <1>4

(* The sum over two sets that share nothing. *)
LEMMA SumDisjoint ==
  ASSUME NEW f, NEW S, NEW T, IsFiniteSet(S), IsFiniteSet(T), S \cap T = {},
         \A x \in S \cup T : f[x] \in Int
  PROVE  SumFunctionOnSet(f, S \cup T) = SumFunctionOnSet(f, S) + SumFunctionOnSet(f, T)
<1> DEFINE Adds(s) == SumFunctionOnSet(f, S \cup s)
                        = SumFunctionOnSet(f, S) + SumFunctionOnSet(f, s)
           G == {s \in SUBSET T : Adds(s)}
<1>1. {} \in G
  <2>1. SumFunctionOnSet(f, S) \in Int /\ S \cup {} = S
    BY SumInt
  <2>2. QED
    BY <2>1, SumEmpty
<1>2. ASSUME NEW s \in SUBSET T, s # {}, s \ {Pick(s)} \in G PROVE s \in G
  <2> DEFINE p == Pick(s)
             r == s \ {p}
  <2>1. IsFiniteSet(s) /\ p \in s
    BY <1>2, FS_Subset, PickIn
  <2> HIDE DEF p
  <2>2. /\ IsFiniteSet(r) /\ IsFiniteSet(S \cup r) /\ p \notin r /\ p \notin S \cup r
        /\ r \cup {p} = s /\ (S \cup r) \cup {p} = S \cup s
    <3>1. IsFiniteSet(r)
      BY <2>1, FS_RemoveElement
    <3>2. IsFiniteSet(S \cup r)
      BY <3>1, FS_Union
    <3>3. p \in T /\ p \notin S
      BY <2>1
    <3>4. QED
      BY <2>1, <3>1, <3>2, <3>3
  <2>3. /\ SumFunctionOnSet(f, S \cup s) = SumFunctionOnSet(f, S \cup r) + f[p]
        /\ SumFunctionOnSet(f, s) = SumFunctionOnSet(f, r) + f[p]
    <3>1. \A x \in (S \cup r) \cup {p} : f[x] \in Int
      BY <2>1
    <3>2. SumFunctionOnSet(f, (S \cup r) \cup {p}) = SumFunctionOnSet(f, S \cup r) + f[p]
      BY <2>2, <3>1, SumAdd
    <3>3. SumFunctionOnSet(f, r \cup {p}) = SumFunctionOnSet(f, r) + f[p]
      BY <2>2, <3>1, SumAdd
    <3>4. QED
      BY <2>2, <3>2, <3>3
  <2>4. /\ SumFunctionOnSet(f, S) \in Int /\ SumFunctionOnSet(f, r) \in Int /\ f[p] \in Int
    BY <2>1, <2>2, SumInt
  <2>5. Adds(r)
    BY <1>2 DEF p
  <2>6. QED
    BY <2>3, <2>4, <2>5
<1> HIDE DEF G
<1>3. SUBSET T \subseteq G
  BY <1>1, <1>2, SetInduction
<1>4. QED
  BY <1>3 DEF G

(* A column of a table. *)
ColumnIs(f, k, h, B) == \A x \in B : h[x] \in Int /\ f[<<k, x>>] = h[x]

LEMMA SumColumn ==
  ASSUME NEW f, NEW h, NEW k, NEW B, NEW C, C = {k} \X B, IsFiniteSet(B),
         ColumnIs(f, k, h, B)
  PROVE  SumFunctionOnSet(f, C) = SumFunctionOnSet(h, B) /\ IsFiniteSet(C)
<1> USE DEF ColumnIs
<1> DEFINE G == {s \in SUBSET B : /\ SumFunctionOnSet(f, {k} \X s) = SumFunctionOnSet(h, s)
                                  /\ IsFiniteSet({k} \X s)}
<1>1. {} \in G
  <2>1. {k} \X {} = {}
    OBVIOUS
  <2>2. QED
    BY <2>1, SumEmpty, FS_EmptySet
<1>2. ASSUME NEW s \in SUBSET B, s # {}, s \ {Pick(s)} \in G PROVE s \in G
  <2> DEFINE p == Pick(s)
             r == s \ {p}
  <2>1. IsFiniteSet(s) /\ p \in s
    BY <1>2, FS_Subset, PickIn
  <2>2. /\ SumFunctionOnSet(f, {k} \X r) = SumFunctionOnSet(h, r)
        /\ IsFiniteSet({k} \X r)
    BY <1>2
  <2> HIDE DEF p
  <2>3. IsFiniteSet(r) /\ p \notin r /\ r \cup {p} = s
    BY <2>1, FS_RemoveElement
  <2>4. ({k} \X r) \cup {<<k, p>>} = {k} \X s /\ <<k, p>> \notin {k} \X r
    BY <2>1
  <2>5. \A y \in ({k} \X r) \cup {<<k, p>>} : f[y] \in Int
    BY <2>1
  <2>6. SumFunctionOnSet(f, ({k} \X r) \cup {<<k, p>>}) = SumFunctionOnSet(f, {k} \X r) + f[<<k, p>>]
    <3> DEFINE D == {k} \X r
               e == <<k, p>>
    <3>1. IsFiniteSet(D) /\ e \notin D /\ \A y \in D \cup {e} : f[y] \in Int
      BY <2>2, <2>4, <2>5
    <3> HIDE DEF D, e
    <3>2. SumFunctionOnSet(f, D \cup {e}) = SumFunctionOnSet(f, D) + f[e]
      BY <3>1, SumAdd
    <3>3. QED
      BY <3>2 DEF D, e
  <2>7. SumFunctionOnSet(h, r \cup {p}) = SumFunctionOnSet(h, r) + h[p]
    BY <2>1, <2>3, SumAdd
  <2>8. IsFiniteSet({k} \X s)
    <3>1. IsFiniteSet(({k} \X r) \cup {<<k, p>>})
      BY <2>2, FS_AddElement
    <3>2. QED
      BY <2>4, <3>1
  <2>9. SumFunctionOnSet(f, {k} \X s) = SumFunctionOnSet(h, s)
    <3>1. p \in B /\ f[<<k, p>>] = h[p]
      BY <2>1
    <3>2. QED
      BY <2>2, <2>3, <2>4, <2>6, <2>7, <3>1
  <2>10. QED
    BY <2>8, <2>9
<1> HIDE DEF G
<1>3. SUBSET B \subseteq G
  BY <1>1, <1>2, SetInduction
<1>4. QED
  BY <1>3 DEF G

(* A table whose n columns are alike. *)
LEMMA SumTable ==
  ASSUME NEW f, NEW h, NEW n \in Nat, NEW B, IsFiniteSet(B),
         \A x \in B : h[x] \in Int, \A k \in 0 .. n - 1 : ColumnIs(f, k, h, B)
  PROVE  /\ SumFunctionOnSet(f, (0 .. n - 1) \X B) = n * SumFunctionOnSet(h, B)
         /\ IsFiniteSet((0 .. n - 1) \X B)
<1> DEFINE T(m) == (0 .. m - 1) \X B
           c == SumFunctionOnSet(h, B)
           Good(m) == SumFunctionOnSet(f, T(m)) = m * c /\ IsFiniteSet(T(m))
           N == {m \in Nat : m <= n => Good(m)}
<1>1. c \in Int
  BY SumInt
<1>2. 0 \in N
  <2>1. T(0) = {}
    OBVIOUS
  <2>2. SumFunctionOnSet(f, T(0)) = 0 /\ IsFiniteSet(T(0))
    BY <2>1, SumEmpty, FS_EmptySet
  <2> HIDE DEF T, c
  <2>3. 0 * c = 0
    BY <1>1
  <2>4. QED
    BY <2>2, <2>3
<1>3. ASSUME NEW m \in Nat, m \in N PROVE m + 1 \in N
  <2> SUFFICES ASSUME m + 1 <= n PROVE Good(m + 1)
    OBVIOUS
  <2>1. Good(m) /\ m \in 0 .. n - 1
    BY <1>3
  <2>2. SumFunctionOnSet(f, {m} \X B) = c /\ IsFiniteSet({m} \X B)
    <3>1. ColumnIs(f, m, h, B)
      BY <2>1
    <3> DEFINE C == {m} \X B
    <3>2. C = {m} \X B
      OBVIOUS
    <3> HIDE DEF C
    <3>3. SumFunctionOnSet(f, C) = SumFunctionOnSet(h, B) /\ IsFiniteSet(C)
      BY <3>1, <3>2, SumColumn
    <3>4. QED
      BY <3>3 DEF C
  <2>3. 0 .. (m + 1) - 1 = (0 .. m - 1) \cup {m} /\ m \notin 0 .. m - 1
    OBVIOUS
  <2>4. T(m + 1) = T(m) \cup ({m} \X B) /\ T(m) \cap ({m} \X B) = {}
    BY <2>3
  <2>5. ASSUME NEW y \in T(m) \cup ({m} \X B) PROVE f[y] \in Int
    <3>1. PICK k \in 0 .. m, x \in B : y = <<k, x>>
      BY <2>3, <2>5
    <3>2. k \in 0 .. n - 1
      BY <2>1
    <3>3. f[<<k, x>>] = h[x]
      BY <3>2 DEF ColumnIs
    <3>4. QED
      BY <3>1, <3>3
  <2> HIDE DEF c, T
  <2>6. SumFunctionOnSet(f, T(m) \cup ({m} \X B))
          = SumFunctionOnSet(f, T(m)) + SumFunctionOnSet(f, {m} \X B)
    <3> DEFINE C == {m} \X B
    <3>1. IsFiniteSet(T(m)) /\ IsFiniteSet(C) /\ T(m) \cap C = {}
          /\ \A y \in T(m) \cup C : f[y] \in Int
      BY <2>1, <2>2, <2>4, <2>5
    <3> HIDE DEF C
    <3>2. SumFunctionOnSet(f, T(m) \cup C) = SumFunctionOnSet(f, T(m)) + SumFunctionOnSet(f, C)
      BY <3>1, SumDisjoint
    <3>3. QED
      BY <3>2 DEF C
  <2>7. IsFiniteSet(T(m + 1))
    <3> DEFINE C == {m} \X B
    <3>1. IsFiniteSet(T(m)) /\ IsFiniteSet(C) /\ T(m + 1) = T(m) \cup C
      BY <2>1, <2>2, <2>4
    <3> HIDE DEF C, N, Good
    <3>2. IsFiniteSet(T(m) \cup C)
      BY <3>1, FS_Union
    <3>3. QED
      BY <3>1, <3>2
  <2>8. m * c + c = (m + 1) * c
    BY <1>1, Z3
  <2>9. SumFunctionOnSet(f, T(m + 1)) = (m + 1) * c
    BY <2>1, <2>2, <2>4, <2>6, <2>8
  <2>10. QED
    BY <2>7, <2>9
<1> HIDE DEF N
<1>4. n \in N
  BY <1>2, <1>3, InductionSet
<1>5. QED
  BY <1>4 DEF N
===============================================================================
