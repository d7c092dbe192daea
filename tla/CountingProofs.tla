--------------------------- MODULE CountingProofs ---------------------------
(***************************************************************************)
(* What the proofs of other modules know about numbers, finite sets and    *)
(* sums: the least number of a set, induction over numbers and over finite *)
(* sets as facts about sets, greatest and least members, and the sums of   *)
(* the community modules, SumFunctionOnSet, which are defined by a         *)
(* recursion over the subsets of a set that always takes the member that   *)
(* CHOOSE picks.                                                           *)
(***************************************************************************)
EXTENDS Integers, FiniteSets, Functions, FiniteSetsExt, FiniteSetTheorems, WellFoundedInduction, TLAPS

LEMMA LeastMember ==
  ASSUME NEW S \in SUBSET Nat, S # {}
  PROVE  \E a \in S : \A b \in S : a <= b
<1> DEFINE R == OpToRel(<, Nat)
<1>1. \A x, y \in Nat : <<y, x>> \in R <=> y < x
  BY DEF OpToRel
<1>2. IsWellFoundedOn(R, Nat)
  BY NatLessThanWellFounded
<1> HIDE DEF R
<1>3. PICK x \in S : \A y \in S : ~(<<y, x>> \in R)
  BY <1>2, WFMin
<1>4. ASSUME NEW y \in S PROVE x <= y
  <2>1. ~(y < x) /\ x \in Nat /\ y \in Nat
    BY <1>1, <1>3
  <2> QED BY <2>1
<1> QED BY <1>4

\* Induction, as a fact about sets of numbers.
LEMMA UpTo ==
  ASSUME NEW N \in Nat, NEW G, 0 \in G, \A k \in 1 .. N : k - 1 \in G => k \in G
  PROVE  0 .. N \subseteq G
<1> DEFINE Bad == (0 .. N) \ G
<1>1. SUFFICES ASSUME Bad # {} PROVE FALSE
  OBVIOUS
<1>2. PICK b \in Bad : \A c \in Bad : b <= c
  <2>1. Bad \in SUBSET Nat
    OBVIOUS
  <2> HIDE DEF Bad
  <2> QED BY <1>1, <2>1, LeastMember
<1>3. b \in 1 .. N /\ b - 1 \in 0 .. N /\ ~(b <= b - 1)
  OBVIOUS
<1>4. b - 1 \in G
  BY <1>2, <1>3
<1> QED BY <1>3, <1>4

\* Induction over the subsets of a finite set, as a fact about sets of them.
LEMMA SetByMembers ==
  ASSUME NEW S, IsFiniteSet(S), NEW G, {} \in G,
         \A T \in SUBSET S : \A x \in S \ T : T \in G => T \cup {x} \in G
  PROVE  S \in G
<1> DEFINE Sizes == {n \in Nat : \E T \in SUBSET S : T \notin G /\ Cardinality(T) = n}
<1>1. SUFFICES ASSUME S \notin G PROVE FALSE
  OBVIOUS
<1>2. Cardinality(S) \in Sizes
  BY <1>1, FS_CardinalityType
<1>3. PICK n \in Sizes : \A m \in Sizes : n <= m
  <2>1. Sizes \in SUBSET Nat /\ Sizes # {}
    BY <1>2
  <2> HIDE DEF Sizes
  <2> QED BY <2>1, LeastMember
<1>4. PICK T \in SUBSET S : T \notin G /\ Cardinality(T) = n
  OBVIOUS
<1>5. PICK t \in T : TRUE
  BY <1>4
<1>6. IsFiniteSet(T) /\ IsFiniteSet(T \ {t})
  BY FS_Subset
<1>7. Cardinality(T \ {t}) = n - 1 /\ n - 1 \in Nat
  <2>1. Cardinality(T \ {t}) = Cardinality(T) - 1
    BY <1>5, <1>6, FS_RemoveElement
  <2>2. Cardinality(T \ {t}) \in Nat
    BY <1>6, FS_CardinalityType
  <2> QED BY <1>4, <2>1, <2>2
<1>8. T \ {t} \in G
  <2>1. n - 1 \notin Sizes
    BY <1>3, <1>7
  <2> QED BY <1>7, <2>1
<1>9. (T \ {t}) \cup {t} \in G
  BY <1>5, <1>8
<1> QED BY <1>4, <1>5, <1>9

\* A set that holds at most one thing.
LEMMA OneOrNone ==
  ASSUME NEW S, NEW x, S \subseteq {x}
  PROVE  IsFiniteSet(S) /\ Cardinality(S) <= 1 /\ (x \in S => Cardinality(S) = 1)
<1>1. CASE x \in S
  <2>1. S = {x}
    BY <1>1
  <2>2. IsFiniteSet({x}) /\ Cardinality({x}) = 1
    BY FS_Singleton
  <2> QED BY <2>1, <2>2
<1>2. CASE x \notin S
  <2>1. S = {}
    BY <1>2
  <2>2. IsFiniteSet({}) /\ Cardinality({}) = 0
    BY FS_EmptySet
  <2> QED BY <1>2, <2>1, <2>2
<1> QED BY <1>1, <1>2

\* Values of a function on a finite set are finitely many.
LEMMA FiniteRange ==
  ASSUME NEW S, IsFiniteSet(S), NEW f
  PROVE  IsFiniteSet({f[x] : x \in S})
<1> DEFINE T == {f[x] : x \in S}
           g == [x \in S |-> f[x]]
<1>1. g \in Surjection(S, T)
  BY DEF Surjection
<1> QED BY <1>1, FS_Surjection

\* And has no more members than the set.
LEMMA CountRange ==
  ASSUME NEW S, IsFiniteSet(S), NEW f, NEW T, \A y \in T : \E x \in S : y = f[x]
  PROVE  IsFiniteSet(T) /\ Cardinality(T) <= Cardinality(S)
<1> DEFINE U == {x \in S : f[x] \in T}
           g == [x \in U |-> f[x]]
<1>1. U \in SUBSET S
  OBVIOUS
<1>2. IsFiniteSet(U) /\ Cardinality(U) <= Cardinality(S)
  BY <1>1, FS_Subset
<1>3. g \in Surjection(U, T)
  <2>1. g \in [U -> T]
    OBVIOUS
  <2>2. \A y \in T : \E x \in U : g[x] = y
    OBVIOUS
  <2> QED BY <2>1, <2>2 DEF Surjection
<1> HIDE DEF U, g
<1>4. IsFiniteSet(T) /\ Cardinality(T) <= Cardinality(U)
  BY <1>2, <1>3, FS_Surjection
<1>5. Cardinality(T) \in Nat /\ Cardinality(U) \in Nat /\ Cardinality(S) \in Nat
  BY <1>2, <1>4, FS_CardinalityType
<1> QED BY <1>2, <1>4, <1>5

\* A finite set of numbers has a greatest and a least member, unless it is empty.
Bounded(S) == \E a, b \in S : \A x \in S : b <= x /\ x <= a

LEMMA FiniteIsBounded ==
  ASSUME NEW S \in SUBSET Int, IsFiniteSet(S), S # {}
  PROVE  Bounded(S)
<1> DEFINE Sizes == {n \in Nat : \E T \in SUBSET S : T # {} /\ ~Bounded(T) /\ Cardinality(T) = n}
<1>1. SUFFICES ASSUME ~Bounded(S) PROVE FALSE
  OBVIOUS
<1>2. Cardinality(S) \in Sizes
  BY <1>1, FS_CardinalityType
<1>3. PICK n \in Sizes : \A m \in Sizes : n <= m
  <2>1. Sizes \in SUBSET Nat /\ Sizes # {}
    BY <1>2
  <2> HIDE DEF Sizes
  <2> QED BY <2>1, LeastMember
<1>4. PICK T \in SUBSET S : T # {} /\ ~Bounded(T) /\ Cardinality(T) = n
  OBVIOUS
<1>5. PICK t \in T : TRUE
  BY <1>4
<1>6. IsFiniteSet(T) /\ T \subseteq Int /\ t \in Int
  BY <1>5, FS_Subset
<1>7. IsFiniteSet(T \ {t}) /\ Cardinality(T \ {t}) = n - 1 /\ n - 1 \in Nat
  <2>1. IsFiniteSet(T \ {t}) /\ Cardinality(T \ {t}) = Cardinality(T) - 1
    BY <1>6, FS_RemoveElement
  <2> QED BY <1>4, <2>1, FS_CardinalityType
<1>8. T \ {t} # {}
  <2> SUFFICES ASSUME T = {t} PROVE FALSE
    BY <1>5
  <2> QED BY <1>4, <1>6 DEF Bounded
<1>9. Bounded(T \ {t})
  <2>1. n - 1 \notin Sizes
    BY <1>3, <1>7
  <2> QED BY <1>7, <1>8, <2>1
<1>10. PICK a \in T \ {t}, b \in T \ {t} : \A x \in T \ {t} : b <= x /\ x <= a
  BY <1>9 DEF Bounded
<1> DEFINE c == IF a <= t THEN t ELSE a
           d == IF t <= b THEN t ELSE b
<1>11. c \in T /\ d \in T /\ \A x \in T : d <= x /\ x <= c
  <2>1. a \in Int /\ b \in Int /\ b <= a
    BY <1>6, <1>10
  <2>2. ASSUME NEW x \in T PROVE d <= x /\ x <= c
    <3>1. x \in Int
      BY <1>6
    <3>2. CASE x = t
      BY <1>6, <2>1, <3>1, <3>2
    <3>3. CASE x # t
      BY <1>6, <1>10, <2>1, <3>1, <3>3
    <3> QED BY <3>2, <3>3
  <2> QED BY <2>2
<1>12. Bounded(T)
  <2> HIDE DEF c, d
  <2> QED BY <1>11 DEF Bounded
<1> QED BY <1>4, <1>12

LEMMA MaxMin ==
  ASSUME NEW S \in SUBSET Int, IsFiniteSet(S), S # {}
  PROVE  /\ Max(S) \in S /\ \A x \in S : x <= Max(S)
         /\ Min(S) \in S /\ \A x \in S : Min(S) <= x
<1>1. PICK a \in S, b \in S : \A x \in S : b <= x /\ x <= a
  BY FiniteIsBounded DEF Bounded
<1>2. Max(S) \in S /\ \A x \in S : Max(S) >= x
  <2>1. \A x \in S : a >= x
    BY <1>1
  <2> QED BY <2>1 DEF Max
<1>3. Min(S) \in S /\ \A x \in S : Min(S) <= x
  BY <1>1 DEF Min
<1> QED BY <1>2, <1>3

LEMMA SmallOf ==
  ASSUME NEW a \in Int, NEW b \in Int
  PROVE  Min({a, b}) = (IF a <= b THEN a ELSE b) /\ Max({a, b}) = (IF a <= b THEN b ELSE a)
<1>1. {a, b} \in SUBSET Int /\ {a, b} # {} /\ IsFiniteSet({a, b})
  <2>1. IsFiniteSet({a} \cup {b})
    BY FS_Singleton, FS_AddElement
  <2> QED BY <2>1
<1>2. /\ Max({a, b}) \in {a, b} /\ \A x \in {a, b} : x <= Max({a, b})
      /\ Min({a, b}) \in {a, b} /\ \A x \in {a, b} : Min({a, b}) <= x
  BY <1>1, MaxMin
<1> QED BY <1>2

\* What a Monday leaves out of a set of Mondays is counted.
LEMMA Counted ==
  ASSUME NEW S, NEW T, IsFiniteSet(S)
  PROVE  /\ Cardinality(S \ T) = Cardinality(S) - Cardinality(S \cap T)
         /\ Cardinality(S) \in Nat /\ Cardinality(S \cap T) \in Nat /\ Cardinality(S \ T) \in Nat
<1>1. IsFiniteSet(S \ T) /\ IsFiniteSet(S \cap T)
  BY FS_Subset
<1>2. Cardinality(S \ T) = Cardinality(S) - Cardinality(S \cap T)
  BY FS_Difference
<1> QED BY <1>1, <1>2, FS_CardinalityType

-----------------------------------------------------------------------------
(* What the recursion of SumFunctionOnSet computes *)

Picked(s) == CHOOSE x \in s : TRUE
Recursion(g, f, S) ==
  g = [s \in SUBSET S |-> IF s = {} THEN 0 ELSE f[Picked(s)] + g[s \ {Picked(s)}]]
Folded(f, S) == CHOOSE g : Recursion(g, f, S)

LEMMA Unfolded ==
  ASSUME NEW S, NEW f
  PROVE  SumFunctionOnSet(f, S) = Folded(f, S)[S]
BY DEF SumFunctionOnSet, FoldFunctionOnSet, MapThenFoldSet, Folded, Recursion, Picked

\* The subsets that can be summed up in n steps.
Up(S, n) == {s \in SUBSET S : Cardinality(s) <= n}
Begun(g, f, D) == g = [s \in D |-> IF s = {} THEN 0 ELSE f[Picked(s)] + g[s \ {Picked(s)}]]

LEMMA Smaller ==
  ASSUME NEW S, IsFiniteSet(S), NEW n \in Nat \ {0}, NEW s \in Up(S, n), s # {}
  PROVE  /\ Picked(s) \in s /\ s \ {Picked(s)} \in Up(S, n - 1)
         /\ \A x \in s : s \ {x} \in Up(S, n - 1)
<1>1. Picked(s) \in s
  BY DEF Picked
<1>2. ASSUME NEW x \in s PROVE s \ {x} \in Up(S, n - 1)
  <2>1. IsFiniteSet(s)
    BY FS_Subset DEF Up
  <2>2. Cardinality(s \ {x}) = Cardinality(s) - 1 /\ Cardinality(s) \in Nat
    BY <2>1, FS_RemoveElement, FS_CardinalityType
  <2> QED BY <2>2 DEF Up
<1> QED BY <1>1, <1>2

LEMMA FoldExists ==
  ASSUME NEW S, IsFiniteSet(S), NEW f
  PROVE  Recursion(Folded(f, S), f, S)
<1> DEFINE N == Cardinality(S)
           G == {n \in 0 .. N : \E g : Begun(g, f, Up(S, n))}
<1>1. N \in Nat /\ \A s \in SUBSET S : IsFiniteSet(s) /\ Cardinality(s) \in Nat /\ Cardinality(s) <= N
  BY FS_Subset, FS_CardinalityType
<1>2. 0 \in G
  <2>1. \A s \in Up(S, 0) : s = {}
    <3>1. \A s \in SUBSET S : Cardinality(s) = 0 <=> s = {}
      BY <1>1, FS_EmptySet
    <3> QED BY <1>1, <3>1 DEF Up
  <2>2. [s \in Up(S, 0) |-> 0] = [s \in Up(S, 0) |-> IF s = {} THEN 0
          ELSE f[Picked(s)] + [r \in Up(S, 0) |-> 0][s \ {Picked(s)}]]
    BY <2>1
  <2> QED BY <1>1, <2>2 DEF Begun
<1>3. ASSUME NEW k \in 1 .. N, k - 1 \in G PROVE k \in G
  <2>1. PICK g : Begun(g, f, Up(S, k - 1))
    BY <1>3
  <2> DEFINE h == [s \in Up(S, k) |-> IF s = {} THEN 0 ELSE f[Picked(s)] + g[s \ {Picked(s)}]]
  <2>2. ASSUME NEW s \in Up(S, k - 1) PROVE h[s] = g[s]
    <3>1. s \in Up(S, k)
      BY <1>1 DEF Up
    <3> QED BY <2>1, <3>1 DEF Begun
  <2>3. ASSUME NEW s \in Up(S, k), s # {} PROVE h[s \ {Picked(s)}] = g[s \ {Picked(s)}]
    <3>1. s \ {Picked(s)} \in Up(S, k - 1)
      BY <2>3, Smaller
    <3> QED BY <2>2, <3>1
  <2>4. h = [s \in Up(S, k) |-> IF s = {} THEN 0 ELSE f[Picked(s)] + h[s \ {Picked(s)}]]
    BY <2>3
  <2> HIDE DEF h
  <2>5. Begun(h, f, Up(S, k))
    BY <2>4 DEF Begun
  <2> QED BY <2>5
<1>4. 0 .. N \subseteq G
  <2> HIDE DEF G, N
  <2> QED BY <1>1, <1>2, <1>3, UpTo
<1>5. PICK g : Begun(g, f, Up(S, N))
  BY <1>1, <1>4
<1>6. Up(S, N) = SUBSET S
  BY <1>1 DEF Up
<1>7. Recursion(g, f, S)
  BY <1>5, <1>6 DEF Begun, Recursion
<1> QED BY <1>7 DEF Folded

\* The recursion over a larger set gives the same.
LEMMA FoldsAgree ==
  ASSUME NEW S, IsFiniteSet(S), NEW f, NEW T \in SUBSET S
  PROVE  Folded(f, S)[T] = Folded(f, T)[T]
<1> DEFINE g == Folded(f, S)
           h == Folded(f, T)
           N == Cardinality(T)
           G == {n \in 0 .. N : \A s \in Up(T, n) : g[s] = h[s]}
<1>1. IsFiniteSet(T) /\ N \in Nat
  BY FS_Subset, FS_CardinalityType
<1>2. Recursion(g, f, S) /\ Recursion(h, f, T)
  BY <1>1, FoldExists
<1> HIDE DEF g, h
<1>3. \A s \in SUBSET T : /\ g[s] = IF s = {} THEN 0 ELSE f[Picked(s)] + g[s \ {Picked(s)}]
                          /\ h[s] = IF s = {} THEN 0 ELSE f[Picked(s)] + h[s \ {Picked(s)}]
  <2>1. \A s \in SUBSET S : g[s] = IF s = {} THEN 0 ELSE f[Picked(s)] + g[s \ {Picked(s)}]
    BY <1>2 DEF Recursion
  <2>2. \A s \in SUBSET T : h[s] = IF s = {} THEN 0 ELSE f[Picked(s)] + h[s \ {Picked(s)}]
    BY <1>2 DEF Recursion
  <2> QED BY <2>1, <2>2
<1>4. 0 \in G
  <2>1. \A s \in Up(T, 0) : s = {}
    <3>1. \A s \in SUBSET T : IsFiniteSet(s) /\ Cardinality(s) \in Nat
      BY <1>1, FS_Subset, FS_CardinalityType
    <3>2. \A s \in SUBSET T : Cardinality(s) = 0 <=> s = {}
      BY <3>1, FS_EmptySet
    <3> QED BY <3>1, <3>2 DEF Up
  <2>2. g[{}] = 0 /\ h[{}] = 0
    BY <1>3
  <2> QED BY <1>1, <2>1, <2>2
<1>5. ASSUME NEW k \in 1 .. N, k - 1 \in G PROVE k \in G
  <2>1. ASSUME NEW s \in Up(T, k) PROVE g[s] = h[s]
    <3>1. CASE s = {}
      BY <1>3, <3>1
    <3>2. CASE s # {}
      <4>1. s \ {Picked(s)} \in Up(T, k - 1)
        BY <1>1, <3>2, Smaller
      <4>2. g[s \ {Picked(s)}] = h[s \ {Picked(s)}]
        BY <1>5, <4>1
      <4>3. s \in SUBSET T
        BY DEF Up
      <4> QED BY <1>3, <3>2, <4>2, <4>3
    <3> QED BY <3>1, <3>2
  <2> QED BY <2>1
<1>6. 0 .. N \subseteq G
  <2> HIDE DEF G, N
  <2> QED BY <1>1, <1>4, <1>5, UpTo
<1>7. N \in G /\ T \in Up(T, N)
  BY <1>1, <1>6 DEF Up
<1> QED BY <1>7 DEF g, h

LEMMA SumStep ==
  ASSUME NEW S, IsFiniteSet(S), NEW f
  PROVE  /\ S = {} => SumFunctionOnSet(f, S) = 0
         /\ S # {} => /\ Picked(S) \in S
                      /\ SumFunctionOnSet(f, S) = f[Picked(S)] + SumFunctionOnSet(f, S \ {Picked(S)})
<1>1. Recursion(Folded(f, S), f, S)
  BY FoldExists
<1>2. S \in SUBSET S /\ S \ {Picked(S)} \in SUBSET S
  OBVIOUS
<1>3. Folded(f, S)[S] = IF S = {} THEN 0 ELSE f[Picked(S)] + Folded(f, S)[S \ {Picked(S)}]
  <2> DEFINE g == Folded(f, S)
  <2> HIDE DEF g
  <2>1. Recursion(g, f, S)
    BY <1>1 DEF g
  <2>2. g[S] = IF S = {} THEN 0 ELSE f[Picked(S)] + g[S \ {Picked(S)}]
    BY <1>2, <2>1 DEF Recursion
  <2> QED BY <2>2 DEF g
<1>4. Folded(f, S)[S \ {Picked(S)}] = Folded(f, S \ {Picked(S)})[S \ {Picked(S)}]
  BY <1>2, FoldsAgree
<1>5. S # {} => Picked(S) \in S
  BY DEF Picked
<1> QED BY <1>3, <1>4, <1>5, Unfolded

\* Any member can be taken first.
LEMMA SumWithout ==
  ASSUME NEW S, IsFiniteSet(S), NEW f, \A x \in S : f[x] \in Int
  PROVE  /\ SumFunctionOnSet(f, S) \in Int
         /\ \A x \in S : SumFunctionOnSet(f, S) = f[x] + SumFunctionOnSet(f, S \ {x})
<1> DEFINE N == Cardinality(S)
           Sum(T) == SumFunctionOnSet(f, T)
           OK(T) == Sum(T) \in Int /\ \A x \in T : Sum(T) = f[x] + Sum(T \ {x})
           G == {n \in 0 .. N : \A T \in Up(S, n) : OK(T)}
<1>1. N \in Nat /\ \A s \in SUBSET S : IsFiniteSet(s) /\ Cardinality(s) \in Nat
  BY FS_Subset, FS_CardinalityType
<1>2. /\ Sum({}) = 0
      /\ \A T \in SUBSET S : T # {} => Picked(T) \in T /\ Sum(T) = f[Picked(T)] + Sum(T \ {Picked(T)})
  BY <1>1, SumStep
<1> HIDE DEF Sum
<1>3. OK({})
  BY <1>2
<1>4. 0 \in G
  <2>1. \A s \in Up(S, 0) : s = {}
    <3>1. \A s \in SUBSET S : Cardinality(s) = 0 <=> s = {}
      BY <1>1, FS_EmptySet
    <3> QED BY <1>1, <3>1 DEF Up
  <2> QED BY <1>1, <1>3, <2>1
<1>5. ASSUME NEW k \in 1 .. N, k - 1 \in G PROVE k \in G
  <2>1. ASSUME NEW T \in Up(S, k) PROVE OK(T)
    <3>1. CASE T = {}
      BY <1>3, <3>1
    <3>2. CASE T # {}
      <4> DEFINE p == Picked(T)
      <4>1. p \in T /\ T \in SUBSET S /\ Sum(T) = f[p] + Sum(T \ {p})
        BY <1>2, <3>2 DEF Up
      <4>2. \A x \in T : T \ {x} \in Up(S, k - 1)
        <5>1. k \in Nat \ {0}
          BY <1>1
        <5> QED BY <3>2, <5>1, Smaller
      <4>3. \A x \in T : OK(T \ {x})
        BY <1>5, <4>2
      <4> HIDE DEF p
      <4>4. f[p] \in Int /\ Sum(T \ {p}) \in Int
        BY <4>1, <4>3
      <4>5. ASSUME NEW x \in T, x # p PROVE Sum(T) = f[x] + Sum(T \ {x})
        <5>1. Sum(T \ {p}) = f[x] + Sum((T \ {p}) \ {x})
          BY <4>1, <4>3, <4>5
        <5>2. Sum(T \ {x}) = f[p] + Sum((T \ {x}) \ {p})
          BY <4>1, <4>3, <4>5
        <5>3. (T \ {p}) \ {x} = (T \ {x}) \ {p}
          OBVIOUS
        <5> DEFINE r == Sum((T \ {x}) \ {p})
        <5>4. r \in Int
          <6>1. (T \ {x}) \ {p} \in Up(S, k - 1)
            <7>1. (T \ {x}) \ {p} \in SUBSET S /\ (T \ {x}) \ {p} \subseteq T \ {x}
              BY <4>1
            <7>2. Cardinality((T \ {x}) \ {p}) <= Cardinality(T \ {x})
              BY <1>1, <4>1, <7>1, FS_Subset
            <7>3. Cardinality(T \ {x}) <= k - 1
              BY <4>2, <4>5 DEF Up
            <7> QED BY <1>1, <4>1, <7>1, <7>2, <7>3 DEF Up
          <6> QED BY <1>5, <6>1
        <5> HIDE DEF r
        <5>5. Sum(T \ {p}) = f[x] + r /\ Sum(T \ {x}) = f[p] + r /\ f[x] \in Int
          BY <4>1, <5>1, <5>2, <5>3 DEF r
        <5> QED BY <4>1, <4>4, <5>4, <5>5
      <4>6. Sum(T) \in Int
        BY <4>1, <4>4
      <4> QED BY <4>1, <4>5, <4>6
    <3> QED BY <3>1, <3>2
  <2> HIDE DEF OK
  <2> QED BY <2>1
<1>6. 0 .. N \subseteq G
  <2> HIDE DEF G, N, OK
  <2> QED BY <1>1, <1>4, <1>5, UpTo
<1>7. OK(S)
  <2>1. N \in G /\ S \in Up(S, N)
    BY <1>1, <1>6 DEF Up
  <2> QED BY <2>1
<1> QED BY <1>7 DEF Sum

-----------------------------------------------------------------------------
(* Sums *)

\* SumFunction sums over a function's domain.
LEMMA SumOfFunction ==
  ASSUME NEW f
  PROVE  SumFunction(f) = SumFunctionOnSet(f, DOMAIN f)
BY DEF SumFunction

LEMMA SumEmpty == ASSUME NEW f PROVE SumFunctionOnSet(f, {}) = 0
BY FS_EmptySet, SumStep

LEMMA SumAdd ==
  ASSUME NEW S, IsFiniteSet(S), NEW x, x \notin S, NEW f, \A y \in S \cup {x} : f[y] \in Int
  PROVE  /\ SumFunctionOnSet(f, S \cup {x}) = f[x] + SumFunctionOnSet(f, S)
         /\ SumFunctionOnSet(f, S) \in Int
<1>1. IsFiniteSet(S \cup {x})
  BY FS_AddElement
<1>2. (S \cup {x}) \ {x} = S /\ x \in S \cup {x}
  OBVIOUS
<1>3. SumFunctionOnSet(f, S \cup {x}) = f[x] + SumFunctionOnSet(f, (S \cup {x}) \ {x})
  BY <1>1, <1>2, SumWithout
<1> QED BY <1>2, <1>3, SumWithout

LEMMA SumSingle ==
  ASSUME NEW x, NEW f, f[x] \in Int
  PROVE  SumFunctionOnSet(f, {x}) = f[x]
<1>1. IsFiniteSet({}) /\ {} \cup {x} = {x}
  BY FS_EmptySet
<1>2. SumFunctionOnSet(f, {} \cup {x}) = f[x] + SumFunctionOnSet(f, {})
  BY <1>1, SumAdd
<1> QED BY <1>1, <1>2, SumEmpty

LEMMA SumSame ==
  ASSUME NEW S, IsFiniteSet(S), NEW f, NEW g, \A x \in S : f[x] \in Int /\ f[x] = g[x]
  PROVE  SumFunctionOnSet(f, S) = SumFunctionOnSet(g, S)
<1> DEFINE G == {T \in SUBSET S : SumFunctionOnSet(f, T) = SumFunctionOnSet(g, T)}
<1>1. {} \in G
  BY SumEmpty
<1>2. ASSUME NEW T \in SUBSET S, NEW x \in S \ T, T \in G PROVE T \cup {x} \in G
  <2>1. IsFiniteSet(T)
    BY FS_Subset
  <2>2. \A y \in T \cup {x} : f[y] \in Int /\ g[y] \in Int
    OBVIOUS
  <2>3. SumFunctionOnSet(f, T \cup {x}) = f[x] + SumFunctionOnSet(f, T)
    BY <2>1, <2>2, SumAdd
  <2>4. SumFunctionOnSet(g, T \cup {x}) = g[x] + SumFunctionOnSet(g, T)
    BY <2>1, <2>2, SumAdd
  <2> QED BY <1>2, <2>3, <2>4
<1>3. S \in G
  <2> HIDE DEF G
  <2> QED BY <1>1, <1>2, SetByMembers
<1> QED BY <1>3

\* A smaller summand gives no larger sum.
LEMMA SumLess ==
  ASSUME NEW S, IsFiniteSet(S), NEW f, NEW g,
         \A x \in S : f[x] \in Int /\ g[x] \in Int /\ f[x] <= g[x]
  PROVE  SumFunctionOnSet(f, S) <= SumFunctionOnSet(g, S)
<1> DEFINE G == {T \in SUBSET S : SumFunctionOnSet(f, T) <= SumFunctionOnSet(g, T)}
<1>1. {} \in G
  BY SumEmpty
<1>2. ASSUME NEW T \in SUBSET S, NEW x \in S \ T, T \in G PROVE T \cup {x} \in G
  <2>1. IsFiniteSet(T)
    BY FS_Subset
  <2>2. \A y \in T \cup {x} : f[y] \in Int /\ g[y] \in Int
    OBVIOUS
  <2>3. SumFunctionOnSet(f, T \cup {x}) = f[x] + SumFunctionOnSet(f, T) /\ SumFunctionOnSet(f, T) \in Int
    BY <2>1, <2>2, SumAdd
  <2>4. SumFunctionOnSet(g, T \cup {x}) = g[x] + SumFunctionOnSet(g, T) /\ SumFunctionOnSet(g, T) \in Int
    BY <2>1, <2>2, SumAdd
  <2>5. f[x] \in Int /\ g[x] \in Int /\ f[x] <= g[x] /\ SumFunctionOnSet(f, T) <= SumFunctionOnSet(g, T)
    BY <1>2
  <2>6. SumFunctionOnSet(f, T \cup {x}) <= SumFunctionOnSet(g, T \cup {x})
    BY <2>3, <2>4, <2>5
  <2> QED BY <2>6
<1>3. S \in G
  <2> HIDE DEF G
  <2> QED BY <1>1, <1>2, SetByMembers
<1> QED BY <1>3

LEMMA SumDisjoint ==
  ASSUME NEW S, IsFiniteSet(S), NEW U, IsFiniteSet(U), S \cap U = {},
         NEW f, \A x \in S \cup U : f[x] \in Int
  PROVE  SumFunctionOnSet(f, S \cup U) = SumFunctionOnSet(f, S) + SumFunctionOnSet(f, U)
<1> DEFINE G == {T \in SUBSET S : SumFunctionOnSet(f, T \cup U)
                                    = SumFunctionOnSet(f, T) + SumFunctionOnSet(f, U)}
<1>1. {} \in G
  <2>1. {} \cup U = U /\ SumFunctionOnSet(f, U) \in Int
    BY SumWithout
  <2> QED BY <2>1, SumEmpty
<1>2. ASSUME NEW T \in SUBSET S, NEW x \in S \ T, T \in G PROVE T \cup {x} \in G
  <2>1. IsFiniteSet(T) /\ IsFiniteSet(T \cup U)
    BY FS_Subset, FS_Union
  <2>2. /\ \A y \in T \cup {x} : f[y] \in Int
        /\ \A y \in (T \cup U) \cup {x} : f[y] \in Int
        /\ x \notin T \cup U /\ (T \cup {x}) \cup U = (T \cup U) \cup {x}
    OBVIOUS
  <2>3. SumFunctionOnSet(f, T \cup {x}) = f[x] + SumFunctionOnSet(f, T) /\ SumFunctionOnSet(f, T) \in Int
    BY <2>1, <2>2, SumAdd
  <2>4. SumFunctionOnSet(f, (T \cup U) \cup {x}) = f[x] + SumFunctionOnSet(f, T \cup U)
    BY <2>1, <2>2, SumAdd
  <2>5. SumFunctionOnSet(f, U) \in Int /\ f[x] \in Int
    BY SumWithout
  <2>6. SumFunctionOnSet(f, (T \cup {x}) \cup U) = SumFunctionOnSet(f, T \cup {x}) + SumFunctionOnSet(f, U)
    <3>1. SumFunctionOnSet(f, T \cup U) = SumFunctionOnSet(f, T) + SumFunctionOnSet(f, U)
      BY <1>2
    <3>2. SumFunctionOnSet(f, (T \cup {x}) \cup U) = f[x] + SumFunctionOnSet(f, T \cup U)
      BY <2>2, <2>4
    <3> QED BY <2>3, <2>5, <3>1, <3>2
  <2> QED BY <2>6
<1>3. S \in G
  <2> HIDE DEF G
  <2> QED BY <1>1, <1>2, SetByMembers
<1> QED BY <1>3

LEMMA SumNat ==
  ASSUME NEW S, IsFiniteSet(S), NEW f, \A x \in S : f[x] \in Nat
  PROVE  SumFunctionOnSet(f, S) \in Nat
<1> DEFINE z == [x \in S |-> 0]
           G == {T \in SUBSET S : SumFunctionOnSet(f, T) \in Nat}
<1>1. {} \in G
  BY SumEmpty
<1>2. ASSUME NEW T \in SUBSET S, NEW x \in S \ T, T \in G PROVE T \cup {x} \in G
  <2>1. IsFiniteSet(T)
    BY FS_Subset
  <2>2. \A y \in T \cup {x} : f[y] \in Int
    OBVIOUS
  <2>3. SumFunctionOnSet(f, T \cup {x}) = f[x] + SumFunctionOnSet(f, T)
    BY <2>1, <2>2, SumAdd
  <2> QED BY <1>2, <2>3
<1>3. S \in G
  <2> HIDE DEF G
  <2> QED BY <1>1, <1>2, SetByMembers
<1> QED BY <1>3

\* What is left out of a sum of natural numbers does not make it larger.
LEMMA SumSubset ==
  ASSUME NEW S, IsFiniteSet(S), NEW T \in SUBSET S, NEW f, \A x \in S : f[x] \in Nat
  PROVE  SumFunctionOnSet(f, T) <= SumFunctionOnSet(f, S)
<1>1. IsFiniteSet(T) /\ IsFiniteSet(S \ T) /\ T \cap (S \ T) = {} /\ T \cup (S \ T) = S
  BY FS_Subset
<1>2. \A x \in T \cup (S \ T) : f[x] \in Int
  OBVIOUS
<1>3. SumFunctionOnSet(f, T \cup (S \ T)) = SumFunctionOnSet(f, T) + SumFunctionOnSet(f, S \ T)
  BY <1>1, <1>2, SumDisjoint
<1>4. SumFunctionOnSet(f, T) \in Nat /\ SumFunctionOnSet(f, S \ T) \in Nat
  <2>1. \A x \in T : f[x] \in Nat
    OBVIOUS
  <2>2. \A x \in S \ T : f[x] \in Nat
    OBVIOUS
  <2>3. SumFunctionOnSet(f, T) \in Nat
    BY <1>1, <2>1, SumNat
  <2>4. SumFunctionOnSet(f, S \ T) \in Nat
    BY <1>1, <2>2, SumNat
  <2> QED BY <2>3, <2>4
<1>5. SumFunctionOnSet(f, S) = SumFunctionOnSet(f, T) + SumFunctionOnSet(f, S \ T)
  <2>1. T \cup (S \ T) = S
    BY <1>1
  <2> QED BY <1>3, <2>1, Zenon
<1> QED BY <1>4, <1>5

LEMMA SumZero ==
  ASSUME NEW S, IsFiniteSet(S), NEW f, \A x \in S : f[x] = 0
  PROVE  SumFunctionOnSet(f, S) = 0
<1> DEFINE G == {T \in SUBSET S : SumFunctionOnSet(f, T) = 0}
<1>1. {} \in G
  BY SumEmpty
<1>2. ASSUME NEW T \in SUBSET S, NEW x \in S \ T, T \in G PROVE T \cup {x} \in G
  <2>1. IsFiniteSet(T)
    BY FS_Subset
  <2>2. \A y \in T \cup {x} : f[y] \in Int
    OBVIOUS
  <2>3. SumFunctionOnSet(f, T \cup {x}) = f[x] + SumFunctionOnSet(f, T)
    BY <2>1, <2>2, SumAdd
  <2> QED BY <1>2, <2>3
<1>3. S \in G
  <2> HIDE DEF G
  <2> QED BY <1>1, <1>2, SetByMembers
<1> QED BY <1>3

\* Summands that are zero may be left out.
LEMMA SumNonzero ==
  ASSUME NEW S, IsFiniteSet(S), NEW T \in SUBSET S, NEW f,
         \A x \in S : f[x] \in Int, \A x \in S \ T : f[x] = 0
  PROVE  SumFunctionOnSet(f, S) = SumFunctionOnSet(f, T)
<1>1. IsFiniteSet(T) /\ IsFiniteSet(S \ T) /\ T \cap (S \ T) = {} /\ T \cup (S \ T) = S
  BY FS_Subset
<1>2. \A x \in T \cup (S \ T) : f[x] \in Int
  OBVIOUS
<1>3. SumFunctionOnSet(f, T \cup (S \ T)) = SumFunctionOnSet(f, T) + SumFunctionOnSet(f, S \ T)
  BY <1>1, <1>2, SumDisjoint
<1>4. SumFunctionOnSet(f, S \ T) = 0
  BY <1>1, SumZero
<1>5. SumFunctionOnSet(f, T) \in Int
  <2>1. \A x \in T : f[x] \in Int
    OBVIOUS
  <2>2. IsFiniteSet(T)
    BY <1>1
  <2> HIDE <1>1, <1>2, <1>3
  <2> QED BY <2>1, <2>2, SumWithout
<1>6. SumFunctionOnSet(f, S) = SumFunctionOnSet(f, T) + SumFunctionOnSet(f, S \ T)
  <2>1. T \cup (S \ T) = S
    BY <1>1
  <2> QED BY <1>3, <2>1, Zenon
<1> QED BY <1>4, <1>5, <1>6

LEMMA SumPlus ==
  ASSUME NEW S, IsFiniteSet(S), NEW f, NEW g, NEW h,
         \A x \in S : f[x] \in Int /\ g[x] \in Int /\ h[x] = f[x] + g[x]
  PROVE  SumFunctionOnSet(h, S) = SumFunctionOnSet(f, S) + SumFunctionOnSet(g, S)
<1> DEFINE G == {T \in SUBSET S : SumFunctionOnSet(h, T)
                                    = SumFunctionOnSet(f, T) + SumFunctionOnSet(g, T)}
<1>1. {} \in G
  BY SumEmpty
<1>2. ASSUME NEW T \in SUBSET S, NEW x \in S \ T, T \in G PROVE T \cup {x} \in G
  <2>1. IsFiniteSet(T)
    BY FS_Subset
  <2>2. \A y \in T \cup {x} : f[y] \in Int /\ g[y] \in Int /\ h[y] \in Int
    OBVIOUS
  <2>3. SumFunctionOnSet(f, T \cup {x}) = f[x] + SumFunctionOnSet(f, T) /\ SumFunctionOnSet(f, T) \in Int
    BY <2>1, <2>2, SumAdd
  <2>4. SumFunctionOnSet(g, T \cup {x}) = g[x] + SumFunctionOnSet(g, T) /\ SumFunctionOnSet(g, T) \in Int
    BY <2>1, <2>2, SumAdd
  <2>5. SumFunctionOnSet(h, T \cup {x}) = h[x] + SumFunctionOnSet(h, T)
    BY <2>1, <2>2, SumAdd
  <2>6. f[x] \in Int /\ g[x] \in Int /\ h[x] = f[x] + g[x]
    BY <1>2
  <2>7. SumFunctionOnSet(h, T \cup {x})
          = SumFunctionOnSet(f, T \cup {x}) + SumFunctionOnSet(g, T \cup {x})
    BY <1>2, <2>3, <2>4, <2>5, <2>6
  <2> QED BY <2>7
<1>3. S \in G
  <2> HIDE DEF G
  <2> QED BY <1>1, <1>2, SetByMembers
<1> QED BY <1>3

\* A sum can be taken group by group.
LEMMA SumGroups ==
  ASSUME NEW S, IsFiniteSet(S), NEW K, IsFiniteSet(K), NEW key, \A x \in S : key[x] \in K,
         NEW f, \A x \in S : f[x] \in Int,
         NEW h, \A k \in K : h[k] = SumFunctionOnSet(f, {x \in S : key[x] = k})
  PROVE  SumFunctionOnSet(h, K) = SumFunctionOnSet(f, S)
<1> DEFINE Group(T, k) == {x \in T : key[x] = k}
           H(T) == [k \in K |-> SumFunctionOnSet(f, Group(T, k))]
           G == {T \in SUBSET S : SumFunctionOnSet(H(T), K) = SumFunctionOnSet(f, T)}
<1>1. {} \in G
  <2>1. \A k \in K : H({})[k] = 0
    <3>1. \A k \in K : Group({}, k) = {}
      OBVIOUS
    <3> HIDE DEF Group
    <3> QED BY <3>1, SumEmpty
  <2> HIDE DEF H
  <2>2. SumFunctionOnSet(H({}), K) = 0
    BY <2>1, SumZero
  <2> QED BY <2>2, SumEmpty
<1>2. ASSUME NEW T \in SUBSET S, NEW x \in S \ T, T \in G PROVE T \cup {x} \in G
  <2>1. IsFiniteSet(T) /\ \A k \in K : IsFiniteSet(Group(T, k))
    BY FS_Subset
  <2>2. \A k \in K : H(T)[k] = SumFunctionOnSet(f, Group(T, k))
                     /\ H(T \cup {x})[k] = SumFunctionOnSet(f, Group(T \cup {x}, k))
    OBVIOUS
  <2>3. \A k \in K : H(T)[k] \in Int
    <3>1. \A k \in K : \A y \in Group(T, k) : f[y] \in Int
      OBVIOUS
    <3> HIDE DEF Group, H
    <3> QED BY <2>1, <2>2, <3>1, SumWithout
  <2>4. \A k \in K \ {key[x]} : Group(T \cup {x}, k) = Group(T, k)
    OBVIOUS
  <2>5. Group(T \cup {x}, key[x]) = Group(T, key[x]) \cup {x} /\ x \notin Group(T, key[x])
    OBVIOUS
  <2>6. key[x] \in K /\ f[x] \in Int /\ \A y \in Group(T, key[x]) \cup {x} : f[y] \in Int
    OBVIOUS
  <2>7. SumFunctionOnSet(f, T \cup {x}) = f[x] + SumFunctionOnSet(f, T) /\ SumFunctionOnSet(f, T) \in Int
    <3>1. \A y \in T \cup {x} : f[y] \in Int
      OBVIOUS
    <3> QED BY <2>1, <3>1, SumAdd
  <2>8. SumFunctionOnSet(H(T), K) = SumFunctionOnSet(f, T)
    BY <1>2
  <2> HIDE DEF Group, H
  <2>9. H(T \cup {x})[key[x]] = f[x] + H(T)[key[x]]
    <3> DEFINE Q == Group(T, key[x])
    <3>1. IsFiniteSet(Q) /\ x \notin Q /\ \A y \in Q \cup {x} : f[y] \in Int
      BY <2>1, <2>5, <2>6
    <3>2. H(T)[key[x]] = SumFunctionOnSet(f, Q) /\ H(T \cup {x})[key[x]] = SumFunctionOnSet(f, Q \cup {x})
      BY <2>2, <2>5, <2>6
    <3> HIDE DEF Q
    <3>3. SumFunctionOnSet(f, Q \cup {x}) = f[x] + SumFunctionOnSet(f, Q)
      BY <3>1, SumAdd
    <3> QED BY <3>2, <3>3
  <2>10. \A k \in K \ {key[x]} : H(T \cup {x})[k] = H(T)[k]
    BY <2>2, <2>4
  <2> DEFINE R == K \ {key[x]}
  <2>11. SumFunctionOnSet(H(T), K) = H(T)[key[x]] + SumFunctionOnSet(H(T), R)
    BY <2>3, <2>6, SumWithout
  <2>12. SumFunctionOnSet(H(T \cup {x}), K) = H(T \cup {x})[key[x]] + SumFunctionOnSet(H(T \cup {x}), R)
    <3>1. \A k \in K : H(T \cup {x})[k] \in Int
      <4>1. H(T \cup {x})[key[x]] \in Int
        BY <2>3, <2>6, <2>9
      <4>2. \A k \in K \ {key[x]} : H(T \cup {x})[k] \in Int
        BY <2>3, <2>10
      <4> QED BY <4>1, <4>2
    <3> QED BY <2>6, <3>1, SumWithout
  <2>13. SumFunctionOnSet(H(T \cup {x}), R) = SumFunctionOnSet(H(T), R)
         /\ SumFunctionOnSet(H(T), R) \in Int
    <3>1. IsFiniteSet(R) /\ \A k \in R : H(T)[k] \in Int /\ H(T)[k] = H(T \cup {x})[k]
      BY <2>3, <2>10, FS_Subset
    <3> HIDE DEF R
    <3>2. SumFunctionOnSet(H(T), R) = SumFunctionOnSet(H(T \cup {x}), R)
      BY <3>1, SumSame
    <3>3. SumFunctionOnSet(H(T), R) \in Int
      BY <3>1, SumWithout
    <3> QED BY <3>2, <3>3
  <2> HIDE DEF R
  <2>14. H(T)[key[x]] \in Int
    BY <2>3, <2>6
  <2>15. SumFunctionOnSet(H(T \cup {x}), K) = SumFunctionOnSet(f, T \cup {x})
    BY <2>6, <2>7, <2>8, <2>9, <2>11, <2>12, <2>13, <2>14
  <2> QED BY <2>15
<1>3. S \in G
  <2> HIDE DEF G
  <2> QED BY <1>1, <1>2, SetByMembers
<1>4. \A k \in K : h[k] = H(S)[k] /\ h[k] \in Int
  <2>1. \A k \in K : IsFiniteSet({x \in S : key[x] = k}) /\ \A y \in {x \in S : key[x] = k} : f[y] \in Int
    BY FS_Subset
  <2>2. \A k \in K : SumFunctionOnSet(f, {x \in S : key[x] = k}) \in Int
    BY <2>1, SumWithout
  <2> QED BY <2>2
<1>5. SumFunctionOnSet(h, K) = SumFunctionOnSet(H(S), K)
  <2> HIDE DEF H
  <2> QED BY <1>4, SumSame
<1> QED BY <1>3, <1>5

\* Renaming what is summed does not change a sum.
LEMMA SumRenamed ==
  ASSUME NEW S, IsFiniteSet(S), NEW K, NEW key, K = {key[x] : x \in S},
         \A x, y \in S : key[x] = key[y] => x = y,
         NEW f, \A x \in S : f[x] \in Int, NEW h, \A x \in S : h[key[x]] = f[x]
  PROVE  SumFunctionOnSet(h, K) = SumFunctionOnSet(f, S)
<1>1. IsFiniteSet(K)
  BY FiniteRange
<1>2. ASSUME NEW k \in K PROVE h[k] = SumFunctionOnSet(f, {x \in S : key[x] = k})
  <2>1. PICK x \in S : key[x] = k
    OBVIOUS
  <2>2. {y \in S : key[y] = k} = {x}
    BY <2>1
  <2>3. SumFunctionOnSet(f, {x}) = f[x]
    BY SumSingle
  <2> QED BY <2>1, <2>2, <2>3
<1>3. \A x \in S : key[x] \in K
  OBVIOUS
<1> QED BY <1>1, <1>2, <1>3, SumGroups

\* A set is counted by ones, and group by group.
LEMMA SumOfOnes ==
  ASSUME NEW S, IsFiniteSet(S), NEW f, \A x \in S : f[x] = 1
  PROVE  SumFunctionOnSet(f, S) = Cardinality(S)
<1> DEFINE G == {T \in SUBSET S : SumFunctionOnSet(f, T) = Cardinality(T)}
<1>1. {} \in G
  BY SumEmpty, FS_EmptySet
<1>2. ASSUME NEW T \in SUBSET S, NEW x \in S \ T, T \in G PROVE T \cup {x} \in G
  <2>1. IsFiniteSet(T) /\ Cardinality(T) \in Nat
    BY FS_Subset, FS_CardinalityType
  <2>2. \A y \in T \cup {x} : f[y] \in Int
    OBVIOUS
  <2>3. SumFunctionOnSet(f, T \cup {x}) = f[x] + SumFunctionOnSet(f, T)
    BY <2>1, <2>2, SumAdd
  <2>4. Cardinality(T \cup {x}) = Cardinality(T) + 1
    BY <2>1, FS_AddElement
  <2> QED BY <1>2, <2>1, <2>3, <2>4
<1>3. S \in G
  <2> HIDE DEF G
  <2> QED BY <1>1, <1>2, SetByMembers
<1> QED BY <1>3

\* Two sets that have no member in common.
LEMMA CountDisjoint ==
  ASSUME NEW S, IsFiniteSet(S), NEW T, IsFiniteSet(T), S \cap T = {}
  PROVE  /\ IsFiniteSet(S \cup T)
         /\ Cardinality(S \cup T) = Cardinality(S) + Cardinality(T)
<1>1. /\ IsFiniteSet(S \cup T)
      /\ Cardinality(S \cup T) = Cardinality(S) + Cardinality(T) - Cardinality(S \cap T)
  BY FS_Union
<1>2. Cardinality(S \cap T) = 0
  BY FS_EmptySet
<1>3. Cardinality(S) \in Nat /\ Cardinality(T) \in Nat
  BY FS_CardinalityType
<1> QED BY <1>1, <1>2, <1>3

LEMMA CountGroups ==
  ASSUME NEW S, IsFiniteSet(S), NEW K, IsFiniteSet(K), NEW key, \A x \in S : key[x] \in K,
         NEW h, \A k \in K : h[k] = Cardinality({x \in S : key[x] = k})
  PROVE  SumFunctionOnSet(h, K) = Cardinality(S)
<1>1. PICK one : \A x \in S : one[x] = 1
  <2>1. \A x \in S : [y \in S |-> 1][x] = 1
    OBVIOUS
  <2> QED BY <2>1
<1>2. ASSUME NEW T \in SUBSET S PROVE SumFunctionOnSet(one, T) = Cardinality(T)
  <2>1. IsFiniteSet(T) /\ \A x \in T : one[x] = 1
    BY <1>1, FS_Subset
  <2> QED BY <2>1, SumOfOnes
<1>3. \A k \in K : h[k] = SumFunctionOnSet(one, {x \in S : key[x] = k})
  <2> SUFFICES ASSUME NEW k \in K PROVE h[k] = SumFunctionOnSet(one, {x \in S : key[x] = k})
    OBVIOUS
  <2>1. {x \in S : key[x] = k} \in SUBSET S
    OBVIOUS
  <2> QED BY <1>2, <2>1
<1>4. SumFunctionOnSet(h, K) = SumFunctionOnSet(one, S)
  <2>1. \A x \in S : one[x] \in Int
    BY <1>1
  <2> QED BY <1>3, <2>1, SumGroups
<1>5. SumFunctionOnSet(one, S) = Cardinality(S)
  BY <1>2
<1> QED BY <1>4, <1>5

\* The same, where the group is an operator.
Fiber(S, key, k) == {x \in S : key[x] = k}

LEMMA CountFibers ==
  ASSUME NEW S, IsFiniteSet(S), NEW K, IsFiniteSet(K), NEW key, \A x \in S : key[x] \in K,
         NEW h, \A k \in K : h[k] = Cardinality(Fiber(S, key, k))
  PROVE  SumFunctionOnSet(h, K) = Cardinality(S)
<1>1. \A k \in K : h[k] = Cardinality({x \in S : key[x] = k})
  BY DEF Fiber
<1> QED BY <1>1, CountGroups

\* A union has at most as many members as its parts together.
LEMMA CountUnion ==
  ASSUME NEW S, IsFiniteSet(S), NEW part, \A x \in S : IsFiniteSet(part[x]),
         NEW h, \A x \in S : h[x] = Cardinality(part[x])
  PROVE  /\ IsFiniteSet(UNION {part[x] : x \in S})
         /\ Cardinality(UNION {part[x] : x \in S}) <= SumFunctionOnSet(h, S)
<1> DEFINE All(T) == UNION {part[x] : x \in T}
           G == {T \in SUBSET S : IsFiniteSet(All(T)) /\ Cardinality(All(T)) <= SumFunctionOnSet(h, T)}
<1>1. {} \in G
  <2>1. All({}) = {}
    OBVIOUS
  <2> QED BY <2>1, SumEmpty, FS_EmptySet
<1>2. ASSUME NEW T \in SUBSET S, NEW x \in S \ T, T \in G PROVE T \cup {x} \in G
  <2>1. IsFiniteSet(T) /\ IsFiniteSet(part[x]) /\ IsFiniteSet(All(T))
        /\ Cardinality(All(T)) <= SumFunctionOnSet(h, T)
    BY <1>2, FS_Subset
  <2>2. All(T \cup {x}) = All(T) \cup part[x]
    OBVIOUS
  <2>3. \A y \in T \cup {x} : h[y] \in Int
    BY FS_CardinalityType
  <2>4. SumFunctionOnSet(h, T \cup {x}) = h[x] + SumFunctionOnSet(h, T) /\ SumFunctionOnSet(h, T) \in Int
    BY <2>1, <2>3, SumAdd
  <2> HIDE DEF All
  <2>5. /\ IsFiniteSet(All(T) \cup part[x])
        /\ Cardinality(All(T) \cup part[x])
             = Cardinality(All(T)) + Cardinality(part[x]) - Cardinality(All(T) \cap part[x])
    BY <2>1, FS_Union
  <2>6. /\ Cardinality(All(T)) \in Nat /\ Cardinality(part[x]) \in Nat
        /\ Cardinality(All(T) \cap part[x]) \in Nat
    BY <2>1, FS_CardinalityType, FS_Intersection
  <2>7. h[x] = Cardinality(part[x])
    BY <1>2
  <2>8. Cardinality(All(T) \cup part[x]) <= SumFunctionOnSet(h, T \cup {x})
    BY <2>1, <2>4, <2>5, <2>6, <2>7
  <2> QED BY <2>2, <2>5, <2>8
<1>3. S \in G
  <2> HIDE DEF G
  <2> QED BY <1>1, <1>2, SetByMembers
<1> QED BY <1>3

LEMMA FiniteUnion ==
  ASSUME NEW S, IsFiniteSet(S), NEW part, \A x \in S : IsFiniteSet(part[x])
  PROVE  IsFiniteSet(UNION {part[x] : x \in S})
<1> DEFINE h == [x \in S |-> Cardinality(part[x])]
<1>1. \A x \in S : h[x] = Cardinality(part[x])
  OBVIOUS
<1> HIDE DEF h
<1>2. /\ IsFiniteSet(UNION {part[x] : x \in S})
      /\ Cardinality(UNION {part[x] : x \in S}) <= SumFunctionOnSet(h, S)
  BY <1>1, CountUnion, Zenon
<1> QED BY <1>2

\* What is covered by finitely many finite sets has at most as many members as they.
LEMMA CountCover ==
  ASSUME NEW S, IsFiniteSet(S), NEW part, \A x \in S : IsFiniteSet(part[x]),
         NEW h, \A x \in S : h[x] = Cardinality(part[x]),
         NEW U, \A y \in U : \E x \in S : y \in part[x]
  PROVE  IsFiniteSet(U) /\ Cardinality(U) <= SumFunctionOnSet(h, S)
<1> DEFINE all == UNION {part[x] : x \in S}
<1>1. IsFiniteSet(all) /\ Cardinality(all) <= SumFunctionOnSet(h, S)
  BY CountUnion, Zenon
<1>2. U \in SUBSET all
  OBVIOUS
<1>3. IsFiniteSet(U) /\ Cardinality(U) <= Cardinality(all)
  BY <1>1, <1>2, FS_Subset
<1>4. Cardinality(U) \in Nat /\ Cardinality(all) \in Nat
  BY <1>1, <1>3, FS_CardinalityType
<1>5. SumFunctionOnSet(h, S) \in Int
  <2>1. \A x \in S : h[x] \in Int
    BY FS_CardinalityType
  <2> QED BY <2>1, SumWithout
<1> HIDE DEF all
<1> QED BY <1>1, <1>3, <1>4, <1>5

\* Two sets of which one is the image of the other under an injective function.
LEMMA SameNumber ==
  ASSUME NEW S, IsFiniteSet(S), NEW f, \A x, y \in S : f[x] = f[y] => x = y
  PROVE  IsFiniteSet({f[x] : x \in S}) /\ Cardinality({f[x] : x \in S}) = Cardinality(S)
<1> DEFINE T == {f[x] : x \in S}
           g == [x \in S |-> f[x]]
<1>1. g \in Surjection(S, T)
  BY DEF Surjection
<1>2. g \in Injection(S, T)
  BY DEF Injection, IsInjective
<1> HIDE DEF g, T
<1>3. IsFiniteSet(T) /\ Cardinality(T) = Cardinality(S)
  BY <1>1, <1>2, FS_Surjection
<1> QED BY <1>3 DEF T

\* Whoever counts for one or more is counted.
LEMMA SumAtLeast ==
  ASSUME NEW S, IsFiniteSet(S), NEW T \in SUBSET S, NEW f,
         \A x \in S : f[x] \in Nat, \A x \in T : f[x] > 0
  PROVE  IsFiniteSet(T) /\ Cardinality(T) <= SumFunctionOnSet(f, S)
<1> DEFINE one == [x \in T |-> 1]
<1>1. IsFiniteSet(T)
  BY FS_Subset
<1>2. SumFunctionOnSet(one, T) = Cardinality(T)
  <2>1. \A x \in T : one[x] = 1
    OBVIOUS
  <2> HIDE DEF one
  <2> QED BY <1>1, <2>1, SumOfOnes
<1>3. SumFunctionOnSet(one, T) <= SumFunctionOnSet(f, T)
  <2>1. \A x \in T : one[x] \in Int /\ f[x] \in Int /\ one[x] <= f[x]
    OBVIOUS
  <2> HIDE DEF one
  <2> QED BY <1>1, <2>1, SumLess
<1>4. SumFunctionOnSet(f, T) <= SumFunctionOnSet(f, S)
  BY SumSubset
<1>5. SumFunctionOnSet(f, T) \in Nat /\ SumFunctionOnSet(f, S) \in Nat
  <2>1. \A x \in T : f[x] \in Nat
    OBVIOUS
  <2> QED BY <1>1, <2>1, SumNat
<1>6. Cardinality(T) \in Nat
  BY <1>1, FS_CardinalityType
<1> HIDE DEF one
<1> QED BY <1>1, <1>2, <1>3, <1>4, <1>5, <1>6

\* A sum of ones and zeros is a number of members.
LEMMA SumExactly ==
  ASSUME NEW S, IsFiniteSet(S), NEW T \in SUBSET S, NEW f,
         \A x \in T : f[x] = 1, \A x \in S \ T : f[x] = 0
  PROVE  SumFunctionOnSet(f, S) = Cardinality(T)
<1>1. IsFiniteSet(T)
  BY FS_Subset
<1>2. \A x \in S : f[x] \in Int
  OBVIOUS
<1>3. SumFunctionOnSet(f, S) = SumFunctionOnSet(f, T)
  BY <1>2, SumNonzero
<1>4. SumFunctionOnSet(f, T) = Cardinality(T)
  BY <1>1, SumOfOnes
<1> QED BY <1>3, <1>4

\* What is covered by others is no more than they are.
LEMMA CoveredBy ==
  ASSUME NEW A, NEW B, IsFiniteSet(B), NEW C, IsFiniteSet(C), A \subseteq B \cup C
  PROVE  /\ IsFiniteSet(A) /\ Cardinality(A) <= Cardinality(B) + Cardinality(C)
         /\ Cardinality(A) \in Nat /\ Cardinality(B) \in Nat /\ Cardinality(C) \in Nat
<1>1. /\ IsFiniteSet(B \cup C)
      /\ Cardinality(B \cup C) = Cardinality(B) + Cardinality(C) - Cardinality(B \cap C)
  BY FS_Union
<1>2. IsFiniteSet(A) /\ Cardinality(A) <= Cardinality(B \cup C)
  BY <1>1, FS_Subset
<1>3. IsFiniteSet(B \cap C)
  BY FS_Subset
<1>4. /\ Cardinality(A) \in Nat /\ Cardinality(B) \in Nat /\ Cardinality(C) \in Nat
      /\ Cardinality(B \cap C) \in Nat /\ Cardinality(B \cup C) \in Nat
  BY <1>1, <1>2, <1>3, FS_CardinalityType
<1> QED BY <1>1, <1>2, <1>4
=============================================================================
