----------------------------- MODULE FunctionSums -----------------------------
(***************************************************************************)
(* What the sum of a function over a finite domain is, whatever order the  *)
(* elements are taken in.  Induction over the subsets of the domain is     *)
(* done by least counterexamples: the strict subset ordering of a finite   *)
(* set is well-founded.                                                    *)
(***************************************************************************)
EXTENDS Integers, FiniteSets, Functions, FiniteSetTheorems, TLAPS

Pick(s) == CHOOSE x \in s : TRUE

\* h sums f over the set s, given the sums of smaller sets.
SumsAt(f, h, s) == h[s] = IF s = {} THEN 0 ELSE f[Pick(s)] + h[s \ {Pick(s)}]

\* h sums f over every subset of S.
SumsOver(f, S, h) ==
  h = [s \in SUBSET S |-> IF s = {} THEN 0 ELSE f[Pick(s)] + h[s \ {Pick(s)}]]

\* A set of subsets of a finite set has a minimal member.
LEMMA MinimalSubset ==
  ASSUME NEW S, IsFiniteSet(S), NEW B \in SUBSET (SUBSET S), B # {}
  PROVE  \E T \in B : \A U \in SUBSET T : U \in B => U = T
  <1>1. IsWellFoundedOn(StrictSubsetOrdering(S), SUBSET S)
    BY FS_StrictSubsetOrderingWellFounded, FS_FiniteSubsetsOfFinite
  <1>2. PICK T \in B : \A U \in B : ~(<<U, T>> \in StrictSubsetOrdering(S))
    BY <1>1, WFMin
  <1>3. ASSUME NEW U \in SUBSET T, U \in B, U # T
        PROVE  FALSE
    <2>1. <<U, T>> \in (SUBSET S) \X (SUBSET S)
      BY <1>3
    <2>2. <<U, T>> \in StrictSubsetOrdering(S)
      BY <1>3, <2>1 DEF StrictSubsetOrdering
    <2>3. QED
      BY <1>2, <1>3, <2>2
  <1>4. QED
    BY <1>2, <1>3

\* The recursive function behind a sum exists.
LEMMA SumExists ==
  ASSUME NEW f, NEW S, IsFiniteSet(S)
  PROVE  \E h : SumsOver(f, S, h)
  <1> DEFINE Sums(T, h) == /\ h = [s \in SUBSET S |-> h[s]]
                           /\ \A s \in SUBSET S :
                                Cardinality(s) <= Cardinality(T) => SumsAt(f, h, s)
             B == {T \in SUBSET S : ~\E h : Sums(T, h)}
  <1>1. \A s \in SUBSET S : IsFiniteSet(s) /\ Cardinality(s) \in Nat
    BY FS_Subset, FS_CardinalityType
  <1>2. B = {}
    <2> SUFFICES ASSUME B # {} PROVE FALSE
      OBVIOUS
    <2>1. PICK T \in B : \A U \in SUBSET T : U \in B => U = T
      <3>1. B \in SUBSET (SUBSET S)
        OBVIOUS
      <3> HIDE DEF B
      <3>2. QED
        BY <3>1, MinimalSubset
    <2>2. CASE T = {}
      <3> DEFINE h == [s \in SUBSET S |-> 0]
      <3>1. h = [s \in SUBSET S |-> h[s]]
        OBVIOUS
      <3>2. ASSUME NEW s \in SUBSET S, Cardinality(s) <= Cardinality(T)
            PROVE  SumsAt(f, h, s)
        <4>1. s = {}
          BY <1>1, <2>2, <3>2, FS_EmptySet
        <4>2. QED
          BY <4>1 DEF SumsAt
      <3>3. QED
        BY <2>1, <3>1, <3>2
    <2>3. CASE T # {}
      <3>1. PICK x \in T : TRUE
        BY <2>3
      <3>2. T \ {x} \in SUBSET S /\ T \ {x} \notin B
        <4>1. T \ {x} \in SUBSET T /\ T \ {x} # T
          BY <3>1
        <4>2. T \in SUBSET S
          BY <2>1
        <4> HIDE DEF B
        <4>3. QED
          BY <2>1, <4>1, <4>2
      <3>3. PICK g : Sums(T \ {x}, g)
        BY <2>1, <3>2
      <3>4. Cardinality(T \ {x}) = Cardinality(T) - 1
        BY <1>1, <3>1, FS_RemoveElement
      <3> DEFINE h == [s \in SUBSET S |->
                         IF Cardinality(s) = Cardinality(T)
                         THEN IF s = {} THEN 0 ELSE f[Pick(s)] + g[s \ {Pick(s)}]
                         ELSE g[s]]
      <3>5. h = [s \in SUBSET S |-> h[s]]
        OBVIOUS
      <3>6. ASSUME NEW s \in SUBSET S, Cardinality(s) <= Cardinality(T)
            PROVE  SumsAt(f, h, s)
        <4>1. CASE s = {}
          <5>1. g[s] = 0
            <6>1. Cardinality(s) <= Cardinality(T \ {x})
              BY <1>1, <3>2, <4>1, FS_EmptySet
            <6>2. QED
              BY <3>3, <4>1, <6>1 DEF SumsAt
          <5>2. QED
            BY <4>1, <5>1 DEF SumsAt
        <4>2. CASE s # {}
          <5>1. Pick(s) \in s
            BY <4>2 DEF Pick
          <5> DEFINE r == s \ {Pick(s)}
          <5>2. r \in SUBSET S /\ Cardinality(r) = Cardinality(s) - 1
            BY <1>1, <5>1, FS_RemoveElement
          <5>3. Cardinality(r) # Cardinality(T)
            BY <1>1, <3>6, <5>2
          <5>4. h[r] = g[r]
            BY <5>2, <5>3
          <5>5. CASE Cardinality(s) = Cardinality(T)
            <6>1. h[s] = f[Pick(s)] + g[r]
              BY <4>2, <5>5
            <6>2. QED
              BY <4>2, <5>4, <6>1 DEF SumsAt
          <5>6. CASE Cardinality(s) # Cardinality(T)
            <6>1. h[s] = g[s]
              BY <5>6
            <6>2. Cardinality(s) <= Cardinality(T \ {x})
              BY <1>1, <3>4, <3>6, <5>6
            <6>3. SumsAt(f, g, s)
              BY <3>3, <6>2
            <6>4. QED
              BY <4>2, <5>4, <6>1, <6>3 DEF SumsAt
          <5>7. QED
            BY <5>5, <5>6
        <4>3. QED
          BY <4>1, <4>2
      <3>7. QED
        BY <2>1, <3>5, <3>6
    <2>4. QED
      BY <2>2, <2>3
  <1>3. PICK h : Sums(S, h)
    BY <1>2
  <1>4. \A s \in SUBSET S : SumsAt(f, h, s)
    BY <1>1, <1>3, FS_Subset
  <1>5. h = [s \in SUBSET S |-> IF s = {} THEN 0 ELSE f[Pick(s)] + h[s \ {Pick(s)}]]
    BY <1>3, <1>4 DEF SumsAt
  <1>6. QED
    BY <1>5 DEF SumsOver

\* The sum of a function is the value for its domain of a function that sums.
LEMMA SumIsRecursive ==
  ASSUME NEW f, IsFiniteSet(DOMAIN f)
  PROVE  \E h : SumsOver(f, DOMAIN f, h) /\ SumFunction(f) = h[DOMAIN f]
  <1>1. SumFunction(f) = (CHOOSE h : SumsOver(f, DOMAIN f, h))[DOMAIN f]
    BY DEF SumsOver, Pick, SumFunction, SumFunctionOnSet, FoldFunctionOnSet, MapThenFoldSet
  <1>2. QED
    BY <1>1, SumExists

\* A sum of natural numbers is one, over every part of the domain.
LEMMA SumsAreNatural ==
  ASSUME NEW S, IsFiniteSet(S), NEW f \in [S -> Nat], NEW h, SumsOver(f, S, h)
  PROVE  \A s \in SUBSET S : h[s] \in Nat
  <1> DEFINE B == {s \in SUBSET S : h[s] \notin Nat}
  <1> SUFFICES ASSUME B # {} PROVE FALSE
    OBVIOUS
  <1>1. PICK T \in B : \A U \in SUBSET T : U \in B => U = T
    <2>1. B \in SUBSET (SUBSET S)
      OBVIOUS
    <2> HIDE DEF B
    <2>2. QED
      BY <2>1, MinimalSubset
  <1>2. h[T] = IF T = {} THEN 0 ELSE f[Pick(T)] + h[T \ {Pick(T)}]
    BY DEF SumsOver
  <1>3. CASE T # {}
    <2>1. Pick(T) \in T
      BY <1>3 DEF Pick
    <2>2. h[T \ {Pick(T)}] \in Nat
      BY <1>1, <2>1
    <2>3. f[Pick(T)] \in Nat
      BY <2>1
    <2>4. QED
      BY <1>1, <1>2, <1>3, <2>2, <2>3
  <1>4. QED
    BY <1>1, <1>2, <1>3

\* Any element may be the first that is added.
LEMMA SumsInAnyOrder ==
  ASSUME NEW S, IsFiniteSet(S), NEW f \in [S -> Nat], NEW h, SumsOver(f, S, h)
  PROVE  \A s \in SUBSET S : \A x \in s : h[s] = f[x] + h[s \ {x}]
  <1> DEFINE B == {s \in SUBSET S : \E x \in s : h[s] # f[x] + h[s \ {x}]}
  <1> SUFFICES ASSUME B # {} PROVE FALSE
    OBVIOUS
  <1>1. PICK T \in B : \A U \in SUBSET T : U \in B => U = T
    <2>1. B \in SUBSET (SUBSET S)
      OBVIOUS
    <2> HIDE DEF B
    <2>2. QED
      BY <2>1, MinimalSubset
  <1>2. PICK x \in T : h[T] # f[x] + h[T \ {x}]
    BY <1>1
  <1> DEFINE y == Pick(T)
  <1>3. y \in T /\ h[T] = f[y] + h[T \ {y}]
    BY <1>2 DEF SumsOver, Pick
  <1> HIDE DEF y
  <1>4. x # y
    BY <1>2, <1>3
  <1>5. \A z \in T : T \ {z} \in SUBSET S /\ T \ {z} \notin B
    <2> SUFFICES ASSUME NEW z \in T PROVE T \ {z} \in SUBSET S /\ T \ {z} \notin B
      OBVIOUS
    <2>1. T \ {z} \in SUBSET T /\ T \ {z} # T
      OBVIOUS
    <2>2. T \in SUBSET S
      BY <1>1
    <2> HIDE DEF B
    <2>3. QED
      BY <1>1, <2>1, <2>2
  <1> DEFINE rest == (T \ {x}) \ {y}
  <1>6. h[T \ {y}] = f[x] + h[rest]
    <2>1. h[T \ {y}] = f[x] + h[(T \ {y}) \ {x}]
      BY <1>3, <1>4, <1>5
    <2>2. (T \ {y}) \ {x} = rest
      OBVIOUS
    <2>3. QED
      BY <2>1, <2>2
  <1>7. h[T \ {x}] = f[y] + h[rest]
    BY <1>3, <1>4, <1>5
  <1>8. f[x] \in Nat /\ f[y] \in Nat /\ h[rest] \in Nat
    <2>1. rest \in SUBSET S /\ x \in S /\ y \in S
      BY <1>1, <1>3
    <2>2. QED
      BY <2>1, SumsAreNatural
  <1> HIDE DEF rest
  <1>9. QED
    BY <1>2, <1>3, <1>6, <1>7, <1>8

\* The sum of natural numbers is a natural number.
LEMMA SumIsNatural ==
  ASSUME NEW S, IsFiniteSet(S), NEW f \in [S -> Nat]
  PROVE  SumFunction(f) \in Nat
  <1>1. DOMAIN f = S
    OBVIOUS
  <1>2. QED
    BY <1>1, SumIsRecursive, SumsAreNatural

\* The sum of zeros is zero.
LEMMA SumOfZeros ==
  ASSUME NEW S, IsFiniteSet(S), NEW f \in [S -> {0}]
  PROVE  SumFunction(f) = 0
  <1>1. PICK h : SumsOver(f, S, h) /\ SumFunction(f) = h[S]
    <2>1. DOMAIN f = S
      OBVIOUS
    <2>2. QED
      BY <2>1, SumIsRecursive
  <1> DEFINE B == {s \in SUBSET S : h[s] # 0}
  <1>2. B = {}
    <2> SUFFICES ASSUME B # {} PROVE FALSE
      OBVIOUS
    <2>1. PICK T \in B : \A U \in SUBSET T : U \in B => U = T
      <3>1. B \in SUBSET (SUBSET S)
        OBVIOUS
      <3> HIDE DEF B
      <3>2. QED
        BY <3>1, MinimalSubset
    <2>2. T # {} /\ h[T] = f[Pick(T)] + h[T \ {Pick(T)}]
      BY <1>1, <2>1 DEF SumsOver
    <2>3. Pick(T) \in T
      BY <2>2 DEF Pick
    <2>4. h[T \ {Pick(T)}] = 0
      BY <2>1, <2>3
    <2>5. f[Pick(T)] = 0
      BY <2>1, <2>3
    <2>6. QED
      BY <2>1, <2>2, <2>4, <2>5
  <1>3. QED
    BY <1>1, <1>2

\* Two functions that agree on a set have the same sums over its parts.
LEMMA SumsAgree ==
  ASSUME NEW S, IsFiniteSet(S), NEW f, NEW g, NEW h, NEW k,
         SumsOver(f, S, h), SumsOver(g, S, k),
         NEW R \in SUBSET S, \A x \in R : f[x] = g[x]
  PROVE  h[R] = k[R]
  <1> DEFINE B == {s \in SUBSET S : s \subseteq R /\ h[s] # k[s]}
  <1>1. B = {}
    <2> SUFFICES ASSUME B # {} PROVE FALSE
      OBVIOUS
    <2>1. PICK T \in B : \A U \in SUBSET T : U \in B => U = T
      <3>1. B \in SUBSET (SUBSET S)
        OBVIOUS
      <3> HIDE DEF B
      <3>2. QED
        BY <3>1, MinimalSubset
    <2>2. /\ h[T] = IF T = {} THEN 0 ELSE f[Pick(T)] + h[T \ {Pick(T)}]
          /\ k[T] = IF T = {} THEN 0 ELSE g[Pick(T)] + k[T \ {Pick(T)}]
      <3>1. T \in SUBSET S
        BY <2>1
      <3>2. h[T] = IF T = {} THEN 0 ELSE f[Pick(T)] + h[T \ {Pick(T)}]
        BY <3>1 DEF SumsOver
      <3>3. k[T] = IF T = {} THEN 0 ELSE g[Pick(T)] + k[T \ {Pick(T)}]
        BY <3>1 DEF SumsOver
      <3>4. QED
        BY <3>2, <3>3
    <2>3. T # {}
      BY <2>1, <2>2
    <2>4. Pick(T) \in T
      BY <2>3 DEF Pick
    <2>5. h[T \ {Pick(T)}] = k[T \ {Pick(T)}]
      BY <2>1, <2>4
    <2>6. f[Pick(T)] = g[Pick(T)]
      BY <2>1, <2>4
    <2>7. QED
      BY <2>1, <2>2, <2>3, <2>5, <2>6
  <1>2. QED
    BY <1>1

\* Changing one value changes the sum by the difference.
LEMMA SumAfterUpdate ==
  ASSUME NEW S, IsFiniteSet(S), NEW f \in [S -> Nat], NEW g \in [S -> Nat],
         NEW x \in S, \A y \in S \ {x} : g[y] = f[y]
  PROVE  SumFunction(g) + f[x] = SumFunction(f) + g[x]
  <1>1. DOMAIN f = S /\ DOMAIN g = S
    OBVIOUS
  <1>2. PICK h : SumsOver(f, S, h) /\ SumFunction(f) = h[S]
    BY <1>1, SumIsRecursive
  <1>3. PICK k : SumsOver(g, S, k) /\ SumFunction(g) = k[S]
    BY <1>1, SumIsRecursive
  <1>4. h[S] = f[x] + h[S \ {x}]
    BY <1>2, SumsInAnyOrder
  <1>5. k[S] = g[x] + k[S \ {x}]
    BY <1>3, SumsInAnyOrder
  <1>6. h[S \ {x}] = k[S \ {x}]
    BY <1>2, <1>3, SumsAgree
  <1>7. h[S \ {x}] \in Nat /\ f[x] \in Nat /\ g[x] \in Nat
    BY <1>2, SumsAreNatural
  <1>8. QED
    BY <1>2, <1>3, <1>4, <1>5, <1>6, <1>7

\* A function that is nowhere greater has no greater sum.
LEMMA SumIsMonotonic ==
  ASSUME NEW S, IsFiniteSet(S), NEW f \in [S -> Nat], NEW g \in [S -> Nat],
         \A x \in S : f[x] <= g[x]
  PROVE  SumFunction(f) <= SumFunction(g)
  <1>1. DOMAIN f = S /\ DOMAIN g = S
    OBVIOUS
  <1>2. PICK h : SumsOver(f, S, h) /\ SumFunction(f) = h[S]
    BY <1>1, SumIsRecursive
  <1>3. PICK k : SumsOver(g, S, k) /\ SumFunction(g) = k[S]
    BY <1>1, SumIsRecursive
  <1>4. \A s \in SUBSET S : h[s] \in Nat /\ k[s] \in Nat
    BY <1>2, <1>3, SumsAreNatural
  <1> DEFINE B == {s \in SUBSET S : ~(h[s] <= k[s])}
  <1>5. B = {}
    <2> SUFFICES ASSUME B # {} PROVE FALSE
      OBVIOUS
    <2>1. PICK T \in B : \A U \in SUBSET T : U \in B => U = T
      <3>1. B \in SUBSET (SUBSET S)
        OBVIOUS
      <3> HIDE DEF B
      <3>2. QED
        BY <3>1, MinimalSubset
    <2>2. T \in SUBSET S /\ ~(h[T] <= k[T])
      BY <2>1
    <2>3. h[T] = IF T = {} THEN 0 ELSE f[Pick(T)] + h[T \ {Pick(T)}]
      BY <1>2, <2>2 DEF SumsOver
    <2>4. k[T] = IF T = {} THEN 0 ELSE g[Pick(T)] + k[T \ {Pick(T)}]
      BY <1>3, <2>2 DEF SumsOver
    <2>5. T # {}
      BY <2>2, <2>3, <2>4
    <2>6. Pick(T) \in T
      BY <2>5 DEF Pick
    <2>7. h[T \ {Pick(T)}] <= k[T \ {Pick(T)}]
      <3>1. T \ {Pick(T)} \in SUBSET T /\ T \ {Pick(T)} # T /\ T \ {Pick(T)} \in SUBSET S
        BY <2>2, <2>6
      <3>2. T \ {Pick(T)} \notin B
        <4> HIDE DEF B
        <4>1. QED
          BY <2>1, <3>1
      <3>3. QED
        BY <3>1, <3>2
    <2>8. /\ f[Pick(T)] \in Nat /\ g[Pick(T)] \in Nat /\ f[Pick(T)] <= g[Pick(T)]
          /\ h[T \ {Pick(T)}] \in Nat /\ k[T \ {Pick(T)}] \in Nat
      BY <1>4, <2>2, <2>6
    <2>9. QED
      BY <2>2, <2>3, <2>4, <2>5, <2>7, <2>8
  <1>6. QED
    BY <1>2, <1>3, <1>5

\* No value exceeds the sum.
LEMMA SumBoundsValues ==
  ASSUME NEW S, IsFiniteSet(S), NEW f \in [S -> Nat], NEW x \in S
  PROVE  f[x] <= SumFunction(f)
  <1>1. PICK g \in [S -> Nat] : g[x] = 0 /\ \A y \in S \ {x} : g[y] = f[y]
    <2>1. [f EXCEPT ![x] = 0] \in [S -> Nat]
      OBVIOUS
    <2>2. QED
      BY <2>1
  <1>2. SumFunction(f) \in Nat /\ SumFunction(g) \in Nat /\ f[x] \in Nat
    BY SumIsNatural
  <1>3. SumFunction(g) + f[x] = SumFunction(f) + g[x]
    BY <1>1, SumAfterUpdate
  <1>4. QED
    BY <1>1, <1>2, <1>3

\* A set of natural numbers has a least member.
LEMMA LeastNatural ==
  ASSUME NEW B \in SUBSET Nat, B # {}
  PROVE  \E n \in B : \A m \in B : n <= m
  <1>1. PICK n \in B : \A m \in B : ~(<<m, n>> \in OpToRel(<, Nat))
    BY NatLessThanWellFounded, WFMin
  <1>2. ASSUME NEW m \in B PROVE n <= m
    <2>1. ~(m < n)
      BY <1>1 DEF OpToRel
    <2>2. QED
      BY <2>1
  <1>3. QED
    BY <1>2

\* The sums of a restricted function are those of the whole one.
LEMMA SumOfPart ==
  ASSUME NEW S, IsFiniteSet(S), NEW f \in [S -> Nat], NEW h, SumsOver(f, S, h),
         NEW R \in SUBSET S
  PROVE  SumFunction([x \in R |-> f[x]]) = h[R]
  <1> DEFINE g == [x \in R |-> f[x]]
  <1>1. IsFiniteSet(R) /\ DOMAIN g = R
    BY FS_Subset
  <1>2. PICK k : SumsOver(g, R, k) /\ SumFunction(g) = k[R]
    BY <1>1, SumIsRecursive
  <1> DEFINE B == {s \in SUBSET R : h[s] # k[s]}
  <1>3. B = {}
    <2> SUFFICES ASSUME B # {} PROVE FALSE
      OBVIOUS
    <2>1. PICK T \in B : \A U \in SUBSET T : U \in B => U = T
      <3>1. B \in SUBSET (SUBSET R)
        OBVIOUS
      <3> HIDE DEF B
      <3>2. QED
        BY <1>1, <3>1, MinimalSubset
    <2>2. T \in SUBSET R /\ T \in SUBSET S
      BY <2>1
    <2>3. h[T] = IF T = {} THEN 0 ELSE f[Pick(T)] + h[T \ {Pick(T)}]
      BY <2>2 DEF SumsOver
    <2>4. k[T] = IF T = {} THEN 0 ELSE g[Pick(T)] + k[T \ {Pick(T)}]
      BY <1>2, <2>2 DEF SumsOver
    <2>5. T # {}
      BY <2>1, <2>3, <2>4
    <2>6. Pick(T) \in T
      BY <2>5 DEF Pick
    <2>7. h[T \ {Pick(T)}] = k[T \ {Pick(T)}]
      BY <2>1, <2>6
    <2>8. f[Pick(T)] = g[Pick(T)]
      BY <2>2, <2>6
    <2>9. QED
      BY <2>1, <2>3, <2>4, <2>5, <2>7, <2>8
  <1>4. QED
    BY <1>2, <1>3

\* A sum is that of the others and the one left out.
LEMMA SumWithout ==
  ASSUME NEW S, IsFiniteSet(S), NEW f \in [S -> Nat], NEW x \in S
  PROVE  SumFunction(f) = f[x] + SumFunction([y \in S \ {x} |-> f[y]])
  <1>1. DOMAIN f = S
    OBVIOUS
  <1>2. PICK h : SumsOver(f, S, h) /\ SumFunction(f) = h[S]
    BY <1>1, SumIsRecursive
  <1>3. h[S] = f[x] + h[S \ {x}]
    BY <1>2, SumsInAnyOrder
  <1>4. SumFunction([y \in S \ {x} |-> f[y]]) = h[S \ {x}]
    BY <1>2, SumOfPart
  <1>5. QED
    BY <1>2, <1>3, <1>4

\* A function has one value more than another.
HasOneMore(S, f, x, g) ==
  /\ IsFiniteSet(S) /\ f \in [S -> Nat] /\ x \in S
  /\ g \in [S \ {x} -> Nat] /\ \A y \in S \ {x} : g[y] = f[y]

\* A sum is that of another function and the value that one has not.
LEMMA SumOfOneMore ==
  ASSUME NEW S, NEW f, NEW x, NEW g, HasOneMore(S, f, x, g)
  PROVE  SumFunction(f) = f[x] + SumFunction(g)
  <1>1. IsFiniteSet(S) /\ f \in [S -> Nat] /\ x \in S /\ g = [y \in S \ {x} |-> f[y]]
    BY DEF HasOneMore
  <1>2. QED
    BY <1>1, SumWithout

\* The sum of no values is zero.
LEMMA SumOfNothing ==
  ASSUME NEW f \in [{} -> Nat]
  PROVE  SumFunction(f) = 0
  <1>1. f \in [{} -> {0}] /\ IsFiniteSet({})
    BY FS_EmptySet
  <1>2. QED
    BY <1>1, SumOfZeros

\* The sum of a sequence is that of its front and its last value.
LEMMA SumOfFront ==
  ASSUME NEW n \in Nat, NEW f \in [1 .. n + 1 -> Nat]
  PROVE  SumFunction(f) = SumFunction([k \in 1 .. n |-> f[k]]) + f[n + 1]
  <1>1. /\ IsFiniteSet(1 .. n + 1) /\ IsFiniteSet(1 .. n)
        /\ n + 1 \in 1 .. n + 1 /\ (1 .. n + 1) \ {n + 1} = 1 .. n
    <2>1. /\ 1 \in Int /\ n \in Int /\ n + 1 \in Int
          /\ n + 1 \in 1 .. n + 1 /\ (1 .. n + 1) \ {n + 1} = 1 .. n
      OBVIOUS
    <2>2. QED
      BY <2>1, FS_Interval
  <1>2. SumFunction(f) = f[n + 1] + SumFunction([k \in 1 .. n |-> f[k]])
    <2>1. PICK S, a, h : S = 1 .. n + 1 /\ a = n + 1 /\ h = f
      OBVIOUS
    <2>2. IsFiniteSet(S) /\ h \in [S -> Nat] /\ a \in S /\ S \ {a} = 1 .. n
      BY <1>1, <2>1
    <2>3. PICK rest : rest = [k \in S \ {a} |-> h[k]]
      OBVIOUS
    <2>4. SumFunction(h) = h[a] + SumFunction(rest)
      <3>1. SumFunction(h) = h[a] + SumFunction([k \in S \ {a} |-> h[k]])
        BY <2>2, SumWithout
      <3>2. QED
        BY <2>3, <3>1, Zenon
    <2>5. rest = [k \in 1 .. n |-> f[k]]
      BY <2>1, <2>2, <2>3
    <2>6. QED
      BY <2>1, <2>4, <2>5
  <1>3. f[n + 1] \in Nat /\ SumFunction([k \in 1 .. n |-> f[k]]) \in Nat
    <2>1. [k \in 1 .. n |-> f[k]] \in [1 .. n -> Nat]
      BY <1>1
    <2>2. QED
      BY <1>1, <2>1, SumIsNatural
  <1>4. QED
    BY <1>2, <1>3

\* The sum of a sequence is that of its first value and its tail.
LEMMA SumOfTail ==
  ASSUME NEW n \in Nat, NEW f \in [1 .. n + 1 -> Nat]
  PROVE  SumFunction(f) = f[1] + SumFunction([k \in 1 .. n |-> f[k + 1]])
  <1> DEFINE to(m) == [k \in 1 .. m |-> f[k]]
             from(m) == [k \in 1 .. m |-> f[k + 1]]
             B == {m \in 0 .. n : SumFunction(to(m + 1)) # f[1] + SumFunction(from(m))}
  <1>1. ASSUME NEW m \in 0 .. n
        PROVE  /\ to(m) \in [1 .. m -> Nat] /\ to(m + 1) \in [1 .. m + 1 -> Nat]
               /\ from(m) \in [1 .. m -> Nat]
               /\ m + 1 \in Nat /\ m \in Nat
    OBVIOUS
  <1>2. B = {}
    <2> SUFFICES ASSUME B # {} PROVE FALSE
      OBVIOUS
    <2>1. PICK m \in B : \A i \in B : m <= i
      <3>1. B \in SUBSET Nat
        OBVIOUS
      <3> HIDE DEF B
      <3>2. QED
        BY <3>1, LeastNatural
    <2>2. m \in 0 .. n /\ SumFunction(to(m + 1)) # f[1] + SumFunction(from(m))
      BY <2>1
    <2>3. SumFunction(to(m + 1)) = SumFunction([k \in 1 .. m |-> to(m + 1)[k]]) + to(m + 1)[m + 1]
      BY <1>1, <2>2, SumOfFront
    <2>4. [k \in 1 .. m |-> to(m + 1)[k]] = to(m) /\ to(m + 1)[m + 1] = f[m + 1]
      BY <2>2
    <2>5. CASE m = 0
      <3>1. SumFunction(to(0)) = 0 /\ SumFunction(from(0)) = 0
        <4>1. to(0) \in [{} -> Nat] /\ from(0) \in [{} -> Nat]
          OBVIOUS
        <4> HIDE DEF to, from
        <4>2. QED
          BY <4>1, SumOfNothing
      <3>2. f[1] \in Nat
        OBVIOUS
      <3>3. SumFunction(to(m + 1)) = SumFunction(to(m)) + f[m + 1]
        BY <2>3, <2>4
      <3> HIDE DEF to, from
      <3>4. QED
        BY <2>2, <2>5, <3>1, <3>2, <3>3
    <2>6. CASE m # 0
      <3> DEFINE i == m - 1
      <3>1. i \in 0 .. n /\ i + 1 = m /\ i \notin B
        <4>1. i \in 0 .. n /\ i + 1 = m /\ ~(m <= i)
          BY <2>2, <2>6
        <4> HIDE DEF B, i
        <4>2. QED
          BY <2>1, <4>1
      <3>2. SumFunction(to(m)) = f[1] + SumFunction(from(i))
        <4>1. SumFunction(to(i + 1)) = f[1] + SumFunction(from(i))
          <5> HIDE DEF to, from, i
          <5>1. QED
            BY <3>1
        <4>2. QED
          BY <3>1, <4>1
      <3>3. SumFunction(from(m)) = SumFunction([k \in 1 .. i |-> from(m)[k]]) + from(m)[m]
        <4>1. from(m) \in [1 .. i + 1 -> Nat] /\ i \in Nat
          BY <1>1, <2>2, <3>1
        <4> HIDE DEF from
        <4>2. QED
          BY <3>1, <4>1, SumOfFront
      <3>4. [k \in 1 .. i |-> from(m)[k]] = from(i) /\ from(m)[m] = f[m + 1]
        BY <2>2, <2>6
      <3>5. /\ SumFunction(from(i)) \in Nat /\ f[1] \in Nat /\ f[m + 1] \in Nat
        <4>1. from(i) \in [1 .. i -> Nat] /\ IsFiniteSet(1 .. i)
          <5>1. i \in Int /\ 1 \in Int /\ from(i) \in [1 .. i -> Nat]
            BY <1>1, <3>1
          <5> HIDE DEF from, i
          <5>2. QED
            BY <5>1, FS_Interval
        <4>2. SumFunction(from(i)) \in Nat
          BY <4>1, SumIsNatural
        <4>3. QED
          BY <2>2, <4>2
      <3>6. SumFunction(to(m + 1)) = SumFunction(to(m)) + f[m + 1]
        BY <2>3, <2>4
      <3>7. SumFunction(from(m)) = SumFunction(from(i)) + f[m + 1]
        BY <3>3, <3>4
      <3> HIDE DEF to, from, i
      <3>8. QED
        BY <2>2, <3>2, <3>5, <3>6, <3>7
    <2>7. QED
      BY <2>5, <2>6
  <1>3. to(n + 1) = f
    OBVIOUS
  <1>4. SumFunction(to(n + 1)) = f[1] + SumFunction(from(n))
    <2>1. n \in 0 .. n
      OBVIOUS
    <2>2. QED
      BY <1>2, <2>1
  <1>5. QED
    BY <1>3, <1>4

\* The sum of what two functions add up to is what their sums add up to.
LEMMA SumAdds ==
  ASSUME NEW S, IsFiniteSet(S), NEW f \in [S -> Nat], NEW g \in [S -> Nat]
  PROVE  SumFunction([x \in S |-> f[x] + g[x]]) = SumFunction(f) + SumFunction(g)
  <1> DEFINE both == [x \in S |-> f[x] + g[x]]
  <1>1. DOMAIN f = S /\ DOMAIN g = S /\ DOMAIN both = S
    OBVIOUS
  <1>2. PICK h : SumsOver(f, S, h) /\ SumFunction(f) = h[S]
    BY <1>1, SumIsRecursive
  <1>3. PICK k : SumsOver(g, S, k) /\ SumFunction(g) = k[S]
    BY <1>1, SumIsRecursive
  <1>4. PICK b : SumsOver(both, S, b) /\ SumFunction(both) = b[S]
    <2> HIDE DEF both
    <2>1. QED
      BY <1>1, SumIsRecursive
  <1>5. \A s \in SUBSET S : h[s] \in Nat /\ k[s] \in Nat
    BY <1>2, <1>3, SumsAreNatural
  <1> DEFINE B == {s \in SUBSET S : b[s] # h[s] + k[s]}
  <1>6. B = {}
    <2> SUFFICES ASSUME B # {} PROVE FALSE
      OBVIOUS
    <2>1. PICK T \in B : \A U \in SUBSET T : U \in B => U = T
      <3>1. B \in SUBSET (SUBSET S)
        OBVIOUS
      <3> HIDE DEF B
      <3>2. QED
        BY <3>1, MinimalSubset
    <2>2. T \in SUBSET S /\ b[T] # h[T] + k[T]
      BY <2>1
    <2>3. /\ h[T] = IF T = {} THEN 0 ELSE f[Pick(T)] + h[T \ {Pick(T)}]
          /\ k[T] = IF T = {} THEN 0 ELSE g[Pick(T)] + k[T \ {Pick(T)}]
      BY <1>2, <1>3, <2>2 DEF SumsOver
    <2>4. b[T] = IF T = {} THEN 0 ELSE both[Pick(T)] + b[T \ {Pick(T)}]
      <3> HIDE DEF both
      <3>1. QED
        BY <1>4, <2>2 DEF SumsOver
    <2>5. T # {}
      BY <2>2, <2>3, <2>4
    <2>6. Pick(T) \in T
      BY <2>5 DEF Pick
    <2> DEFINE R == T \ {Pick(T)}
    <2>7. b[R] = h[R] + k[R]
      <3>1. R \in SUBSET T /\ R # T /\ R \in SUBSET S
        BY <2>2, <2>6
      <3>2. R \notin B
        <4> HIDE DEF B
        <4>1. QED
          BY <2>1, <3>1
      <3>3. QED
        BY <3>1, <3>2
    <2>8. both[Pick(T)] = f[Pick(T)] + g[Pick(T)]
      BY <2>2, <2>6
    <2>9. /\ f[Pick(T)] \in Nat /\ g[Pick(T)] \in Nat
          /\ h[R] \in Nat /\ k[R] \in Nat
      BY <1>5, <2>2, <2>6
    <2> HIDE DEF both, R
    <2>10. QED
      BY <2>2, <2>3, <2>4, <2>5, <2>7, <2>8, <2>9 DEF R
  <1>7. QED
    BY <1>2, <1>3, <1>4, <1>6

\* A sequence is the list of the members of a set, none of them twice.
IsListed(n, b, S) ==
  /\ n \in Nat /\ b \in [1 .. n -> S]
  /\ \A i, j \in 1 .. n : b[i] = b[j] => i = j
  /\ \A x \in S : \E i \in 1 .. n : b[i] = x

\* A set has as many members as a list of them.
LEMMA ListedSet ==
  ASSUME NEW n, NEW b, NEW S, IsListed(n, b, S)
  PROVE  IsFiniteSet(S) /\ Cardinality(S) = n
  <1>1. n \in Nat /\ b \in Bijection(1 .. n, S)
    BY DEF IsListed, Bijection, Injection, Surjection, IsInjective
  <1>2. ExistsBijection(1 .. n, S)
    BY <1>1 DEF ExistsBijection
  <1>3. IsFiniteSet(S)
    BY <1>1, <1>2, FS_NatBijection
  <1>4. Cardinality(S) = n
    BY <1>1, <1>2, FS_CountingElements
  <1>5. QED
    BY <1>3, <1>4

\* The values of a function in the order of a list of its domain.
IsListOf(q, f, n, b) ==
  /\ f \in [DOMAIN f -> Nat] /\ IsListed(n, b, DOMAIN f)
  /\ q = [i \in 1 .. n |-> f[b[i]]]

\* The sum of a function is that of its values in the order of a list.
LEMMA SumOfList ==
  ASSUME NEW q, NEW f, NEW n, NEW b, IsListOf(q, f, n, b)
  PROVE  SumFunction(q) = SumFunction(f)
  <1> PICK S : S = DOMAIN f
    OBVIOUS
  <1>a. /\ f \in [S -> Nat] /\ n \in Nat /\ b \in [1 .. n -> S]
        /\ \A i, j \in 1 .. n : b[i] = b[j] => i = j
        /\ \A x \in S : \E i \in 1 .. n : b[i] = x
    BY DEF IsListOf, IsListed
  <1>b. IsFiniteSet(S)
    BY ListedSet DEF IsListOf
  <1> USE <1>a, <1>b
  <1> DEFINE to(m) == [i \in 1 .. m |-> f[b[i]]]
             img(m) == {b[i] : i \in 1 .. m}
             part(m) == [x \in img(m) |-> f[x]]
             B == {m \in 0 .. n : SumFunction(to(m)) # SumFunction(part(m))}
  <1>1. ASSUME NEW m \in 0 .. n
        PROVE  /\ to(m) \in [1 .. m -> Nat] /\ part(m) \in [img(m) -> Nat] /\ IsFiniteSet(img(m))
               /\ m \in Nat
    <2>1. m \in Nat /\ \A i \in 1 .. m : i \in 1 .. n
      OBVIOUS
    <2>2. img(m) \in SUBSET S
      BY <2>1
    <2>3. to(m) \in [1 .. m -> Nat] /\ part(m) \in [img(m) -> Nat]
      BY <2>1, <2>2
    <2> HIDE DEF img
    <2>4. IsFiniteSet(img(m))
      BY <2>2, FS_Subset
    <2>5. QED
      BY <2>1, <2>3, <2>4
  <1>2. B = {}
    <2> SUFFICES ASSUME B # {} PROVE FALSE
      OBVIOUS
    <2>1. PICK m \in B : \A k \in B : m <= k
      <3>1. B \in SUBSET Nat
        OBVIOUS
      <3> HIDE DEF B
      <3>2. QED
        BY <3>1, LeastNatural
    <2>2. m \in 0 .. n /\ SumFunction(to(m)) # SumFunction(part(m))
      BY <2>1
    <2>3. m # 0
      <3>1. SUFFICES ASSUME m = 0 PROVE FALSE
        OBVIOUS
      <3>2. 1 .. m = {} /\ img(m) = {}
        BY <3>1
      <3>3. to(m) \in [{} -> Nat] /\ part(m) \in [{} -> Nat]
        BY <1>1, <2>2, <3>2
      <3> HIDE DEF to, part
      <3>4. SumFunction(to(m)) = 0 /\ SumFunction(part(m)) = 0
        BY <3>3, SumOfNothing
      <3>5. QED
        BY <2>2, <3>4
    <2>4. PICK k : k = m - 1
      OBVIOUS
    <2>5. k \in 0 .. n /\ k \in Nat /\ m = k + 1 /\ k + 1 \in 0 .. n /\ k + 1 \in 1 .. n
      BY <2>2, <2>3, <2>4
    <2>6. SumFunction(to(k)) = SumFunction(part(k))
      <3>1. k \notin B
        <4>1. ~(m <= k)
          BY <2>5
        <4> HIDE DEF B
        <4>2. QED
          BY <2>1, <4>1
      <3>2. QED
        BY <2>5, <3>1
    <2>7. SumFunction(to(k + 1)) = SumFunction(to(k)) + f[b[k + 1]]
      <3>1. to(k + 1) \in [1 .. k + 1 -> Nat]
        BY <1>1, <2>5
      <3>2. /\ [i \in 1 .. k |-> to(k + 1)[i]] = to(k)
            /\ to(k + 1)[k + 1] = f[b[k + 1]]
        BY <2>5
      <3> HIDE DEF to
      <3>3. SumFunction(to(k + 1)) = SumFunction([i \in 1 .. k |-> to(k + 1)[i]]) + to(k + 1)[k + 1]
        BY <2>5, <3>1, SumOfFront
      <3>4. QED
        BY <3>2, <3>3
    <2>8. SumFunction(part(k + 1)) = f[b[k + 1]] + SumFunction(part(k))
      <3>1. PICK T, g, x : T = img(k + 1) /\ g = part(k + 1) /\ x = b[k + 1]
        OBVIOUS
      <3>2. IsFiniteSet(T) /\ g \in [T -> Nat]
        BY <1>1, <2>5, <3>1
      <3>3. x \in T /\ g[x] = f[x]
        <4>1. k + 1 \in 1 .. k + 1
          BY <2>5
        <4>2. x \in img(k + 1)
          BY <3>1, <4>1
        <4>3. QED
          BY <3>1, <4>2
      <3>4. T \ {x} = img(k)
        <4>1. \A i \in 1 .. k + 1 : i \in 1 .. n /\ (i = k + 1 \/ i \in 1 .. k)
          BY <2>5
        <4>2. \A i \in 1 .. k : i \in 1 .. k + 1 /\ i # k + 1
          BY <2>5
        <4>3. QED
          BY <2>5, <3>1, <4>1, <4>2
      <3>5. PICK rest : rest = part(k)
        OBVIOUS
      <3>6. rest \in [img(k) -> Nat] /\ \A y \in img(k) : rest[y] = g[y]
        <4>1. part(k) \in [img(k) -> Nat]
          BY <1>1, <2>5
        <4>2. \A y \in img(k) : y \in T
          BY <3>4
        <4>3. \A y \in T : g[y] = f[y]
          BY <3>1
        <4>4. \A y \in img(k) : part(k)[y] = f[y]
          OBVIOUS
        <4> HIDE DEF part, img
        <4>5. QED
          BY <3>4, <3>5, <4>1, <4>2, <4>3, <4>4
      <3>7. SumFunction(g) = g[x] + SumFunction(rest)
        <4>1. IsFiniteSet(T) /\ g \in [T -> Nat] /\ x \in T
          BY <3>2, <3>3
        <4>2. rest \in [T \ {x} -> Nat] /\ \A y \in T \ {x} : rest[y] = g[y]
          BY <3>4, <3>6
        <4> HIDE DEF to, part, img, B
        <4>3. HasOneMore(T, g, x, rest)
          BY <4>1, <4>2 DEF HasOneMore
        <4>4. QED
          BY <4>3, SumOfOneMore
      <3>8. QED
        BY <3>1, <3>3, <3>5, <3>7
    <2>9. SumFunction(to(k)) \in Nat /\ f[b[k + 1]] \in Nat
      <3>1. to(k) \in [1 .. k -> Nat] /\ f[b[k + 1]] \in Nat /\ k \in Int /\ 1 \in Int
        BY <1>1, <2>5
      <3>2. IsFiniteSet(1 .. k)
        BY <3>1, FS_Interval
      <3> HIDE DEF to
      <3>3. QED
        BY <3>1, <3>2, SumIsNatural
    <2> HIDE DEF to, part
    <2>10. QED
      BY <2>2, <2>5, <2>6, <2>7, <2>8, <2>9
  <1>3. SumFunction(to(n)) = SumFunction(part(n))
    <2>1. n \in 0 .. n
      OBVIOUS
    <2> HIDE DEF to, part
    <2>2. QED
      BY <1>2, <2>1
  <1>4. part(n) = f
    <2>1. img(n) = S
      <3>1. \A i \in 1 .. n : b[i] \in S
        BY <1>a
      <3>2. \A x \in S : \E i \in 1 .. n : b[i] = x
        BY <1>a
      <3>3. \A x : x \in img(n) <=> x \in S
        BY <3>1, <3>2
      <3> HIDE DEF img
      <3>4. QED
        BY <3>3
    <2>2. QED
      BY <2>1
  <1>5. q = to(n)
    BY DEF IsListOf
  <1>6. QED
    BY <1>3, <1>4, <1>5
=============================================================================
