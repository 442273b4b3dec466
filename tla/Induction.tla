----------------------------- MODULE Induction -----------------------------
(***************************************************************************)
(* Induction over the natural numbers for a set instead of a predicate, so *)
(* that the provers can use it, and what follows from it: least and        *)
(* greatest elements and sums over finite sets.                            *)
(***************************************************************************)
EXTENDS Integers, FiniteSets, FiniteSetsExt, FiniteSetTheorems,
        WellFoundedInduction, TLAPS

\* Every nonempty set of natural numbers has a least element.
LEMMA NatMinimum ==
    ASSUME NEW T, T \subseteq Nat, T # {}
    PROVE  \E x \in T : \A y \in T : x <= y
<1> DEFINE R == {ss \in Nat \X Nat : ss[1] < ss[2]}
<1>1. IsWellFoundedOn(R, Nat)
  BY NatLessThanWellFounded, Zenon DEF OpToRel
<1>2. PICK x \in T : \A y \in T : <<y, x>> \notin R
  <2> HIDE DEF R
  <2> QED BY <1>1, WFMin
<1>3. \A y \in T : ~(y < x)
  BY <1>2
<1> QED BY <1>3

\* A set of natural numbers that holds 0 and the successor of each of its
\* elements holds them all.
LEMMA SetInduction ==
    ASSUME NEW S, 0 \in S, \A n \in Nat : n \in S => n + 1 \in S
    PROVE  Nat \subseteq S
<1> DEFINE T == Nat \ S
<1> SUFFICES ASSUME T # {} PROVE FALSE
  OBVIOUS
<1>1. PICK x \in T : \A y \in T : x <= y
  <2>1. T \subseteq Nat
    OBVIOUS
  <2> HIDE DEF T
  <2> QED BY <2>1, NatMinimum
<1>2. x # 0 /\ x - 1 \in Nat
  OBVIOUS
<1>3. x - 1 \in S
  BY <1>1, <1>2
<1> QED BY <1>2, <1>3

\* The same up to a number.
LEMMA StepInduction ==
    ASSUME NEW n \in Nat, NEW S, 0 \in S, \A i \in 0..(n - 1) : i \in S => i + 1 \in S
    PROVE  0..n \subseteq S
<1> DEFINE T == {i \in Nat : i <= n => i \in S}
<1>1. 0 \in T /\ \A i \in Nat : i \in T => i + 1 \in T
  OBVIOUS
<1>2. Nat \subseteq T
  <2> HIDE DEF T
  <2> QED BY <1>1, SetInduction
<1> QED BY <1>2

\* g starts at b and goes from each value to the next by the function of its
\* place.
Follows(g, n, b, step) == g[0] = b /\ \A i \in 1..n : g[i] = step[i][g[i - 1]]

\* A recursion over 0..n that stays in a set has a solution.
LEMMA StepsExist ==
    ASSUME NEW n \in Nat, NEW V, NEW b \in V, NEW step \in [1..n -> [V -> V]]
    PROVE  \E g \in [0..n -> V] : Follows(g, n, b, step)
<1> DEFINE Upto(k, g) == g[0] = b /\ \A i \in 1..k : g[i] = step[i][g[i - 1]]
           N == {k \in 0..n : \E g \in [0..n -> V] : Upto(k, g)}
<1>1. 0 \in N
  <2> DEFINE g == [i \in 0..n |-> b]
  <2>1. g \in [0..n -> V] /\ Upto(0, g)
    OBVIOUS
  <2> HIDE DEF g, Upto
  <2> QED BY <2>1
<1>2. \A k \in 0..(n - 1) : k \in N => k + 1 \in N
  <2> SUFFICES ASSUME NEW k \in 0..(n - 1), k \in N
               PROVE  k + 1 \in N
    OBVIOUS
  <2>1. PICK g \in [0..n -> V] : Upto(k, g)
    OBVIOUS
  <2> DEFINE x == step[k + 1][g[k]]
             h == [g EXCEPT ![k + 1] = x]
  <2>2. x \in V /\ h \in [0..n -> V]
    <3>1. k \in 0..n /\ k + 1 \in 1..n /\ g[k] \in V
      OBVIOUS
    <3>2. step[k + 1] \in [V -> V]
      BY <3>1
    <3>3. x \in V
      BY <3>1, <3>2
    <3> QED BY <3>3
  <2> HIDE DEF x
  <2>3. /\ h[k + 1] = x
        /\ \A i \in 0..k : h[i] = g[i]
    OBVIOUS
  <2> HIDE DEF h
  <2>4. Upto(k + 1, h)
    <3>1. h[0] = b
      BY <2>1, <2>3
    <3>2. ASSUME NEW i \in 1..(k + 1)
          PROVE  h[i] = step[i][h[i - 1]]
      <4>1. CASE i = k + 1
        <5>1. i - 1 = k /\ k \in 0..k
          BY <4>1
        <5>2. h[i - 1] = g[k]
          BY <2>3, <5>1
        <5> QED BY <2>3, <4>1, <5>2 DEF x
      <4>2. CASE i # k + 1
        <5>1. i \in 1..k /\ i \in 0..k /\ i - 1 \in 0..k
          BY <4>2
        <5> QED BY <2>1, <2>3, <5>1
      <4> QED BY <4>1, <4>2
    <3> QED BY <3>1, <3>2
  <2>5. k + 1 \in 0..n
    OBVIOUS
  <2> HIDE DEF Upto
  <2> QED BY <2>2, <2>4, <2>5
<1>3. 0..n \subseteq N
  <2> HIDE DEF N
  <2> QED BY <1>1, <1>2, StepInduction
<1>4. n \in N
  <2> HIDE DEF N
  <2> QED BY <1>3
<1> QED BY <1>4 DEF Follows

\* A nonempty set of numbers up to n has a maximum.
LEMMA IntervalMaximum ==
    ASSUME NEW n \in Nat, NEW d, d \subseteq 1..n, d # {}
    PROVE  Max(d) \in d /\ \A x \in d : x <= Max(d)
<1> DEFINE T == {n - x : x \in d}
<1>1. PICK t \in T : \A u \in T : t <= u
  <2>1. \A x \in d : n - x \in Nat
    OBVIOUS
  <2>2. T \subseteq Nat /\ T # {}
    BY <2>1
  <2> HIDE DEF T
  <2> QED BY <2>2, NatMinimum
<1>2. PICK y \in d : t = n - y
  BY <1>1
<1>3. \A x \in d : y >= x
  BY <1>1, <1>2
<1>4. \A x \in d : x \in Int
  OBVIOUS
<1> QED BY <1>2, <1>3, <1>4 DEF Max

\* A set of subsets of a finite set S that holds the empty set, and each subset
\* whose subsets with one element less it holds, holds them all.
LEMMA SubsetInduction ==
    ASSUME NEW S, IsFiniteSet(S), NEW U, {} \in U,
           \A d \in SUBSET S : (\A x \in d : d \ {x} \in U) => d \in U
    PROVE  SUBSET S \subseteq U
<1> DEFINE C == {Cardinality(d) : d \in (SUBSET S) \ U}
<1> SUFFICES ASSUME NEW c \in SUBSET S, c \notin U
             PROVE  FALSE
  OBVIOUS
<1>1. \A d \in SUBSET S : IsFiniteSet(d) /\ Cardinality(d) \in Nat
  BY FS_Subset, FS_CardinalityType
<1>2. PICK n \in C : \A m \in C : n <= m
  <2>1. C \subseteq Nat /\ C # {}
    BY <1>1
  <2> HIDE DEF C
  <2> QED BY <2>1, NatMinimum
<1>3. PICK d \in (SUBSET S) \ U : n = Cardinality(d)
  BY <1>2
<1>4. ASSUME NEW x \in d
      PROVE  d \ {x} \in U
  <2>1. Cardinality(d \ {x}) = Cardinality(d) - 1
    BY <1>1, FS_RemoveElement
  <2>2. ~(n <= Cardinality(d \ {x}))
    BY <1>1, <1>3, <2>1
  <2> QED BY <1>2, <2>2
<1>5. d \in U
  BY <1>4
<1> QED BY <1>3, <1>5

-----------------------------------------------------------------------------
(* Sums over finite sets.                                                  *)

SumOf(f, S) == MapThenSumSet(LAMBDA x : f[x], S)

\* The element a sum takes first, and what g has to be for every subset of S for
\* g[S] to be the sum.
AnyOf(d) == CHOOSE x \in d : TRUE
AddsUp(f, S, g) ==
    \A d \in SUBSET S : g[d] = IF d = {} THEN 0 ELSE f[AnyOf(d)] + g[d \ {AnyOf(d)}]

\* A finite set has such a function for every f.
LEMMA SumExists ==
    ASSUME NEW f, NEW S, IsFiniteSet(S)
    PROVE  \E g : AddsUp(f, S, g)
<1> DEFINE Upto(n, g) == \A d \in SUBSET S : Cardinality(d) <= n =>
                            g[d] = IF d = {} THEN 0 ELSE f[AnyOf(d)] + g[d \ {AnyOf(d)}]
           N == {n \in Nat : \E g : Upto(n, g)}
<1>1. \A d \in SUBSET S : IsFiniteSet(d) /\ Cardinality(d) \in Nat
  BY FS_Subset, FS_CardinalityType
<1>2. \A d \in SUBSET S : d # {} => /\ d \ {AnyOf(d)} \in SUBSET S
                                    /\ Cardinality(d \ {AnyOf(d)}) = Cardinality(d) - 1
                                    /\ Cardinality(d) # 0
  <2> SUFFICES ASSUME NEW d \in SUBSET S, d # {}
               PROVE /\ d \ {AnyOf(d)} \in SUBSET S
                     /\ Cardinality(d \ {AnyOf(d)}) = Cardinality(d) - 1
                     /\ Cardinality(d) # 0
    OBVIOUS
  <2>1. AnyOf(d) \in d
    BY DEF AnyOf
  <2> QED BY <1>1, <2>1, FS_RemoveElement, FS_EmptySet
<1>3. 0 \in N
  <2> DEFINE h == [d \in SUBSET S |-> 0]
  <2>1. ASSUME NEW d \in SUBSET S, Cardinality(d) <= 0
        PROVE  d = {}
    <3>1. Cardinality(d) \in Nat /\ (d # {} => Cardinality(d) # 0)
      BY <1>1, <1>2
    <3> QED BY <2>1, <3>1
  <2>2. Upto(0, h)
    BY <2>1
  <2> HIDE DEF h
  <2> QED BY <2>2
<1>4. ASSUME NEW n \in Nat, n \in N
      PROVE  n + 1 \in N
  <2>1. PICK g : Upto(n, g)
    BY <1>4
  <2> DEFINE h == [d \in SUBSET S |-> IF d = {} THEN 0 ELSE f[AnyOf(d)] + g[d \ {AnyOf(d)}]]
  <2>2. \A d \in SUBSET S : Cardinality(d) <= n => h[d] = g[d]
    BY <2>1
  <2>3. ASSUME NEW d \in SUBSET S, Cardinality(d) <= n + 1, d # {}
        PROVE  h[d] = f[AnyOf(d)] + h[d \ {AnyOf(d)}]
    <3>1. d \ {AnyOf(d)} \in SUBSET S /\ Cardinality(d \ {AnyOf(d)}) <= n
      BY <1>1, <1>2, <2>3
    <3>2. h[d \ {AnyOf(d)}] = g[d \ {AnyOf(d)}]
      BY <2>2, <3>1
    <3> QED BY <2>3, <3>2
  <2>4. Upto(n + 1, h)
    BY <2>3
  <2> HIDE DEF h, Upto
  <2> QED BY <2>4
<1>5. Nat \subseteq N
  <2> HIDE DEF N
  <2> QED BY <1>3, <1>4, SetInduction
<1>6. PICK g : Upto(Cardinality(S), g)
  BY <1>1, <1>5
<1>7. \A d \in SUBSET S : Cardinality(d) <= Cardinality(S)
  BY FS_Subset
<1> QED BY <1>6, <1>7 DEF AddsUp

\* The sum is what it is defined to be.
LEMMA SumIs ==
    ASSUME NEW f, NEW S, IsFiniteSet(S)
    PROVE  \E g : AddsUp(f, S, g) /\ SumOf(f, S) = g[S]
<1> DEFINE G(h) == [d \in SUBSET S |->
                      IF d = {} THEN 0
                      ELSE LET x == CHOOSE y \in d : TRUE IN f[x] + h[d \ {x}]]
           g == CHOOSE h : h = G(h)
<1>1. SumOf(f, S) = g[S]
  BY DEF SumOf, MapThenSumSet, MapThenFoldSet
<1>2. PICK h : AddsUp(f, S, h)
  BY SumExists
<1> DEFINE k == [d \in SUBSET S |-> h[d]]
<1>3. k = G(k)
  BY <1>2 DEF AddsUp, AnyOf
<1>4. g = G(g)
  <2> HIDE DEF G, k
  <2> QED BY <1>3
<1>5. AddsUp(f, S, g)
  <2> HIDE DEF g
  <2> SUFFICES ASSUME NEW d \in SUBSET S
               PROVE  g[d] = IF d = {} THEN 0 ELSE f[AnyOf(d)] + g[d \ {AnyOf(d)}]
    BY DEF AddsUp
  <2> QED BY <1>4 DEF AnyOf
<1> QED BY <1>1, <1>5

\* A sum does not depend on the set it is a part of.
LEMMA AddsUpSame ==
    ASSUME NEW f, NEW S, IsFiniteSet(S), NEW T, T \subseteq S,
           NEW g, AddsUp(f, S, g), NEW h, AddsUp(f, T, h)
    PROVE  \A d \in SUBSET T : g[d] = h[d]
<1> DEFINE U == {d \in SUBSET T : g[d] = h[d]}
<1>1. IsFiniteSet(T)
  BY FS_Subset
<1>2. {} \in U
  BY DEF AddsUp
<1>3. ASSUME NEW d \in SUBSET T, \A x \in d : d \ {x} \in U
      PROVE  d \in U
  <2>1. CASE d = {}
    BY <1>2, <2>1
  <2>2. CASE d # {}
    <3>1. AnyOf(d) \in d /\ d \in SUBSET S
      BY <2>2 DEF AnyOf
    <3>2. g[d \ {AnyOf(d)}] = h[d \ {AnyOf(d)}]
      BY <1>3, <3>1
    <3> QED BY <2>2, <3>1, <3>2 DEF AddsUp
  <2> QED BY <2>1, <2>2
<1>4. SUBSET T \subseteq U
  <2> HIDE DEF U
  <2> QED BY <1>1, <1>2, <1>3, SubsetInduction
<1> QED BY <1>4

\* Sums of integers are integers.
LEMMA AddsUpRange ==
    ASSUME NEW f, NEW S, IsFiniteSet(S), \A x \in S : f[x] \in Int,
           NEW g, AddsUp(f, S, g)
    PROVE  \A d \in SUBSET S : g[d] \in Int
<1> DEFINE U == {d \in SUBSET S : g[d] \in Int}
<1>1. {} \in U
  BY DEF AddsUp
<1>2. ASSUME NEW d \in SUBSET S, \A x \in d : d \ {x} \in U
      PROVE  d \in U
  <2>1. CASE d = {}
    BY <1>1, <2>1
  <2>2. CASE d # {}
    <3>1. AnyOf(d) \in d
      BY <2>2 DEF AnyOf
    <3>2. f[AnyOf(d)] \in Int /\ g[d \ {AnyOf(d)}] \in Int
      BY <1>2, <3>1
    <3>3. g[d] = f[AnyOf(d)] + g[d \ {AnyOf(d)}]
      BY <2>2 DEF AddsUp
    <3>4. f[AnyOf(d)] + g[d \ {AnyOf(d)}] \in Int
      BY <3>2
    <3> QED BY <3>3, <3>4, Zenon
  <2> QED BY <2>1, <2>2
<1>3. SUBSET S \subseteq U
  <2> HIDE DEF U
  <2> QED BY <1>1, <1>2, SubsetInduction
<1> QED BY <1>3

\* Any element may be the one that is added last.
LEMMA AddsUpAny ==
    ASSUME NEW f, NEW S, IsFiniteSet(S), \A x \in S : f[x] \in Int,
           NEW g, AddsUp(f, S, g)
    PROVE  \A d \in SUBSET S : \A x \in d : g[d] = f[x] + g[d \ {x}]
<1> DEFINE U == {d \in SUBSET S : \A x \in d : g[d] = f[x] + g[d \ {x}]}
<1>0. \A d \in SUBSET S : g[d] \in Int
  BY AddsUpRange
<1>1. {} \in U
  BY DEF AddsUp
<1>2. ASSUME NEW d \in SUBSET S, \A x \in d : d \ {x} \in U
      PROVE  d \in U
  <2>1. CASE d = {}
    BY <1>1, <2>1
  <2>2. CASE d # {}
    <3> DEFINE y == AnyOf(d)
    <3>1. y \in d
      BY <2>2 DEF AnyOf
    <3>2. g[d] = f[y] + g[d \ {y}]
      BY <2>2 DEF AddsUp
    <3> HIDE DEF y
    <3>3. f[y] \in Int
      BY <3>1
    <3>4. ASSUME NEW x \in d
          PROVE  g[d] = f[x] + g[d \ {x}]
      <4>1. CASE x = y
        BY <3>2, <4>1
      <4>2. CASE x # y
        <5> DEFINE r  == g[(d \ {x}) \ {y}]
                   gx == g[d \ {x}]
                   gy == g[d \ {y}]
        <5>1. gy = f[x] + r
          <6>1. gy = f[x] + g[(d \ {y}) \ {x}]
            BY <1>2, <3>1, <4>2
          <6>2. (d \ {y}) \ {x} = (d \ {x}) \ {y}
            OBVIOUS
          <6> QED BY <6>1, <6>2, Zenon
        <5>2. gx = f[y] + r
          BY <1>2, <3>1, <4>2
        <5>3. f[x] \in Int /\ r \in Int
          BY <1>0
        <5> HIDE DEF r, gx, gy
        <5>4. g[d] = f[x] + gx
          BY <3>2, <3>3, <5>1, <5>2, <5>3 DEF gy
        <5> QED BY <5>4 DEF gx
      <4> QED BY <4>1, <4>2
    <3> QED BY <3>4
  <2> QED BY <2>1, <2>2
<1>3. SUBSET S \subseteq U
  <2> HIDE DEF U
  <2> QED BY <1>1, <1>2, SubsetInduction
<1> QED BY <1>3

\* The sum over no element.
LEMMA SumEmpty ==
    ASSUME NEW f
    PROVE  SumOf(f, {}) = 0
<1>1. PICK g : AddsUp(f, {}, g) /\ SumOf(f, {}) = g[{}]
  BY SumIs, FS_EmptySet
<1> QED BY <1>1 DEF AddsUp

\* A sum of integers is one, and any element may be taken out of it.
LEMMA SumWithout ==
    ASSUME NEW f, NEW S, IsFiniteSet(S), \A x \in S : f[x] \in Int
    PROVE  /\ SumOf(f, S) \in Int
           /\ \A x \in S : SumOf(f, S) = f[x] + SumOf(f, S \ {x})
<1>1. PICK g : AddsUp(f, S, g) /\ SumOf(f, S) = g[S]
  BY SumIs
<1>2. SumOf(f, S) \in Int
  BY <1>1, AddsUpRange
<1>3. ASSUME NEW x \in S
      PROVE  SumOf(f, S) = f[x] + SumOf(f, S \ {x})
  <2> DEFINE T == S \ {x}
  <2>1. IsFiniteSet(T) /\ T \subseteq S
    BY FS_Subset
  <2> HIDE DEF T
  <2>2. PICK h : AddsUp(f, T, h) /\ SumOf(f, T) = h[T]
    BY <2>1, SumIs
  <2>3. g[T] = h[T]
    BY <1>1, <2>1, <2>2, AddsUpSame
  <2>4. g[S] = f[x] + g[T]
    BY <1>1, AddsUpAny DEF T
  <2> QED BY <1>1, <2>2, <2>3, <2>4 DEF T
<1> QED BY <1>2, <1>3

\* One more element.
LEMMA SumWith ==
    ASSUME NEW f, NEW S, IsFiniteSet(S), NEW y, y \notin S,
           \A x \in S \union {y} : f[x] \in Int
    PROVE  SumOf(f, S \union {y}) = f[y] + SumOf(f, S)
<1> DEFINE T == S \union {y}
<1>1. IsFiniteSet(T) /\ T \ {y} = S /\ y \in T
  BY FS_AddElement
<1> HIDE DEF T
<1>2. SumOf(f, T) = f[y] + SumOf(f, T \ {y})
  BY <1>1, SumWithout DEF T
<1> QED BY <1>1, <1>2 DEF T

\* A smaller function has a smaller sum.
LEMMA SumMonotonic ==
    ASSUME NEW f, NEW h, NEW S, IsFiniteSet(S),
           \A x \in S : f[x] \in Int /\ h[x] \in Int /\ f[x] <= h[x]
    PROVE  SumOf(f, S) <= SumOf(h, S)
<1> DEFINE U == {d \in SUBSET S : SumOf(f, d) <= SumOf(h, d)}
<1>1. {} \in U
  BY SumEmpty
<1>2. ASSUME NEW d \in SUBSET S, \A x \in d : d \ {x} \in U
      PROVE  d \in U
  <2>1. CASE d = {}
    BY <1>1, <2>1
  <2>2. CASE d # {}
    <3>1. PICK x : x \in d
      BY <2>2
    <3> DEFINE e == d \ {x}
    <3>2. IsFiniteSet(d) /\ IsFiniteSet(e) /\ e \subseteq d
      BY FS_Subset
    <3>3. SumOf(f, d) = f[x] + SumOf(f, e) /\ SumOf(h, d) = h[x] + SumOf(h, e)
      BY <3>1, <3>2, SumWithout
    <3>4. SumOf(f, e) <= SumOf(h, e)
      BY <1>2, <3>1
    <3>5. SumOf(f, e) \in Int /\ SumOf(h, e) \in Int
      BY <3>2, SumWithout
    <3>6. f[x] \in Int /\ h[x] \in Int /\ f[x] <= h[x]
      BY <3>1
    <3> HIDE DEF e
    <3>7. SumOf(f, d) <= SumOf(h, d)
      BY <3>3, <3>4, <3>5, <3>6
    <3> QED BY <3>7
  <2> QED BY <2>1, <2>2
<1>3. SUBSET S \subseteq U
  <2> HIDE DEF U
  <2> QED BY <1>1, <1>2, SubsetInduction
<1> QED BY <1>3

\* What is summed matters on the set only.
LEMMA SumSame ==
    ASSUME NEW f, NEW h, NEW S, IsFiniteSet(S),
           \A x \in S : f[x] \in Int /\ f[x] = h[x]
    PROVE  SumOf(f, S) = SumOf(h, S)
<1>1. SumOf(f, S) <= SumOf(h, S) /\ SumOf(h, S) <= SumOf(f, S)
  BY SumMonotonic
<1>2. SumOf(f, S) \in Int /\ SumOf(h, S) \in Int
  BY SumWithout
<1> QED BY <1>1, <1>2

\* Functions that differ in one element of the set.
LEMMA SumChange ==
    ASSUME NEW f, NEW h, NEW S, IsFiniteSet(S), NEW y \in S,
           \A x \in S : f[x] \in Int /\ h[x] \in Int,
           \A x \in S \ {y} : f[x] = h[x]
    PROVE  SumOf(h, S) = SumOf(f, S) - f[y] + h[y]
<1> DEFINE T == S \ {y}
<1>1. IsFiniteSet(T) /\ T \subseteq S
  BY FS_Subset
<1>2. SumOf(f, T) = SumOf(h, T) /\ SumOf(f, T) \in Int
  BY <1>1, SumSame, SumWithout
<1>3. SumOf(f, S) = f[y] + SumOf(f, T) /\ SumOf(h, S) = h[y] + SumOf(h, T)
  BY SumWithout
<1>4. f[y] \in Int /\ h[y] \in Int
  OBVIOUS
<1> HIDE DEF T
<1> QED BY <1>2, <1>3, <1>4

\* A sum of natural numbers is one, and no less than any of them.
LEMMA SumNat ==
    ASSUME NEW f, NEW S, IsFiniteSet(S), \A x \in S : f[x] \in Nat
    PROVE  SumOf(f, S) \in Nat /\ \A x \in S : f[x] <= SumOf(f, S)
<1> DEFINE U == {d \in SUBSET S : SumOf(f, d) \in Nat}
<1>1. {} \in U
  BY SumEmpty
<1>2. ASSUME NEW d \in SUBSET S, \A x \in d : d \ {x} \in U
      PROVE  d \in U
  <2>1. CASE d = {}
    BY <1>1, <2>1
  <2>2. CASE d # {}
    <3>1. PICK x : x \in d
      BY <2>2
    <3>2. SumOf(f, d) = f[x] + SumOf(f, d \ {x})
      BY <3>1, SumWithout, FS_Subset
    <3>3. f[x] \in Nat /\ SumOf(f, d \ {x}) \in Nat
      BY <1>2, <3>1
    <3> QED BY <3>2, <3>3
  <2> QED BY <2>1, <2>2
<1>3. SUBSET S \subseteq U
  <2> HIDE DEF U
  <2> QED BY <1>1, <1>2, SubsetInduction
<1>4. ASSUME NEW x \in S
      PROVE  f[x] <= SumOf(f, S)
  <2>1. SumOf(f, S) = f[x] + SumOf(f, S \ {x})
    BY SumWithout
  <2>2. SumOf(f, S \ {x}) \in Nat /\ f[x] \in Nat
    BY <1>3
  <2> QED BY <2>1, <2>2
<1> QED BY <1>3, <1>4

\* A part of the set has no larger a sum.
LEMMA SumSubset ==
    ASSUME NEW f, NEW S, IsFiniteSet(S), \A x \in S : f[x] \in Nat,
           NEW T, T \subseteq S
    PROVE  SumOf(f, T) <= SumOf(f, S)
<1> DEFINE U == {d \in SUBSET S : SumOf(f, T \intersect d) <= SumOf(f, d)}
<1>1. {} \in U
  <2>1. T \intersect {} = {}
    OBVIOUS
  <2>2. SumOf(f, T \intersect {}) = SumOf(f, {}) /\ SumOf(f, {}) = 0
    BY <2>1, SumEmpty
  <2> QED BY <2>2
<1>2. ASSUME NEW d \in SUBSET S, \A x \in d : d \ {x} \in U
      PROVE  d \in U
  <2>1. CASE d = {}
    BY <1>1, <2>1
  <2>2. CASE d # {}
    <3>1. PICK x : x \in d
      BY <2>2
    <3> DEFINE e == d \ {x}
               t == T \intersect d
               r == T \intersect e
    <3>2. /\ IsFiniteSet(d) /\ IsFiniteSet(e) /\ IsFiniteSet(t) /\ IsFiniteSet(r)
          /\ e \subseteq S /\ t \subseteq S /\ r \subseteq S
      BY FS_Subset
    <3>3. SumOf(f, d) = f[x] + SumOf(f, e)
      BY <3>1, <3>2, SumWithout
    <3>4. SumOf(f, r) <= SumOf(f, e)
      BY <1>2, <3>1
    <3>5. /\ SumOf(f, d) \in Nat /\ SumOf(f, e) \in Nat
          /\ SumOf(f, t) \in Nat /\ SumOf(f, r) \in Nat /\ f[x] \in Nat
      BY <3>1, <3>2, SumNat
    <3>6. IF x \in T THEN SumOf(f, t) = f[x] + SumOf(f, r) ELSE t = r
      <4>1. CASE x \in T
        <5>1. x \in t /\ t \ {x} = r
          BY <3>1, <4>1
        <5>2. \A y \in t : f[y] \in Int
          BY <3>2
        <5> HIDE DEF t, r
        <5>3. SumOf(f, t) = f[x] + SumOf(f, t \ {x})
          BY <3>2, <5>1, <5>2, SumWithout
        <5> QED BY <4>1, <5>1, <5>3
      <4>2. CASE x \notin T
        BY <4>2
      <4> QED BY <4>1, <4>2
    <3> HIDE DEF e, t, r
    <3>7. SumOf(f, t) <= SumOf(f, d)
      BY <3>3, <3>4, <3>5, <3>6
    <3> QED BY <3>7 DEF t
  <2> QED BY <2>1, <2>2
<1>3. SUBSET S \subseteq U
  <2> HIDE DEF U
  <2> QED BY <1>1, <1>2, SubsetInduction
<1>4. T \intersect S = T
  OBVIOUS
<1> QED BY <1>3, <1>4

\* A sum of numbers no larger than m is no larger than m times their number.
LEMMA SumBound ==
    ASSUME NEW f, NEW S, IsFiniteSet(S), NEW m \in Nat,
           \A x \in S : f[x] \in Nat /\ f[x] <= m
    PROVE  SumOf(f, S) <= m * Cardinality(S)
<1> DEFINE U == {d \in SUBSET S : SumOf(f, d) <= m * Cardinality(d)}
<1>1. {} \in U
  BY SumEmpty, FS_EmptySet
<1>2. ASSUME NEW d \in SUBSET S, \A x \in d : d \ {x} \in U
      PROVE  d \in U
  <2>1. CASE d = {}
    BY <1>1, <2>1
  <2>2. CASE d # {}
    <3>1. PICK x : x \in d
      BY <2>2
    <3> DEFINE e == d \ {x}
    <3>2. IsFiniteSet(d) /\ IsFiniteSet(e)
      BY FS_Subset
    <3>3. Cardinality(d) \in Nat /\ Cardinality(e) = Cardinality(d) - 1
      BY <3>1, <3>2, FS_CardinalityType, FS_RemoveElement
    <3>4. SumOf(f, d) = f[x] + SumOf(f, e)
      BY <3>1, <3>2, SumWithout
    <3>5. SumOf(f, e) <= m * Cardinality(e)
      BY <1>2, <3>1
    <3>6. SumOf(f, e) \in Nat /\ f[x] \in Nat /\ f[x] <= m
      BY <3>1, <3>2, SumNat
    <3> HIDE DEF e
    <3>7. PICK n \in Int : n = Cardinality(d)
      BY <3>3
    <3>8. m * n = m * (n - 1) + m /\ m * n \in Int /\ m * (n - 1) \in Int
      OBVIOUS
    <3>9. SumOf(f, d) <= m * n
      BY <3>3, <3>4, <3>5, <3>6, <3>7, <3>8
    <3> QED BY <3>7, <3>9
  <2> QED BY <2>1, <2>2
<1>3. SUBSET S \subseteq U
  <2> HIDE DEF U
  <2> QED BY <1>1, <1>2, SubsetInduction
<1> QED BY <1>3
=============================================================================
