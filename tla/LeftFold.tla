------------------------------ MODULE LeftFold ------------------------------
(***************************************************************************)
(* What FoldLeft computes, for an operator Op: the last of the values that *)
(* Op goes through.  A module that folds an operator of its own            *)
(* instantiates this one with it.                                          *)
(***************************************************************************)
EXTENDS Induction, Sequences, SequencesExt

CONSTANT Op(_, _)

Fold(base, s) == FoldLeft(Op, base, s)

\* The recursion behind a fold, over the subsets of the places in s.
FoldsTo(base, s, g) ==
    \A d \in SUBSET DOMAIN s :
       g[d] = IF d = {} THEN base ELSE Op(g[d \ {Max(d)}], s[Max(d)])

\* A sequence has such a function for every base.
LEMMA FoldExists ==
    ASSUME NEW base, NEW s, NEW n \in Nat, DOMAIN s = 1..n
    PROVE  \E g : FoldsTo(base, s, g)
<1> DEFINE S == 1..n
           Upto(k, g) == \A d \in SUBSET S : Cardinality(d) <= k =>
                            g[d] = IF d = {} THEN base
                                   ELSE Op(g[d \ {Max(d)}], s[Max(d)])
           N == {k \in Nat : \E g : Upto(k, g)}
<1>0. IsFiniteSet(S)
  BY FS_Interval
<1>1. \A d \in SUBSET S : IsFiniteSet(d) /\ Cardinality(d) \in Nat
  BY <1>0, FS_Subset, FS_CardinalityType
<1>2. \A d \in SUBSET S : d # {} => /\ d \ {Max(d)} \in SUBSET S
                                    /\ Cardinality(d \ {Max(d)}) = Cardinality(d) - 1
                                    /\ Cardinality(d) # 0
  <2> SUFFICES ASSUME NEW d \in SUBSET S, d # {}
               PROVE /\ d \ {Max(d)} \in SUBSET S
                     /\ Cardinality(d \ {Max(d)}) = Cardinality(d) - 1
                     /\ Cardinality(d) # 0
    OBVIOUS
  <2>1. Max(d) \in d
    BY IntervalMaximum
  <2> QED BY <1>1, <2>1, FS_RemoveElement, FS_EmptySet
<1>3. 0 \in N
  <2> DEFINE h == [d \in SUBSET S |-> base]
  <2>1. ASSUME NEW d \in SUBSET S, Cardinality(d) <= 0
        PROVE  d = {}
    <3>1. Cardinality(d) \in Nat /\ (d # {} => Cardinality(d) # 0)
      BY <1>1, <1>2
    <3> QED BY <2>1, <3>1
  <2>2. Upto(0, h)
    BY <2>1
  <2> HIDE DEF h
  <2> QED BY <2>2
<1>4. ASSUME NEW k \in Nat, k \in N
      PROVE  k + 1 \in N
  <2>1. PICK g : Upto(k, g)
    BY <1>4
  <2> DEFINE h == [d \in SUBSET S |-> IF d = {} THEN base
                                      ELSE Op(g[d \ {Max(d)}], s[Max(d)])]
  <2>2. \A d \in SUBSET S : Cardinality(d) <= k => h[d] = g[d]
    BY <2>1
  <2>3. ASSUME NEW d \in SUBSET S, Cardinality(d) <= k + 1, d # {}
        PROVE  h[d] = Op(h[d \ {Max(d)}], s[Max(d)])
    <3>1. d \ {Max(d)} \in SUBSET S /\ Cardinality(d \ {Max(d)}) <= k
      BY <1>1, <1>2, <2>3
    <3>2. h[d \ {Max(d)}] = g[d \ {Max(d)}]
      BY <2>2, <3>1
    <3> QED BY <2>3, <3>2
  <2>4. Upto(k + 1, h)
    BY <2>3
  <2> HIDE DEF h, Upto
  <2> QED BY <2>4
<1>5. Nat \subseteq N
  <2> HIDE DEF N
  <2> QED BY <1>3, <1>4, SetInduction
<1>6. PICK g : Upto(Cardinality(S), g)
  BY <1>1, <1>5
<1>7. \A d \in SUBSET S : Cardinality(d) <= Cardinality(S)
  BY <1>0, FS_Subset
<1> QED BY <1>6, <1>7 DEF FoldsTo

\* The fold is what it is defined to be.
LEMMA FoldIs ==
    ASSUME NEW base, NEW s, NEW n \in Nat, DOMAIN s = 1..n
    PROVE  \E g : FoldsTo(base, s, g) /\ Fold(base, s) = g[1..n]
<1> DEFINE G(h) == [d \in SUBSET (DOMAIN s) |->
                      IF d = {} THEN base
                      ELSE LET x == Max(d) IN Op(h[d \ {x}], s[x])]
           g == CHOOSE h : h = G(h)
<1>1. Fold(base, s) = g[DOMAIN s]
  BY DEF Fold, FoldLeft, MapThenFoldSet
<1>2. PICK h : FoldsTo(base, s, h)
  BY FoldExists
<1> DEFINE k == [d \in SUBSET (DOMAIN s) |-> h[d]]
<1>3. k = G(k)
  BY <1>2 DEF FoldsTo
<1>4. g = G(g)
  <2> HIDE DEF G, k
  <2> QED BY <1>3
<1>5. FoldsTo(base, s, g)
  <2> HIDE DEF g
  <2> SUFFICES ASSUME NEW d \in SUBSET DOMAIN s
               PROVE  g[d] = IF d = {} THEN base ELSE Op(g[d \ {Max(d)}], s[Max(d)])
    BY DEF FoldsTo
  <2> QED BY <1>4
<1> QED BY <1>1, <1>5

\* The values a fold goes through: the base, and what Op makes of the value before
\* and the element.
Passes(base, s, n, v) ==
    /\ v[0] = base
    /\ \A i \in 1..n : v[i] = Op(v[i - 1], s[i])
    /\ Fold(base, s) = v[n]

\* A fold goes through one value for each element.
THEOREM FoldSteps ==
    ASSUME NEW base, NEW s, NEW n \in Nat, DOMAIN s = 1..n
    PROVE  \E v : Passes(base, s, n, v)
<1>1. PICK g : FoldsTo(base, s, g) /\ Fold(base, s) = g[1..n]
  BY FoldIs
<1> DEFINE v == [i \in 0..n |-> g[1..i]]
<1>2. v[0] = base
  <2>1. 1..0 = {}
    OBVIOUS
  <2>2. g[{}] = base
    BY <1>1 DEF FoldsTo
  <2>3. v[0] = g[1..0]
    OBVIOUS
  <2> HIDE DEF v
  <2> QED BY <2>1, <2>2, <2>3, Zenon
<1>3. ASSUME NEW i \in 1..n
      PROVE  v[i] = Op(v[i - 1], s[i])
  <2> DEFINE d == 1..i
             e == 1..(i - 1)
  <2>1. d \in SUBSET DOMAIN s /\ d \subseteq 1..n /\ i \in d
    OBVIOUS
  <2>2. Max(d) = i
    <3>1. d # {} /\ \A x \in d : x <= i /\ x \in Int
      BY <2>1
    <3> HIDE DEF d
    <3>2. Max(d) \in d /\ i <= Max(d)
      BY <2>1, <3>1, IntervalMaximum
    <3> QED BY <3>1, <3>2
  <2>3. d \ {i} = e
    OBVIOUS
  <2>4. v[i] = g[d] /\ v[i - 1] = g[e]
    OBVIOUS
  <2> HIDE DEF d, e, v
  <2>5. g[d] = Op(g[d \ {Max(d)}], s[Max(d)])
    BY <1>1, <2>1, SMT DEF FoldsTo
  <2>6. d \ {Max(d)} = e
    BY <2>2, <2>3, Zenon
  <2> QED BY <2>2, <2>4, <2>5, <2>6, Zenon
<1>4. Fold(base, s) = v[n]
  BY <1>1
<1> HIDE DEF v
<1> QED BY <1>2, <1>3, <1>4 DEF Passes

\* A fold over no element is the base.
THEOREM FoldEmpty ==
    ASSUME NEW base
    PROVE  Fold(base, <<>>) = base
<1>1. DOMAIN <<>> = 1..0
  OBVIOUS
<1>2. \E v : Passes(base, <<>>, 0, v)
  BY <1>1, FoldSteps
<1> QED BY <1>2 DEF Passes

\* The last element is taken last.
THEOREM FoldAppend ==
    ASSUME NEW base, NEW S, NEW s \in Seq(S), NEW x \in S
    PROVE  Fold(base, Append(s, x)) = Op(Fold(base, s), x)
<1> DEFINE t == Append(s, x)
<1>1. PICK n \in Nat : n = Len(s)
  OBVIOUS
<1>2. /\ DOMAIN s = 1..n /\ DOMAIN t = 1..(n + 1)
      /\ \A i \in 1..n : t[i] = s[i]
      /\ t[n + 1] = x
  BY <1>1
<1> HIDE DEF t
<1>3. PICK v : /\ v[0] = base
               /\ \A i \in 1..n : v[i] = Op(v[i - 1], s[i])
               /\ Fold(base, s) = v[n]
  <2>1. \E v : Passes(base, s, n, v)
    BY <1>2, FoldSteps
  <2> QED BY <2>1 DEF Passes
<1>4. PICK w : /\ w[0] = base
               /\ \A i \in 1..(n + 1) : w[i] = Op(w[i - 1], t[i])
               /\ Fold(base, t) = w[n + 1]
  <2>1. n + 1 \in Nat
    BY <1>1
  <2>2. \E w : Passes(base, t, n + 1, w)
    BY <1>2, <2>1, FoldSteps
  <2> QED BY <2>2 DEF Passes
<1> DEFINE E == {i \in 0..n : v[i] = w[i]}
<1>5. 0 \in E
  BY <1>3, <1>4
<1>6. \A i \in 0..(n - 1) : i \in E => i + 1 \in E
  <2> SUFFICES ASSUME NEW i \in 0..(n - 1), i \in E
               PROVE  i + 1 \in E
    OBVIOUS
  <2>1. i + 1 \in 1..n /\ (i + 1) - 1 = i
    OBVIOUS
  <2>2. v[i + 1] = Op(v[i], s[i + 1]) /\ w[i + 1] = Op(w[i], t[i + 1])
    BY <1>3, <1>4, <2>1
  <2>3. t[i + 1] = s[i + 1] /\ v[i] = w[i]
    BY <1>2, <2>1
  <2> QED BY <2>1, <2>2, <2>3
<1>7. n \in E
  <2> HIDE DEF E
  <2>1. 0..n \subseteq E
    BY <1>5, <1>6, StepInduction
  <2> QED BY <2>1
<1>8. w[n + 1] = Op(w[n], x)
  BY <1>2, <1>4
<1> QED BY <1>3, <1>4, <1>7, <1>8 DEF t
=============================================================================
