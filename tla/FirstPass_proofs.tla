-------------------------- MODULE FirstPass_proofs --------------------------
(***************************************************************************)
(* Theorems about the first pass, for every dump, segment size, number of  *)
(* threads, memory budget and order in which the tasks end.                *)
(***************************************************************************)
EXTENDS DumpProperties, Induction, FunctionTheorems, SequenceTheorems

-----------------------------------------------------------------------------
(* Keep                                                                    *)

\* The values Keep goes through.
KeepsTo(s, T, v) ==
    /\ v[0] = <<>>
    /\ \A i \in 1..Len(s) :
         v[i] = IF s[i] \in T THEN Append(v[i - 1], s[i]) ELSE v[i - 1]

\* Keep is what it is defined to be.
LEMMA KeepIs ==
    ASSUME NEW S, NEW s \in Seq(S), NEW T
    PROVE  \E v \in [0..Len(s) -> Seq(S)] : KeepsTo(s, T, v) /\ Keep(s, T) = v[Len(s)]
<1> DEFINE n == Len(s)
           V == Seq(S)
           G(v) == [i \in 0..n |->
                      IF i = 0 THEN <<>>
                      ELSE IF s[i] \in T THEN Append(v[i - 1], s[i]) ELSE v[i - 1]]
           g == CHOOSE v : v = G(v)
           step == [i \in 1..n |-> [k \in V |->
                      IF s[i] \in T THEN Append(k, s[i]) ELSE k]]
<1>1. Keep(s, T) = g[n]
  BY DEF Keep
<1>2. n \in Nat /\ <<>> \in V /\ \A i \in 1..n : s[i] \in S
  BY ElementOfSeq
<1>3. step \in [1..n -> [V -> V]]
  <2> SUFFICES ASSUME NEW i \in 1..n, NEW k \in V
               PROVE  (IF s[i] \in T THEN Append(k, s[i]) ELSE k) \in V
    OBVIOUS
  <2>1. s[i] \in S
    BY <1>2
  <2> QED BY <2>1
<1>4. PICK v \in [0..n -> V] : Follows(v, n, <<>>, step)
  <2> DEFINE b == <<>>
  <2>1. n \in Nat /\ b \in V
    BY <1>2
  <2> HIDE DEF n, V, step, b
  <2>2. \E v \in [0..n -> V] : Follows(v, n, b, step)
    BY <1>3, <2>1, StepsExist
  <2> QED BY <2>2 DEF b
<1>5. \A i \in 1..n : v[i] = IF s[i] \in T THEN Append(v[i - 1], s[i]) ELSE v[i - 1]
  <2> SUFFICES ASSUME NEW i \in 1..n
               PROVE  v[i] = IF s[i] \in T THEN Append(v[i - 1], s[i]) ELSE v[i - 1]
    OBVIOUS
  <2>1. i - 1 \in 0..n
    BY <1>2
  <2>2. v[i - 1] \in V
    BY <1>4, <2>1
  <2>3. v[i] = step[i][v[i - 1]]
    BY <1>4 DEF Follows
  <2> QED BY <2>2, <2>3
<1>6. v = G(v)
  <2>1. ASSUME NEW i \in 0..n
        PROVE  v[i] = G(v)[i]
    <3>1. i = 0 \/ (i # 0 /\ i \in 1..n)
      BY <1>2
    <3> HIDE DEF n
    <3> QED BY <1>4, <1>5, <3>1 DEF Follows
  <2>2. DOMAIN v = 0..n /\ v = [i \in 0..n |-> v[i]]
    BY <1>4
  <2> QED BY <2>1, <2>2
<1>7. g = G(g)
  <2> HIDE DEF G
  <2> QED BY <1>6
<1>8. \A i \in 0..n : g[i] = IF i = 0 THEN <<>>
                             ELSE IF s[i] \in T THEN Append(g[i - 1], s[i]) ELSE g[i - 1]
  <2> HIDE DEF g
  <2> QED BY <1>7
<1> HIDE DEF g, G
<1> DEFINE E == {i \in 0..n : g[i] = v[i]}
<1>9. \A i \in 0..(n - 1) : i \in E => i + 1 \in E
  <2> SUFFICES ASSUME NEW i \in 0..(n - 1), g[i] = v[i]
               PROVE  i + 1 \in E
    OBVIOUS
  <2>1. i + 1 \in 1..n /\ i + 1 \in 0..n /\ (i + 1) - 1 = i /\ i + 1 # 0
    BY <1>2
  <2> QED BY <1>5, <1>8, <2>1
<1>10. 0 \in E
  BY <1>2, <1>4, <1>8 DEF Follows
<1>11. n \in E
  <2> HIDE DEF E, n
  <2>1. 0..n \subseteq E
    BY <1>2, <1>9, <1>10, StepInduction
  <2> QED BY <1>2, <2>1
<1> QED BY <1>1, <1>4, <1>5, <1>11 DEF KeepsTo, Follows

\* What goes through the values of Keep ends in it.
LEMMA KeepOf ==
    ASSUME NEW S, NEW s \in Seq(S), NEW T, NEW w, KeepsTo(s, T, w)
    PROVE  Keep(s, T) = w[Len(s)]
<1>1. PICK v \in [0..Len(s) -> Seq(S)] : KeepsTo(s, T, v) /\ Keep(s, T) = v[Len(s)]
  BY KeepIs
<1>2. PICK n \in Nat : n = Len(s)
  OBVIOUS
<1> DEFINE E == {i \in 0..n : v[i] = w[i]}
<1>3. 0 \in E
  BY <1>1, <1>2 DEF KeepsTo
<1>4. \A i \in 0..(n - 1) : i \in E => i + 1 \in E
  <2> SUFFICES ASSUME NEW i \in 0..(n - 1), v[i] = w[i]
               PROVE  i + 1 \in E
    OBVIOUS
  <2>1. i + 1 \in 1..n /\ i + 1 \in 0..n /\ (i + 1) - 1 = i
    BY <1>2
  <2> QED BY <1>1, <1>2, <2>1 DEF KeepsTo
<1>5. n \in E
  <2> HIDE DEF E
  <2>1. 0..n \subseteq E
    BY <1>3, <1>4, StepInduction
  <2> QED BY <2>1
<1> QED BY <1>1, <1>2, <1>5

\* Nothing is kept of nothing.
LEMMA KeepEmpty == ASSUME NEW T PROVE Keep(<<>>, T) = <<>>
<1> DEFINE w == [i \in {0} |-> <<>>]
<1>1. KeepsTo(<<>>, T, w)
  BY DEF KeepsTo
<1>2. <<>> \in Seq({})
  OBVIOUS
<1>3. Keep(<<>>, T) = w[Len(<<>>)]
  <2> HIDE DEF w
  <2> QED BY <1>1, <1>2, KeepOf
<1> QED BY <1>3

\* What is kept of two sequences, one after the other.
LEMMA KeepConcat ==
    ASSUME NEW S, NEW s \in Seq(S), NEW t \in Seq(S), NEW T
    PROVE  Keep(s \o t, T) = Keep(s, T) \o Keep(t, T)
<1>1. PICK v \in [0..Len(s) -> Seq(S)] : KeepsTo(s, T, v) /\ Keep(s, T) = v[Len(s)]
  BY KeepIs
<1>2. PICK u \in [0..Len(t) -> Seq(S)] : KeepsTo(t, T, u) /\ Keep(t, T) = u[Len(t)]
  BY KeepIs
<1>3. PICK n \in Nat, m \in Nat : n = Len(s) /\ m = Len(t)
  OBVIOUS
<1> DEFINE st == s \o t
           w == [i \in 0..(n + m) |-> IF i <= n THEN v[i] ELSE v[n] \o u[i - n]]
<1>4. /\ st \in Seq(S) /\ Len(st) = n + m
      /\ \A i \in 1..n : st[i] = s[i]
      /\ \A i \in (n + 1)..(n + m) : st[i] = t[i - n]
  BY <1>3, ConcatProperties
<1>5. \A i \in 0..n : v[i] \in Seq(S)
  BY <1>1, <1>3
<1>6. \A i \in 0..m : u[i] \in Seq(S)
  BY <1>2, <1>3
<1> HIDE DEF st
<1>7. v[n] \o u[0] = v[n]
  <2>1. u[0] = <<>> /\ v[n] \in Seq(S)
    BY <1>2, <1>3, <1>5 DEF KeepsTo
  <2> QED BY <2>1, ConcatEmptySeq
<1>8. ASSUME NEW i \in 1..(n + m)
      PROVE  w[i] = IF st[i] \in T THEN Append(w[i - 1], st[i]) ELSE w[i - 1]
  <2>0. i \in Int /\ n \in Int /\ m \in Int /\ 1 <= i /\ i <= n + m
    BY <1>3
  <2>1. CASE i <= n
    <3>1. i \in 1..n /\ w[i] = v[i] /\ w[i - 1] = v[i - 1] /\ st[i] = s[i]
      BY <1>4, <2>0, <2>1
    <3> QED BY <1>1, <1>3, <3>1 DEF KeepsTo
  <2>2. CASE ~(i <= n)
    <3> DEFINE j == i - n
    <3>0. i \in (n + 1)..(n + m) /\ j \in 1..m /\ i \in 0..(n + m)
      BY <2>0, <2>2
    <3>01. w[i] = v[n] \o u[j]
      BY <2>2, <3>0
    <3>02. st[i] = t[j]
      BY <1>4, <3>0
    <3>1. j \in 1..m /\ w[i] = v[n] \o u[j] /\ st[i] = t[j]
      BY <3>0, <3>01, <3>02
    <3>2. w[i - 1] = v[n] \o u[j - 1]
      <4>1. CASE i = n + 1
        <5>1. i - 1 = n /\ j - 1 = 0 /\ n \in 0..(n + m) /\ n <= n
          BY <2>0, <4>1
        <5>2. w[n] = v[n]
          BY <5>1
        <5> HIDE DEF w, j
        <5> QED BY <1>7, <5>1, <5>2
      <4>2. CASE i # n + 1
        <5>1. i - 1 \in 0..(n + m) /\ ~(i - 1 <= n) /\ (i - 1) - n = j - 1
          BY <2>0, <2>2, <4>2
        <5>2. w[i - 1] = v[n] \o u[(i - 1) - n]
          BY <5>1
        <5> HIDE DEF w, j
        <5> QED BY <5>1, <5>2
      <4> QED BY <4>1, <4>2
    <3>3. u[j] = IF t[j] \in T THEN Append(u[j - 1], t[j]) ELSE u[j - 1]
      BY <1>2, <1>3, <3>1 DEF KeepsTo
    <3>4. u[j - 1] \in Seq(S) /\ v[n] \in Seq(S) /\ t[j] \in S
      <4>1. j - 1 \in 0..m /\ n \in 0..n
        BY <1>3, <3>1
      <4>2. t[j] \in S
        BY <1>3, <3>1, ElementOfSeq
      <4> QED BY <1>5, <1>6, <4>1, <4>2
    <3> HIDE DEF w, j
    <3>5. v[n] \o Append(u[j - 1], t[j]) = Append(v[n] \o u[j - 1], t[j])
      <4> DEFINE a == v[n]
                 b == u[j - 1]
                 e == t[j]
      <4>1. a \in Seq(S) /\ b \in Seq(S) /\ e \in S
        BY <3>4
      <4> HIDE DEF a, b, e
      <4>2. a \o Append(b, e) = Append(a \o b, e)
        <5>1. <<e>> \in Seq(S) /\ b \o <<e>> = Append(b, e) /\ a \o b \in Seq(S)
          BY <4>1, AppendIsConcat, ConcatProperties
        <5>2. (a \o b) \o <<e>> = Append(a \o b, e)
          BY <4>1, <5>1, AppendIsConcat
        <5>3. (a \o b) \o <<e>> = a \o (b \o <<e>>)
          BY ONLY <4>1, <5>1
        <5> QED BY <5>1, <5>2, <5>3
      <4> QED BY <4>2 DEF a, b, e
    <3> QED BY <3>1, <3>2, <3>3, <3>5
  <2> QED BY <2>1, <2>2
<1>9. w[0] = <<>>
  BY <1>1, <1>3 DEF KeepsTo
<1>10. KeepsTo(st, T, w)
  <2> HIDE DEF w
  <2> QED BY <1>4, <1>8, <1>9 DEF KeepsTo
<1>11. Keep(st, T) = w[n + m]
  <2> HIDE DEF w
  <2> QED BY <1>4, <1>10, KeepOf
<1>12. w[n + m] = v[n] \o u[m]
  <2>1. CASE m = 0
    <3>1. w[n + m] = v[n] /\ u[m] = u[0]
      BY <1>3, <2>1
    <3> HIDE DEF w
    <3> QED BY <1>7, <3>1
  <2>2. CASE m # 0
    BY <1>3, <2>2
  <2> QED BY <2>1, <2>2
<1> QED BY <1>1, <1>2, <1>3, <1>11, <1>12 DEF st

\* What is kept of one more element.
LEMMA KeepAppend ==
    ASSUME NEW S, NEW s \in Seq(S), NEW x \in S, NEW T
    PROVE  Keep(Append(s, x), T) = IF x \in T THEN Append(Keep(s, T), x) ELSE Keep(s, T)
<1>1. PICK v \in [0..Len(s) -> Seq(S)] : KeepsTo(s, T, v) /\ Keep(s, T) = v[Len(s)]
  BY KeepIs
<1>2. PICK n \in Nat : n = Len(s)
  OBVIOUS
<1> DEFINE t == Append(s, x)
           w == [i \in 0..(n + 1) |->
                   IF i <= n THEN v[i] ELSE IF x \in T THEN Append(v[n], x) ELSE v[n]]
<1>3. /\ t \in Seq(S) /\ Len(t) = n + 1 /\ t[n + 1] = x
      /\ \A i \in 1..n : t[i] = s[i]
  BY <1>2
<1> HIDE DEF t
<1>4. KeepsTo(t, T, w)
  <2>1. w[0] = <<>>
    BY <1>1, <1>2 DEF KeepsTo
  <2>2. ASSUME NEW i \in 1..(n + 1)
        PROVE  w[i] = IF t[i] \in T THEN Append(w[i - 1], t[i]) ELSE w[i - 1]
    <3>1. CASE i = n + 1
      <4>1. w[i - 1] = v[n] /\ w[i] = IF x \in T THEN Append(v[n], x) ELSE v[n]
        BY <1>2, <3>1
      <4> QED BY <1>3, <3>1, <4>1
    <3>2. CASE i # n + 1
      <4>1. i \in 1..n /\ w[i] = v[i] /\ w[i - 1] = v[i - 1]
        BY <1>2, <3>2
      <4> QED BY <1>1, <1>2, <1>3, <4>1 DEF KeepsTo
    <3> QED BY <3>1, <3>2
  <2> HIDE DEF w
  <2> QED BY <1>3, <2>1, <2>2 DEF KeepsTo
<1>5. Keep(t, T) = w[n + 1]
  <2> HIDE DEF w
  <2> QED BY <1>3, <1>4, KeepOf
<1>6. w[n + 1] = IF x \in T THEN Append(v[n], x) ELSE v[n]
  BY <1>2
<1> QED BY <1>1, <1>2, <1>5, <1>6 DEF t

\* Sets that agree on a sequence keep the same of it.
LEMMA KeepSame ==
    ASSUME NEW S, NEW s \in Seq(S), NEW T, NEW U,
           \A i \in 1..Len(s) : s[i] \in T <=> s[i] \in U
    PROVE  Keep(s, T) = Keep(s, U)
<1>1. PICK v \in [0..Len(s) -> Seq(S)] : KeepsTo(s, T, v) /\ Keep(s, T) = v[Len(s)]
  BY KeepIs
<1>2. KeepsTo(s, U, v)
  BY <1>1 DEF KeepsTo
<1> QED BY <1>1, <1>2, KeepOf

\* The places in s of what was kept of it: in order, and every one that counts.
IsPlaces(s, T, k, n, p) ==
    /\ \A i \in 1..Len(k) : /\ p[i] \in 1..n /\ k[i] = s[p[i]] /\ s[p[i]] \in T
                            /\ \A j \in 1..Len(k) : i < j => p[i] < p[j]
    /\ \A m \in 1..n : s[m] \in T => \E i \in 1..Len(k) : p[i] = m

LEMMA KeepPlaces ==
    ASSUME NEW S, NEW s \in Seq(S), NEW T
    PROVE  /\ Keep(s, T) \in Seq(S)
           /\ \E p : IsPlaces(s, T, Keep(s, T), Len(s), p)
<1>1. PICK v \in [0..Len(s) -> Seq(S)] : KeepsTo(s, T, v) /\ Keep(s, T) = v[Len(s)]
  BY KeepIs
<1>2. PICK n \in Nat : n = Len(s)
  OBVIOUS
<1> DEFINE E == {i \in 0..n : \E p : IsPlaces(s, T, v[i], i, p)}
<1>3. 0 \in E
  <2>1. v[0] = <<>>
    BY <1>1 DEF KeepsTo
  <2>2. IsPlaces(s, T, <<>>, 0, <<>>)
    BY DEF IsPlaces
  <2> QED BY <1>2, <2>1, <2>2
<1>4. \A i \in 0..(n - 1) : i \in E => i + 1 \in E
  <2> SUFFICES ASSUME NEW i \in 0..(n - 1), NEW p, IsPlaces(s, T, v[i], i, p)
               PROVE  \E q : IsPlaces(s, T, v[i + 1], i + 1, q)
    <3>1. \A i \in 0..(n - 1) : i + 1 \in 0..n
      BY <1>2
    <3> QED BY <3>1
  <2>1. /\ i + 1 \in 1..n /\ (i + 1) - 1 = i /\ i \in 0..n
        /\ v[i] \in Seq(S)
        /\ v[i + 1] = IF s[i + 1] \in T THEN Append(v[i], s[i + 1]) ELSE v[i]
    <3>1. i + 1 \in 1..n /\ (i + 1) - 1 = i /\ i \in 0..n
      BY <1>2
    <3> QED BY <1>1, <1>2, <3>1 DEF KeepsTo
  <2>2. PICK k \in Seq(S) : k = v[i]
    BY <2>1
  <2>3. PICK l \in Nat : l = Len(k)
    BY <2>2
  <2>4. /\ \A a \in 1..l : /\ p[a] \in 1..i /\ k[a] = s[p[a]] /\ s[p[a]] \in T
                           /\ \A b \in 1..l : a < b => p[a] < p[b]
        /\ \A m \in 1..i : s[m] \in T => \E a \in 1..l : p[a] = m
    BY <2>2, <2>3 DEF IsPlaces
  <2>5. CASE s[i + 1] \in T
    <3> DEFINE e == s[i + 1]
               q == [a \in 1..(l + 1) |-> IF a <= l THEN p[a] ELSE i + 1]
               t == Append(k, e)
    <3>1. /\ Len(t) = l + 1 /\ t[l + 1] = e
          /\ \A a \in 1..l : t[a] = k[a]
      BY <2>2, <2>3
    <3>2. \A a \in 1..l : q[a] = p[a]
      BY <2>3
    <3>3. q[l + 1] = i + 1
      BY <2>3
    <3> HIDE DEF q, t
    <3>4. ASSUME NEW a \in 1..(l + 1)
          PROVE  /\ q[a] \in 1..(i + 1) /\ t[a] = s[q[a]] /\ s[q[a]] \in T
                 /\ \A b \in 1..(l + 1) : a < b => q[a] < q[b]
      <4>1. CASE a = l + 1
        <5>1. \A b \in 1..(l + 1) : ~(a < b)
          BY <2>3, <4>1
        <5>2. i + 1 \in 1..(i + 1)
          BY <2>1
        <5> QED BY <2>5, <3>1, <3>3, <4>1, <5>1, <5>2
      <4>2. CASE a # l + 1
        <5>1. a \in 1..l
          BY <2>3, <4>2
        <5>2. q[a] \in 1..i /\ q[a] \in 1..(i + 1) /\ q[a] < i + 1
          <6>1. q[a] = p[a] /\ p[a] \in 1..i
            BY <2>4, <3>2, <5>1
          <6> QED BY <2>1, <6>1
        <5>3. t[a] = s[q[a]] /\ s[q[a]] \in T
          BY <2>4, <3>1, <3>2, <5>1
        <5>4. ASSUME NEW b \in 1..(l + 1), a < b
              PROVE  q[a] < q[b]
          <6>1. CASE b = l + 1
            BY <3>3, <5>2, <6>1
          <6>2. CASE b # l + 1
            <7>1. b \in 1..l
              BY <2>3, <6>2
            <7> QED BY <2>4, <3>2, <5>1, <5>4, <7>1
          <6> QED BY <6>1, <6>2
        <5> QED BY <5>2, <5>3, <5>4
      <4> QED BY <4>1, <4>2
    <3>5. ASSUME NEW m \in 1..(i + 1), s[m] \in T
          PROVE  \E a \in 1..(l + 1) : q[a] = m
      <4>1. CASE m = i + 1
        <5>1. l + 1 \in 1..(l + 1)
          BY <2>3
        <5> QED BY <3>3, <4>1, <5>1
      <4>2. CASE m # i + 1
        <5>1. m \in 1..i
          BY <2>1, <4>2
        <5>2. PICK a \in 1..l : p[a] = m
          BY <2>4, <3>5, <5>1
        <5>3. a \in 1..(l + 1)
          BY <2>3
        <5> QED BY <3>2, <5>2, <5>3
      <4> QED BY <4>1, <4>2
    <3>6. IsPlaces(s, T, t, i + 1, q)
      BY <3>1, <3>4, <3>5 DEF IsPlaces
    <3>7. t = v[i + 1]
      BY <2>1, <2>2, <2>5 DEF t
    <3> QED BY <3>6, <3>7
  <2>6. CASE s[i + 1] \notin T
    <3>1. ASSUME NEW m \in 1..(i + 1), s[m] \in T
          PROVE  \E a \in 1..l : p[a] = m
      <4>0. m # i + 1 /\ i \in Int
        BY <2>6, <3>1
      <4>1. m \in 1..i
        BY <4>0
      <4> QED BY <2>4, <3>1, <4>1
    <3>2. \A a \in 1..l : p[a] \in 1..(i + 1)
      <4>1. \A a \in 1..l : p[a] \in 1..i
        BY <2>4
      <4>2. \A m \in 1..i : m \in 1..(i + 1)
        BY <2>1
      <4> QED BY ONLY <4>1, <4>2
    <3>3. IsPlaces(s, T, k, i + 1, p)
      BY <2>3, <2>4, <3>1, <3>2 DEF IsPlaces
    <3> QED BY <2>1, <2>2, <2>6, <3>3
  <2> QED BY <2>5, <2>6
<1>5. n \in E
  <2> HIDE DEF E
  <2>1. 0..n \subseteq E
    BY <1>3, <1>4, StepInduction
  <2> QED BY <2>1
<1>6. n \in 0..n
  BY <1>2
<1>7. v[n] \in Seq(S)
  BY <1>1, <1>2, <1>6
<1> QED BY <1>1, <1>2, <1>5, <1>7

-----------------------------------------------------------------------------
(* The scan and the order of the merge                                     *)

Heapish     == {r \in Range(file.records) : r.tag = "Heap"}
AsHeaps(rs) == [i \in DOMAIN rs |-> [start |-> rs[i].at, length |-> rs[i].size,
                                     subs |-> rs[i].subs]]

\* A trace lists its frames.
LEMMA TraceFrames ==
    ASSUME NEW f \in Files, NEW i \in DOMAIN f.records, f.records[i].tag = "Trace"
    PROVE  f.records[i].frames
             \in Seq({f.records[i].frames[j] : j \in DOMAIN f.records[i].frames})
BY FilesAssumption

\* What was scanned lies before what is next, and the bar shows no more of it
\* than the reader has passed.
ScanInv ==
    /\ file \in Files
    /\ next \in 1..(Len(file.records) + 1)
    /\ phase # "scan" => next = Len(file.records) + 1
    /\ ranges = AsHeaps(Keep(SubSeq(file.records, 1, next - 1), Heapish))
    /\ position \in Nat /\ shown \in Nat /\ shown <= position
    /\ phase # "scan" => shown = position
    /\ position <= IF next <= Len(file.records) THEN file.records[next].at
                   ELSE IF phase = "scan" THEN RecordsEnd(file) ELSE file.length
    /\ barDown = FALSE

\* The records taken and not merged are those whose task runs or has sent its
\* result; without tasks there are none.
OrderInv ==
    /\ merged \in Nat /\ taken \in Nat /\ arrived \in Seq(Nat)
    /\ merged <= taken /\ taken <= Len(ranges)
    /\ running \cup Range(arrived) = (merged + 1)..taken
    /\ phase = "scan" => taken = 0
    /\ phase \notin {"scan", "extract"} => merged = Len(ranges)
    /\ ~Parallel => merged = taken

BytesInv == bytesDone = SumBytes(1, merged)

\* The layout of a file, by what is assumed of it.
LEMMA Layout ==
    ASSUME NEW f \in Files
    PROVE  /\ f.length \in Nat
           /\ f.records \in Seq(Range(f.records))
           /\ Len(f.records) \in Nat /\ DOMAIN f.records = 1..Len(f.records)
           /\ \A i \in 1..Len(f.records) :
                /\ f.records[i] \in Range(f.records)
                /\ f.records[i].at \in Nat /\ f.records[i].size \in Nat
                /\ f.records[i].at + f.records[i].size <= f.length
                /\ i < Len(f.records) =>
                     f.records[i].at + f.records[i].size <= f.records[i + 1].at
                /\ f.records[i].tag = "Heap" => Placed(f.records[i])
<1>1. Range(f.records) = {f.records[i] : i \in DOMAIN f.records}
  BY DEF Range
<1>2. f.records \in Seq(Range(f.records)) /\ f.length \in Nat
  BY <1>1, FilesAssumption
<1>3. Len(f.records) \in Nat /\ DOMAIN f.records = 1..Len(f.records)
  BY <1>2
<1>4. ASSUME NEW i \in 1..Len(f.records)
      PROVE  /\ f.records[i] \in Range(f.records)
             /\ f.records[i].at \in Nat /\ f.records[i].size \in Nat
             /\ f.records[i].at + f.records[i].size <= f.length
             /\ i < Len(f.records) =>
                  f.records[i].at + f.records[i].size <= f.records[i + 1].at
             /\ f.records[i].tag = "Heap" => Placed(f.records[i])
  BY <1>1, <1>3, <1>4, FilesAssumption
<1> QED BY <1>2, <1>3, <1>4

LateFrame == UNCHANGED <<file, next, ranges, attempted, indexed, position, shown, barDown,
                         extractVars>>

\* What a step is: one of the scan, one of the extraction, or one after both.
LEMMA StepShape ==
    ASSUME [Next]_engineVars
    PROVE  \/ NextScan /\ UNCHANGED <<extractVars, resolveVars, threadCache>>
           \/ NextExtraction /\ UNCHANGED <<resolveVars, threadCache>>
           \/ /\ phase \notin {"scan", "extract"} /\ phase' \notin {"scan", "extract"}
              /\ LateFrame
           \/ UNCHANGED engineVars
<1>1. CASE NextResolution
  BY <1>1 DEF NextResolution, Assemble, Correlate, Round0, Round1, Round2, CheckClass,
     FinishPass, EndRounds, ToRound, RoundConst, scanConst, LateFrame, extractVars,
     resolveVars, RunBatchRound
<1>2. CASE ResolveThread \/ GetLocals \/ ExpandObject \/ GetStatics \/ ListThreads
  BY <1>2 DEF ResolveThread, GetLocals, ExpandObject, GetStatics, ListThreads, Open,
     scanConst, LateFrame
<1> QED BY <1>1, <1>2 DEF Next

\* One more heap record.
LEMMA AsHeapsAppend ==
    ASSUME NEW R, NEW s \in Seq(R), NEW x \in R
    PROVE  AsHeaps(Append(s, x)) =
             Append(AsHeaps(s), [start |-> x.at, length |-> x.size, subs |-> x.subs])
BY DEF AsHeaps

\* One more record scanned: what it adds to the heap records.
LEMMA HeapsGrow ==
    ASSUME NEW f \in Files, NEW k \in 1..Len(f.records), NEW H, H \subseteq Range(f.records)
    PROVE  AsHeaps(Keep(SubSeq(f.records, 1, k), H)) =
             IF f.records[k] \in H
             THEN Append(AsHeaps(Keep(SubSeq(f.records, 1, k - 1), H)),
                         [start |-> f.records[k].at, length |-> f.records[k].size,
                          subs |-> f.records[k].subs])
             ELSE AsHeaps(Keep(SubSeq(f.records, 1, k - 1), H))
<1> DEFINE s == SubSeq(f.records, 1, k - 1)
           x == f.records[k]
           R == Range(f.records)
<1>1. f.records \in Seq(R) /\ x \in R
  BY Layout
<1>2. s \in Seq(R)
  <2>1. \A i \in 1..(k - 1) : f.records[i] \in R
    BY <1>1, Layout
  <2> QED BY <2>1, SubSeqProperties
<1>3. SubSeq(f.records, 1, k) = Append(s, x)
  <2>1. 1 \in 1..Len(f.records) /\ k \in 1..Len(f.records) /\ Len(f.records) \in Nat
    BY Layout
  <2>2. SubSeq(f.records, 1, k) = s \o <<x>>
    BY <1>1, <2>1, SubSeqRecursiveSecond
  <2> HIDE DEF s, x
  <2> QED BY <1>1, <1>2, <2>2, AppendIsConcat
<1>4. Keep(Append(s, x), H) = IF x \in H THEN Append(Keep(s, H), x) ELSE Keep(s, H)
  <2> HIDE DEF s, x, R
  <2> QED BY <1>1, <1>2, KeepAppend
<1>5. Keep(s, H) \in Seq(R)
  <2> HIDE DEF s, R
  <2> QED BY <1>2, KeepPlaces
<1>6. AsHeaps(Append(Keep(s, H), x)) =
        Append(AsHeaps(Keep(s, H)), [start |-> x.at, length |-> x.size, subs |-> x.subs])
  <2> HIDE DEF s, R, x
  <2> QED BY <1>1, <1>5, AsHeapsAppend
<1>7. CASE x \in H
  <2> DEFINE k0 == Keep(s, H)
  <2> HIDE DEF x, k0
  <2>1. AsHeaps(Keep(SubSeq(f.records, 1, k), H)) = AsHeaps(Append(k0, x))
    BY <1>3, <1>4, <1>7 DEF k0
  <2>2. AsHeaps(Keep(SubSeq(f.records, 1, k), H)) =
          Append(AsHeaps(k0), [start |-> x.at, length |-> x.size, subs |-> x.subs])
    BY <1>6, <2>1 DEF k0
  <2> QED BY <1>7, <2>2 DEF k0, x
<1>8. CASE x \notin H
  BY <1>3, <1>4, <1>8
<1> QED BY <1>7, <1>8

\* Nothing is scanned yet.
LEMMA ScanInit == Init => ScanInv
<1> SUFFICES ASSUME Init PROVE ScanInv
  OBVIOUS
<1> USE DEF Init, InitScan
<1>1. file \in Files /\ Len(file.records) \in Nat
  BY Layout
<1>2. SubSeq(file.records, 1, next - 1) = <<>>
  BY SubSeqEmpty
<1>3. AsHeaps(Keep(<<>>, Heapish)) = <<>>
  BY KeepEmpty DEF AsHeaps
<1>4. 0 <= IF next <= Len(file.records) THEN file.records[next].at
           ELSE IF phase = "scan" THEN RecordsEnd(file) ELSE file.length
  BY Layout DEF RecordsEnd
<1>5. next \in 1..(Len(file.records) + 1) /\ position \in Nat /\ shown \in Nat
      /\ shown <= position
  BY <1>1
<1> QED BY <1>1, <1>2, <1>3, <1>4, <1>5 DEF ScanInv

\* A step of the scan reads on, and the bar follows it.
LEMMA ScanAdvance ==
    ASSUME ScanInv, Scanning, Advance,
           ranges' = IF Record.tag = "Heap"
                     THEN Append(ranges, [start |-> Record.at, length |-> Record.size,
                                          subs |-> Record.subs])
                     ELSE ranges
    PROVE  ScanInv'
<1>1. file \in Files /\ file' = file /\ next \in 1..Len(file.records)
  BY DEF ScanInv, Scanning, Advance
<1>2. PICK n \in Nat : n = Len(file.records)
  BY <1>1, Layout
<1>3. /\ Record \in Range(file.records) /\ Record.at \in Nat /\ Record.size \in Nat
      /\ Record.at + Record.size <= file.length
      /\ next < Len(file.records) => Record.at + Record.size <= file.records[next + 1].at
  BY <1>1, Layout DEF Record
<1>4. position <= Record.at /\ shown <= position /\ shown \in Nat /\ position \in Nat
  BY <1>1, <1>2 DEF ScanInv, Record
<1>5. /\ next' = next + 1 /\ position' = Record.at + Record.size /\ phase' = phase
      /\ phase = "scan"
  BY DEF Advance, Scanning
<1>6. shown' \in Nat /\ shown' <= position' /\ barDown' = FALSE
  <2>1. ~(Record.at + Record.size < shown) /\ Record.at + Record.size \in Nat
        /\ shown <= Record.at + Record.size
    BY <1>3, <1>4
  <2>2. barDown = FALSE
    BY DEF ScanInv
  <2>3. (shown' = Record.at + Record.size \/ shown' = shown) /\ barDown' = FALSE
    BY <2>1, <2>2 DEF Advance, MaybeReport, Tell
  <2> QED BY <1>4, <1>5, <2>1, <2>3
<1>7. ranges' = AsHeaps(Keep(SubSeq(file.records, 1, next), Heapish))
  <2>1. Record \in Heapish <=> Record.tag = "Heap"
    BY <1>3 DEF Heapish
  <2>2. Heapish \subseteq Range(file.records)
    BY DEF Heapish
  <2>3. ranges = AsHeaps(Keep(SubSeq(file.records, 1, next - 1), Heapish))
    BY DEF ScanInv
  <2> QED BY <1>1, <2>1, <2>2, <2>3, HeapsGrow DEF Record
<1>8. (next' - 1) = next /\ next' \in 1..(n + 1)
  BY <1>1, <1>2, <1>5
<1>9. Heapish' = Heapish
  BY <1>1 DEF Heapish
<1>10. position' <= IF next' <= Len(file.records) THEN file.records[next'].at
                    ELSE RecordsEnd(file)
  BY <1>1, <1>2, <1>3, <1>5 DEF RecordsEnd, Record
<1>11. position' \in Nat
  BY <1>3, <1>5
<1> QED BY <1>1, <1>2, <1>5, <1>6, <1>7, <1>8, <1>9, <1>10, <1>11 DEF ScanInv

\* Where the reader gives up on the tail lies in the file and not before it.
LEMMA TornInFile ==
    ASSUME file \in Files, position \in Nat, position <= RecordsEnd(file),
           NEW p \in TornAt
    PROVE  p \in Nat /\ position <= p /\ p <= file.length
<1>1. file.length \in Nat /\ RecordsEnd(file) \in Nat /\ RecordsEnd(file) <= file.length
  BY Layout DEF RecordsEnd
<1>2. CASE file.tail = "clean"
  BY <1>1, <1>2 DEF TornAt
<1>3. CASE file.tail = "payload"
  <2>1. file.length - RecordsEnd(file) >= 9
    BY <1>3, FilesAssumption DEF HeaderSize
  <2>2. p = position + 9
    BY <1>3 DEF TornAt, HeaderSize
  <2> QED BY <1>1, <2>1, <2>2
<1>4. CASE file.tail = "header"
  <2>1. file.length - RecordsEnd(file) \in 1..HeaderSize - 1
    BY <1>4, FilesAssumption
  <2>2. p \in {position + IF position + 5 <= file.length THEN 5 ELSE 1, file.length}
    BY <1>4 DEF TornAt
  <2> QED BY <1>1, <2>1, <2>2 DEF HeaderSize
<1>5. file.tail \in {"clean", "payload", "header"}
  BY FilesAssumption
<1> QED BY <1>2, <1>3, <1>4, <1>5

\* Only the scan moves what ScanInv is about.
LEMMA ScanStep == ScanInv /\ [Next]_engineVars => ScanInv'
<1> SUFFICES ASSUME ScanInv, [Next]_engineVars PROVE ScanInv'
  OBVIOUS
<1>1. CASE ScanHeap
  BY <1>1, ScanAdvance DEF ScanHeap
<1>2. CASE ScanOther
  BY <1>2, ScanAdvance DEF ScanOther
<1>3. CASE ScanKnown
  BY <1>3, ScanAdvance DEF ScanKnown, Known
<1>4. CASE ScanEnd
  <2>1. file \in Files /\ file.length \in Nat /\ Len(file.records) \in Nat
    BY Layout DEF ScanInv
  <2>2. position <= RecordsEnd(file) /\ next = Len(file.records) + 1
    BY <1>4, <2>1 DEF ScanInv, ScanEnd
  <2>3. PICK p \in TornAt : position' = p /\ Tell(p)
    BY <1>4 DEF ScanEnd
  <2>4. position' \in Nat /\ shown' = position' /\ position' <= file.length
        /\ barDown' = FALSE
    <3>1. p \in Nat /\ ~(p < shown) /\ p <= file.length
      BY <2>1, <2>2, <2>3, TornInFile DEF ScanInv
    <3>2. barDown = FALSE
      BY DEF ScanInv
    <3> QED BY <2>3, <3>1, <3>2 DEF Tell
  <2>5. UNCHANGED <<file, next, ranges>> /\ phase' = "extract"
    BY <1>4 DEF ScanEnd
  <2> QED BY <2>1, <2>2, <2>4, <2>5 DEF ScanInv, Heapish
<1>5. CASE UNCHANGED scanConst /\ (phase' = "scan" <=> phase = "scan")
  BY <1>5 DEF scanConst, ScanInv, Heapish
<1>6. CASE NextExtraction
  <2>1. UNCHANGED scanConst /\ phase # "scan" /\ phase' # "scan"
    BY <1>6 DEF NextExtraction, ExtractNext, StartBatch, FinishTask, MergeNext,
       EndExtraction, Extracting, scanVars, scanConst
  <2> QED BY <1>5, <2>1
<1>7. CASE UNCHANGED engineVars
  BY <1>5, <1>7 DEF engineVars, scanVars, scanConst
<1> QED BY <1>1, <1>2, <1>3, <1>4, <1>5, <1>6, <1>7, StepShape
        DEF NextScan, LateFrame, scanConst

\* Things that lie each before the next lie each before every later one.
LEMMA Apart ==
    ASSUME NEW n \in Nat, NEW a \in [1..n -> Nat], NEW b \in [1..n -> Nat],
           \A i \in 1..n : a[i] <= b[i] /\ (i < n => b[i] <= a[i + 1])
    PROVE  \A i \in 1..n : \A j \in 1..n : i < j => b[i] <= a[j]
<1> DEFINE E == {k \in 0..n : \A i \in 1..k : i < k => b[i] <= a[k]}
<1>1. 0 \in E
  OBVIOUS
<1>2. \A k \in 0..(n - 1) : k \in E => k + 1 \in E
  <2> SUFFICES ASSUME NEW k \in 0..(n - 1), k \in E
               PROVE  k + 1 \in E
    OBVIOUS
  <2>1. ASSUME NEW i \in 1..(k + 1), i < k + 1
        PROVE  b[i] <= a[k + 1]
    <3>1. i \in 1..k /\ k \in 1..n /\ i \in 1..n /\ k < n /\ k + 1 \in 1..n
      BY <2>1
    <3>2. b[k] <= a[k + 1] /\ a[k] <= b[k]
      BY <3>1
    <3>3. i = k \/ b[i] <= a[k]
      BY <3>1
    <3>4. b[i] \in Nat /\ a[k] \in Nat /\ b[k] \in Nat /\ a[k + 1] \in Nat
      BY <3>1
    <3> QED BY ONLY <3>2, <3>3, <3>4
  <2> QED BY <2>1
<1>3. 0..n \subseteq E
  <2> HIDE DEF E
  <2> QED BY <1>1, <1>2, StepInduction
<1> QED BY <1>3

\* How a heap record lies in the file, and its sub-records in it.
LaidOut(h) ==
    /\ h.start \in Nat /\ h.length \in Nat
    /\ h.subs \in Seq(Subs(h))
    /\ \A i \in 1..Len(h.subs) :
         /\ h.subs[i] \in Subs(h)
         /\ h.subs[i].at \in Nat /\ h.subs[i].size \in Nat \ {0}
         /\ h.start <= h.subs[i].at /\ h.subs[i].at + h.subs[i].size <= End(h)
         /\ Yields(h.subs[i]) \/ (i = Len(h.subs) /\ h.subs[i].left \in Nat)
         /\ \A j \in 1..Len(h.subs) :
              i < j => h.subs[i].at + h.subs[i].size <= h.subs[j].at

IsSeq(s) == s \in Seq(Range(s))

\* A sub-record was read whole, or what it lacks is reported.
Reported(s) == s.form = "partial" \/ (s.form = "broken" /\ s.left \in Nat \ {0})
Clean(s)    == s.form = "whole" \/ (s.form = "broken" /\ s.left = 0)

\* What a heap record's sub-records look like.
Formed(h) ==
    \A s \in Subs(h) :
      /\ Clean(s) \/ Reported(s)
      /\ s.form = "partial" => s.kind = "class"
      /\ s.kind \in ObjectKinds /\ Yields(s) => s.size > IdSize
      /\ s.kind = "class" /\ Yields(s) => IsSeq(s.fields) /\ IsSeq(s.statics)
      /\ s.kind = "frameRoot" /\ Yields(s) => s.frame \in Int

HeapsLaid(rs) ==
    /\ rs \in Seq(Range(rs))
    /\ \A i \in 1..Len(rs) :
         /\ LaidOut(rs[i]) /\ Formed(rs[i]) /\ rs[i] \in Range(rs)
         /\ \A j \in 1..Len(rs) : i < j => End(rs[i]) <= rs[j].start

\* A class dump that is read lists its fields.
LEMMA ClassFields ==
    ASSUME NEW r, Placed(r), NEW i \in DOMAIN r.subs
    PROVE  r.subs[i].kind = "class" /\ Yields(r.subs[i]) =>
             IsSeq(r.subs[i].fields) /\ IsSeq(r.subs[i].statics)
BY DEF Placed, IsSeq, Range

\* A placed record is a heap record laid out.
LEMMA PlacedIsLaid ==
    ASSUME NEW r, r.at \in Nat, r.size \in Nat, Placed(r)
    PROVE  /\ LaidOut([start |-> r.at, length |-> r.size, subs |-> r.subs])
           /\ Formed([start |-> r.at, length |-> r.size, subs |-> r.subs])
<1> DEFINE h == [start |-> r.at, length |-> r.size, subs |-> r.subs]
<1>1. h.start = r.at /\ h.length = r.size /\ h.subs = r.subs
  OBVIOUS
<1>2. Subs(h) = Subs(r)
  BY DEF Subs
<1> HIDE DEF h
<1>3. r.subs \in Seq(Subs(r)) /\ DOMAIN r.subs = 1..Len(r.subs) /\ Len(r.subs) \in Nat
  BY DEF Placed
<1>4. PICK n \in Nat : n = Len(r.subs)
  BY <1>3
<1>5. \A i \in 1..n : /\ r.subs[i] \in Subs(r)
                      /\ r.subs[i].at \in Nat /\ r.subs[i].size \in Nat \ {0}
                      /\ r.at <= r.subs[i].at
                      /\ r.subs[i].at + r.subs[i].size <= r.at + r.size
                      /\ i < n => r.subs[i].at + r.subs[i].size <= r.subs[i + 1].at
                      /\ Yields(r.subs[i]) \/ (i = n /\ r.subs[i].left \in Nat)
  BY <1>3, <1>4 DEF Placed, Subs, Yields
<1> DEFINE a == [i \in 1..n |-> r.subs[i].at]
           b == [i \in 1..n |-> r.subs[i].at + r.subs[i].size]
<1>6. a \in [1..n -> Nat] /\ b \in [1..n -> Nat]
  BY <1>5
<1>7. \A i \in 1..n : a[i] <= b[i] /\ (i < n => b[i] <= a[i + 1])
  <2> SUFFICES ASSUME NEW i \in 1..n
               PROVE  a[i] <= b[i] /\ (i < n => b[i] <= a[i + 1])
    OBVIOUS
  <2>1. i < n => i + 1 \in 1..n
    OBVIOUS
  <2> QED BY <1>5, <2>1
<1>8. \A i \in 1..n : \A j \in 1..n : i < j => b[i] <= a[j]
  <2> HIDE DEF a, b
  <2> QED BY <1>6, <1>7, Apart
<1>9. \A i \in 1..n : \A j \in 1..n :
         i < j => r.subs[i].at + r.subs[i].size <= r.subs[j].at
  BY <1>8
<1> HIDE DEF a, b
<1>10. LaidOut(h)
  BY <1>1, <1>2, <1>3, <1>4, <1>5, <1>9 DEF LaidOut, End
<1>11. Formed(h)
  <2> SUFFICES ASSUME NEW s \in Subs(r)
               PROVE  /\ Clean(s) \/ Reported(s)
                      /\ s.form = "partial" => s.kind = "class"
                      /\ s.kind \in ObjectKinds /\ Yields(s) => s.size > IdSize
                      /\ s.kind = "class" /\ Yields(s) => IsSeq(s.fields) /\ IsSeq(s.statics)
                      /\ s.kind = "frameRoot" /\ Yields(s) => s.frame \in Int
    BY <1>2 DEF Formed
  <2>1. PICK i \in DOMAIN r.subs : s = r.subs[i]
    BY DEF Subs
  <2>2. /\ s.form \in {"whole", "partial", "broken"}
        /\ s.form = "broken" => s.left \in Nat
        /\ s.form = "partial" => s.kind = "class"
        /\ s.kind \in ObjectKinds /\ Yields(s) => s.size > IdSize
    BY <2>1 DEF Placed
  <2>3. s.kind = "class" /\ Yields(s) => IsSeq(s.fields) /\ IsSeq(s.statics)
    BY <2>1, ClassFields
  <2>4. s.kind = "frameRoot" /\ Yields(s) => s.frame \in Int
    BY <2>1 DEF Placed
  <2> QED BY <2>2, <2>3, <2>4 DEF Clean, Reported, IsSeq, Range
<1> QED BY <1>10, <1>11 DEF h

\* The heap records scanned are laid out one after the other.
LEMMA RangesLaid ==
    ASSUME ScanInv
    PROVE  HeapsLaid(ranges)
<1> DEFINE R == Range(file.records)
           s == SubSeq(file.records, 1, next - 1)
           k == Keep(s, Heapish)
<1>1. file \in Files /\ next \in 1..(Len(file.records) + 1)
  BY DEF ScanInv
<1>2. PICK n \in Nat : n = Len(file.records)
  BY <1>1, Layout
<1>3. /\ file.records \in Seq(R)
      /\ \A i \in 1..n : /\ file.records[i] \in R
                         /\ file.records[i].at \in Nat /\ file.records[i].size \in Nat
                         /\ i < n => file.records[i].at + file.records[i].size
                                       <= file.records[i + 1].at
                         /\ file.records[i].tag = "Heap" => Placed(file.records[i])
  BY <1>1, <1>2, Layout
<1> DEFINE a == [i \in 1..n |-> file.records[i].at]
           b == [i \in 1..n |-> file.records[i].at + file.records[i].size]
<1>4. \A i \in 1..n : \A j \in 1..n : i < j => b[i] <= a[j]
  <2>1. a \in [1..n -> Nat] /\ b \in [1..n -> Nat]
    BY <1>3
  <2>2. \A i \in 1..n : a[i] <= b[i] /\ (i < n => b[i] <= a[i + 1])
    <3> SUFFICES ASSUME NEW i \in 1..n
                 PROVE  a[i] <= b[i] /\ (i < n => b[i] <= a[i + 1])
      OBVIOUS
    <3>1. i < n => i + 1 \in 1..n
      OBVIOUS
    <3> DEFINE y == file.records[i]
    <3>2. /\ y.at \in Nat /\ y.size \in Nat
          /\ i < n => y.at + y.size <= file.records[i + 1].at
      BY <1>3
    <3>3. a[i] = y.at /\ b[i] = y.at + y.size /\ (i < n => a[i + 1] = file.records[i + 1].at)
      BY <3>1
    <3> HIDE DEF a, b, y
    <3> QED BY <3>2, <3>3
  <2> HIDE DEF a, b
  <2> QED BY <2>1, <2>2, Apart
<1>5. \A i \in 1..n : \A j \in 1..n :
         i < j => file.records[i].at + file.records[i].size <= file.records[j].at
  BY <1>4
<1> HIDE DEF a, b
<1>6. next - 1 \in 0..n
  BY <1>1, <1>2
<1>7. /\ s \in Seq(R) /\ Len(s) = next - 1
      /\ \A i \in 1..(next - 1) : s[i] = file.records[i]
  <2>1. \A i \in 1..(next - 1) : file.records[i] \in R
    BY <1>3, <1>6
  <2> DEFINE m == next - 1
  <2>2. m \in Int /\ m \in 0..n /\ (IF 1 <= m THEN m - 1 + 1 ELSE 0) = m /\ m - 1 + 1 = m
    BY <1>6
  <2> HIDE DEF m
  <2>3. /\ SubSeq(file.records, 1, m) \in Seq(R)
        /\ Len(SubSeq(file.records, 1, m)) = m
        /\ \A i \in 1..m : SubSeq(file.records, 1, m)[i] = file.records[1 + i - 1]
    BY <2>1, <2>2, SubSeqProperties DEF m
  <2>4. \A i \in 1..m : 1 + i - 1 = i
    OBVIOUS
  <2> QED BY <2>3, <2>4 DEF m
<1>8. k \in Seq(R) /\ \E p : IsPlaces(s, Heapish, k, Len(s), p)
  <2> HIDE DEF s, R
  <2> QED BY <1>7, KeepPlaces
<1>9. PICK p : IsPlaces(s, Heapish, k, Len(s), p)
  BY <1>8
<1>10. PICK l \in Nat : l = Len(k)
  BY <1>8
<1>11. DOMAIN k = 1..l
  BY <1>8, <1>10
<1> HIDE DEF k
<1>12. \A i \in 1..l : /\ p[i] \in 1..n /\ k[i] = file.records[p[i]]
                       /\ k[i].tag = "Heap"
                       /\ \A j \in 1..l : i < j => p[i] < p[j]
  <2>1. \A i \in 1..l : /\ p[i] \in 1..(next - 1) /\ k[i] = s[p[i]] /\ s[p[i]] \in Heapish
                        /\ \A j \in 1..l : i < j => p[i] < p[j]
    BY <1>7, <1>9, <1>10 DEF IsPlaces
  <2>2. \A i \in 1..(next - 1) : i \in 1..n
    BY <1>6
  <2> HIDE DEF s
  <2> QED BY <1>7, <2>1, <2>2 DEF Heapish
<1>13. ranges = AsHeaps(k)
  BY DEF ScanInv, k
<1>14. DOMAIN ranges = 1..l /\ \A i \in 1..l :
          ranges[i] = [start |-> k[i].at, length |-> k[i].size, subs |-> k[i].subs]
  BY <1>11, <1>13 DEF AsHeaps
<1>15. ranges \in Seq(Range(ranges)) /\ Len(ranges) = l
  <2>1. \A i \in 1..l : ranges[i] \in Range(ranges)
    BY <1>14 DEF Range
  <2>2. ranges = [i \in 1..l |-> ranges[i]]
    BY <1>11, <1>13 DEF AsHeaps
  <2> QED BY <2>1, <2>2
<1>16. ASSUME NEW i \in 1..l
       PROVE  /\ LaidOut(ranges[i]) /\ Formed(ranges[i]) /\ ranges[i] \in Range(ranges)
              /\ \A j \in 1..l : i < j => End(ranges[i]) <= ranges[j].start
  <2>1. LaidOut(ranges[i]) /\ Formed(ranges[i])
    BY <1>3, <1>12, <1>14, PlacedIsLaid
  <2>2. \A j \in 1..l : i < j => End(ranges[i]) <= ranges[j].start
    <3> SUFFICES ASSUME NEW j \in 1..l, i < j
                 PROVE  End(ranges[i]) <= ranges[j].start
      OBVIOUS
    <3>1. /\ p[i] \in 1..n /\ p[j] \in 1..n /\ p[i] < p[j]
          /\ k[i] = file.records[p[i]] /\ k[j] = file.records[p[j]]
      BY <1>12
    <3>2. ranges[j].start = k[j].at /\ End(ranges[i]) = k[i].at + k[i].size
      BY <1>14 DEF End
    <3> QED BY <1>5, <3>1, <3>2
  <2>3. ranges[i] \in Range(ranges)
    BY <1>14 DEF Range
  <2> QED BY <2>1, <2>2, <2>3
<1> QED BY <1>15, <1>16 DEF HeapsLaid

-----------------------------------------------------------------------------
(* The bytes told and the order of the merge                               *)

Lengths == INSTANCE LeftFold WITH Op <- AddLength

\* The bytes of no record, and of one more.
LEMMA SumBytesNone == SumBytes(1, 0) = 0
<1>1. SubSeq(ranges, 1, 0) = <<>>
  BY SubSeqEmpty
<1>2. FoldLeft(AddLength, 0, <<>>) = Lengths!Fold(0, <<>>)
  BY DEF Lengths!Fold, FoldLeft, Lengths!FoldLeft, MapThenFoldSet, Lengths!MapThenFoldSet,
     Max, Lengths!Max
<1> QED BY <1>1, <1>2, Lengths!FoldEmpty DEF SumBytes

\* The bytes of one record more.
LEMMA SumBytesMore ==
    ASSUME NEW S, ranges \in Seq(S), NEW m \in 1..Len(ranges)
    PROVE  SumBytes(1, m) = SumBytes(1, m - 1) + ranges[m].length
<1> DEFINE t == SubSeq(ranges, 1, m - 1)
           x == ranges[m]
<1>1. PICK n \in Nat : n = Len(ranges)
  OBVIOUS
<1>2. \A i \in 1..(m - 1) : ranges[i] \in S
  BY ElementOfSeq
<1>3. t \in Seq(S) /\ x \in S
  BY <1>2, SubSeqProperties, ElementOfSeq
<1>4. SubSeq(ranges, 1, m) = Append(t, x)
  <2>1. 1 \in 1..n /\ m \in 1..n
    BY <1>1
  <2>2. SubSeq(ranges, 1, m) = t \o <<x>>
    BY <1>1, <2>1, SubSeqRecursiveSecond
  <2> HIDE DEF t, x
  <2> QED BY <1>3, <2>2, AppendIsConcat
<1> HIDE DEF t, x
<1>5. Lengths!Fold(0, Append(t, x)) = AddLength(Lengths!Fold(0, t), x)
  BY <1>3, Lengths!FoldAppend
<1>6. \A s : FoldLeft(AddLength, 0, s) = Lengths!Fold(0, s)
  BY DEF Lengths!Fold, FoldLeft, Lengths!FoldLeft, MapThenFoldSet, Lengths!MapThenFoldSet,
     Max, Lengths!Max
<1>7. FoldLeft(AddLength, 0, Append(t, x)) = AddLength(FoldLeft(AddLength, 0, t), x)
  BY <1>5, <1>6
<1>8. SumBytes(1, m) = AddLength(SumBytes(1, m - 1), x)
  BY <1>4, <1>7 DEF SumBytes, t
<1> QED BY <1>8 DEF AddLength, x

\* Nothing is taken before the scan has ended.
LEMMA OrderInit == Init => OrderInv /\ BytesInv
<1> SUFFICES ASSUME Init PROVE OrderInv /\ BytesInv
  OBVIOUS
<1>1. merged = 0 /\ taken = 0 /\ arrived = <<>> /\ running = {} /\ bytesDone = 0
      /\ phase = "scan" /\ ranges = <<>>
  BY DEF Init, InitScan, InitExtraction
<1>2. Range(arrived) = {}
  BY <1>1 DEF Range
<1>3. 1..0 = {}
  OBVIOUS
<1> QED BY <1>1, <1>2, <1>3, SumBytesNone DEF OrderInv, BytesInv

\* What arrived first is the record to merge next.
LEMMA NextToMerge ==
    ASSUME OrderInv, running = {}, arrived # <<>>
    PROVE  FirstArrived(arrived) = merged + 1 /\ merged < taken
<1>1. Range(arrived) = (merged + 1)..taken /\ merged \in Nat /\ taken \in Nat
  BY DEF OrderInv
<1>2. arrived[1] \in Range(arrived)
  BY DEF OrderInv, Range
<1>3. merged + 1 \in Range(arrived) /\ \A y \in Range(arrived) : merged + 1 <= y /\ y \in Int
  BY <1>1, <1>2
<1>4. \E x \in Range(arrived) : \A y \in Range(arrived) : x <= y
  BY <1>3
<1> DEFINE x == FirstArrived(arrived)
<1>5. x \in Range(arrived) /\ \A y \in Range(arrived) : x <= y
  <2> DEFINE P(z) == z \in Range(arrived) /\ \A y \in Range(arrived) : z <= y
  <2>1. \E z : P(z)
    BY <1>4
  <2>2. x = CHOOSE z : P(z)
    BY DEF FirstArrived, Least
  <2>3. P(x)
    <3> HIDE DEF P, x
    <3> QED BY <2>1, <2>2
  <2> QED BY <2>3
<1> HIDE DEF x
<1>6. x = merged + 1
  <2>1. x <= merged + 1 /\ merged + 1 <= x /\ x \in Int
    BY <1>3, <1>5
  <2> QED BY <1>1, <2>1
<1>7. merged < taken
  BY <1>1, <1>2
<1> QED BY <1>6, <1>7 DEF x

\* Without a kept element its set loses nothing else.
LEMMA KeepRange ==
    ASSUME NEW S, NEW s \in Seq(S), NEW T
    PROVE  Range(Keep(s, T)) = Range(s) \cap T
<1> DEFINE k == Keep(s, T)
<1>1. k \in Seq(S) /\ \E p : IsPlaces(s, T, k, Len(s), p)
  BY KeepPlaces
<1>2. PICK p : IsPlaces(s, T, k, Len(s), p)
  BY <1>1
<1> HIDE DEF k
<1>3. DOMAIN k = 1..Len(k) /\ DOMAIN s = 1..Len(s)
  BY <1>1
<1>4. ASSUME NEW x \in Range(k) PROVE x \in Range(s) \cap T
  BY <1>2, <1>3 DEF IsPlaces, Range
<1>5. ASSUME NEW x \in Range(s) \cap T PROVE x \in Range(k)
  <2>1. PICK m \in 1..Len(s) : s[m] = x
    BY <1>3 DEF Range
  <2>2. PICK i \in 1..Len(k) : p[i] = m
    BY <1>2, <2>1 DEF IsPlaces
  <2> QED BY <1>2, <1>3, <2>1, <2>2 DEF IsPlaces, Range
<1> QED BY <1>4, <1>5 DEF k

\* A record merged is the next in the file.
LEMMA MergeNextBytes ==
    ASSUME ScanInv, BytesInv, merged \in Nat, merged < Len(ranges),
           MergeRecord(ranges[merged + 1]), ranges' = ranges
    PROVE  BytesInv' /\ merged' = merged + 1
<1>1. ranges \in Seq(Range(ranges))
  BY RangesLaid DEF HeapsLaid
<1>2. PICK n \in Nat : n = Len(ranges)
  BY <1>1
<1>3. merged + 1 \in 1..n /\ (merged + 1) - 1 = merged
  BY <1>2
<1>4. SumBytes(1, merged + 1) = SumBytes(1, merged) + ranges[merged + 1].length
  BY <1>1, <1>2, <1>3, SumBytesMore
<1>5. bytesDone' = bytesDone + ranges[merged + 1].length /\ merged' = merged + 1
  BY DEF MergeRecord
<1> QED BY <1>4, <1>5 DEF BytesInv, SumBytes

\* Each step of the extraction keeps the order; no other touches it.
LEMMA OrderStep ==
    ScanInv /\ OrderInv /\ BytesInv /\ [Next]_engineVars => OrderInv' /\ BytesInv'
<1> SUFFICES ASSUME ScanInv, OrderInv, BytesInv, [Next]_engineVars
             PROVE  OrderInv' /\ BytesInv'
  OBVIOUS
<1>0. ranges \in Seq(Range(ranges)) /\ Len(ranges) \in Nat
  BY RangesLaid DEF HeapsLaid
<1>a. merged \in Nat /\ taken \in Nat /\ merged <= taken /\ taken <= Len(ranges)
      /\ arrived \in Seq(Nat)
  BY DEF OrderInv
<1>1. CASE NextScan /\ UNCHANGED <<extractVars, resolveVars, threadCache>>
  <2>1. phase = "scan" /\ phase' \in {"scan", "extract"}
    BY <1>1 DEF NextScan, ScanHeap, ScanOther, ScanKnown, ScanEnd, Scanning, Advance
  <2>2. UNCHANGED <<setup, taken, running, arrived, merged, out, bytesDone>>
    BY <1>1 DEF extractVars
  <2>3. taken = 0 /\ merged = 0
    BY <2>1, <1>a DEF OrderInv
  <2>4. Len(ranges') \in Nat
    <3>1. ScanInv'
      BY ScanStep
    <3>2. HeapsLaid(ranges)'
      BY <3>1, RangesLaid, PTL
    <3> QED BY <3>2 DEF HeapsLaid
  <2>5. BytesInv'
    <3>1. (SumBytes(1, 0) = 0)'
      BY SumBytesNone, PTL
    <3> QED BY <2>2, <2>3, <3>1, SumBytesNone DEF BytesInv
  <2> QED BY <2>1, <2>2, <2>3, <2>4, <2>5 DEF OrderInv
<1>2. CASE ExtractNext
  <2>1. /\ ranges' = ranges /\ phase' = phase /\ phase = "extract"
        /\ UNCHANGED <<setup, running, arrived, file>>
        /\ taken' = taken + 1 /\ taken < Len(ranges)
        /\ ~Parallel /\ MergeRecord(ranges[taken + 1])
    BY <1>2 DEF ExtractNext, Extracting, scanVars
  <2>2. merged = taken
    BY <2>1 DEF OrderInv
  <2>3. BytesInv' /\ merged' = merged + 1
    BY <2>1, <2>2, <1>a, MergeNextBytes
  <2>4. running = {} /\ Range(arrived) = {}
    BY <2>2, <1>a DEF OrderInv
  <2>5. (merged' + 1)..taken' = {}
    BY <2>1, <2>2, <2>3, <1>a
  <2> QED BY <1>0, <1>a, <2>1, <2>2, <2>3, <2>4, <2>5 DEF OrderInv
<1>3. CASE StartBatch
  <2>1. /\ ranges' = ranges /\ phase' = phase /\ phase = "extract" /\ Parallel
        /\ UNCHANGED <<setup, arrived, merged, out, bytesDone, file>>
        /\ running = {} /\ arrived = <<>>
    BY <1>3 DEF StartBatch, Extracting, scanVars
  <2>2. PICK last \in (taken + 1)..Len(ranges) :
           running' = (taken + 1)..last /\ taken' = last
    BY <1>3 DEF StartBatch
  <2>3. Range(arrived) = {}
    BY <2>1 DEF Range
  <2>4. merged = taken
    <3>1. (merged + 1)..taken = {}
      BY <2>1, <2>3 DEF OrderInv
    <3>2. ~(merged + 1 \in (merged + 1)..taken)
      BY <3>1
    <3> QED BY <1>a, <3>2
  <2>5. Parallel'
    BY <2>1 DEF Parallel, SumBytes
  <2>6. BytesInv'
    BY <2>1 DEF BytesInv, SumBytes
  <2>7. running' \cup Range(arrived') = (merged' + 1)..taken'
    BY <2>1, <2>2, <2>3, <2>4
  <2> QED BY <1>0, <1>a, <2>1, <2>2, <2>4, <2>5, <2>6, <2>7 DEF OrderInv
<1>4. CASE FinishTask
  <2>1. /\ ranges' = ranges /\ phase' = phase /\ phase = "extract"
        /\ UNCHANGED <<setup, taken, merged, out, bytesDone, file>>
    BY <1>4 DEF FinishTask, Extracting, scanVars
  <2>2. PICK i \in running : running' = running \ {i} /\ arrived' = Append(arrived, i)
    BY <1>4 DEF FinishTask
  <2>3. i \in Nat
    BY <1>a, <2>2 DEF OrderInv
  <2>4. arrived' \in Seq(Nat) /\ Range(arrived') = Range(arrived) \cup {i}
    <3>1. Append(arrived, i) \in Seq(Nat) /\ Len(Append(arrived, i)) = Len(arrived) + 1
          /\ \A k \in 1..Len(arrived) : Append(arrived, i)[k] = arrived[k]
          /\ Append(arrived, i)[Len(arrived) + 1] = i
      BY <1>a, <2>3
    <3>2. PICK n \in Nat : n = Len(arrived)
      BY <1>a
    <3>3. DOMAIN arrived = 1..n /\ DOMAIN arrived' = 1..(n + 1)
      BY <1>a, <2>2, <3>1, <3>2
    <3>4. n + 1 \in DOMAIN arrived' /\ \A k \in 1..(n + 1) : k = n + 1 \/ k \in 1..n
      BY <3>3
    <3> QED BY <2>2, <3>1, <3>2, <3>3, <3>4 DEF Range
  <2>5. running' \cup Range(arrived') = (merged' + 1)..taken'
    BY <2>1, <2>2, <2>4 DEF OrderInv
  <2>6. Parallel' = Parallel /\ BytesInv'
    BY <2>1 DEF Parallel, SumBytes, BytesInv
  <2>7. merged' \in Nat /\ taken' \in Nat /\ merged' <= taken' /\ taken' <= Len(ranges')
        /\ phase' = "extract" /\ (~Parallel' => merged' = taken')
    BY <1>a, <2>1, <2>6 DEF OrderInv
  <2> QED BY <2>4, <2>5, <2>6, <2>7 DEF OrderInv
<1>5. CASE MergeNext
  <2> DEFINE i == FirstArrived(arrived)
  <2>1. /\ ranges' = ranges /\ phase' = phase /\ phase = "extract"
        /\ UNCHANGED <<setup, taken, running, file>>
        /\ running = {} /\ arrived # <<>>
        /\ MergeRecord(ranges[i]) /\ arrived' = Keep(arrived, Range(arrived) \ {i})
    BY <1>5 DEF MergeNext, Extracting, scanVars
  <2>2. i = merged + 1 /\ merged < taken
    BY <2>1, NextToMerge
  <2> HIDE DEF i
  <2>3. BytesInv' /\ merged' = merged + 1
    BY <1>0, <1>a, <2>1, <2>2, MergeNextBytes
  <2>4. arrived' \in Seq(Nat) /\ Range(arrived') = Range(arrived) \ {i}
    <3>1. Keep(arrived, Range(arrived) \ {i}) \in Seq(Nat)
      BY <1>a, KeepPlaces
    <3>2. Range(Keep(arrived, Range(arrived) \ {i}))
            = Range(arrived) \cap (Range(arrived) \ {i})
      BY <1>a, KeepRange
    <3> QED BY <2>1, <3>1, <3>2
  <2>5. running' \cup Range(arrived') = (merged' + 1)..taken'
    <3>1. Range(arrived) = (merged + 1)..taken
      BY <2>1 DEF OrderInv
    <3>2. ((merged + 1)..taken) \ {merged + 1} = (merged + 1 + 1)..taken
      BY <1>a
    <3>3. Range(arrived') = (merged' + 1)..taken
      BY <2>2, <2>3, <2>4, <3>1, <3>2
    <3> QED BY <2>1, <3>3
  <2>6. Parallel' = Parallel
    BY <2>1 DEF Parallel, SumBytes
  <2>7. Parallel
    BY <1>a, <2>2 DEF OrderInv
  <2>8. merged' \in Nat /\ taken' \in Nat /\ merged' <= taken' /\ taken' <= Len(ranges')
    BY <1>0, <1>a, <2>1, <2>2, <2>3
  <2> QED BY <2>1, <2>3, <2>4, <2>5, <2>6, <2>7, <2>8 DEF OrderInv
<1>6. CASE EndExtraction
  <2>1. /\ UNCHANGED <<ranges, file, setup, taken, running, arrived, merged, out, bytesDone>>
        /\ phase = "extract" /\ phase' = "assemble"
        /\ taken = Len(ranges) /\ running = {} /\ arrived = <<>>
    BY <1>6 DEF EndExtraction, extractVars
  <2>2. merged = taken
    <3>1. Range(arrived) = {}
      BY <2>1 DEF Range
    <3> QED BY <1>a, <2>1, <3>1 DEF OrderInv
  <2>3. Parallel' = Parallel /\ BytesInv'
    BY <2>1 DEF Parallel, SumBytes, BytesInv
  <2> QED BY <2>1, <2>2, <2>3 DEF OrderInv
<1>7. CASE /\ phase \notin {"scan", "extract"} /\ phase' \notin {"scan", "extract"}
           /\ LateFrame
  <2>1. UNCHANGED <<ranges, file, setup, taken, running, arrived, merged, out, bytesDone>>
    BY <1>7 DEF LateFrame, extractVars
  <2>2. Parallel' = Parallel /\ BytesInv'
    BY <2>1 DEF Parallel, SumBytes, BytesInv
  <2> QED BY <1>7, <2>1, <2>2 DEF OrderInv
<1>8. CASE UNCHANGED engineVars
  <2>1. UNCHANGED <<ranges, file, setup, taken, running, arrived, merged, out, bytesDone,
                    phase>>
    BY <1>8 DEF engineVars, extractVars, scanVars
  <2>2. Parallel' = Parallel /\ BytesInv'
    BY <2>1 DEF Parallel, SumBytes, BytesInv
  <2> QED BY <2>1, <2>2 DEF OrderInv
<1> QED BY <1>1, <1>2, <1>3, <1>4, <1>5, <1>6, <1>7, <1>8, StepShape DEF NextExtraction

FirstInv == ScanInv /\ OrderInv /\ BytesInv

\* The scan and the merge keep their order in every behaviour.
THEOREM FirstPassOrder == Spec => []FirstInv
<1>1. Init => FirstInv
  BY ScanInit, OrderInit DEF FirstInv
<1>2. FirstInv /\ [Next]_engineVars => FirstInv'
  BY ScanStep, OrderStep DEF FirstInv
<1> QED BY <1>1, <1>2, PTL DEF Spec

\* The progress bar never goes back, ends where the scan ended, and the bytes it
\* is told during the extraction add up to the heap, in whatever order the tasks
\* end: for every dump, number of threads and memory budget.
THEOREM ProgressCorrect == Spec => []ProgressIsTrue
<1>1. FirstInv => ProgressIsTrue
  BY DEF FirstInv, ScanInv, OrderInv, BytesInv, ProgressIsTrue, Assembled
<1> QED BY <1>1, FirstPassOrder, PTL

-----------------------------------------------------------------------------
(* The chunks of a heap record                                             *)

\* A sequence over any set is one over its own elements.
LEMMA SeqIsSeq ==
    ASSUME NEW S, NEW s \in Seq(S)
    PROVE  IsSeq(s) /\ DOMAIN s = 1..Len(s) /\ Len(s) \in Nat /\ Range(s) \subseteq S
<1>1. DOMAIN s = 1..Len(s) /\ Len(s) \in Nat /\ s = [i \in 1..Len(s) |-> s[i]]
      /\ \A i \in 1..Len(s) : s[i] \in S
  OBVIOUS
<1>2. \A i \in 1..Len(s) : s[i] \in Range(s)
  BY <1>1 DEF Range
<1>3. Range(s) \subseteq S
  BY <1>1 DEF Range
<1> QED BY <1>1, <1>2, <1>3 DEF IsSeq

\* What is kept of a sequence, and two one after the other, are sequences.
LEMMA IsSeqConcat ==
    ASSUME NEW s, IsSeq(s), NEW t, IsSeq(t)
    PROVE  IsSeq(s \o t) /\ Range(s \o t) = Range(s) \cup Range(t)
<1> DEFINE S == Range(s) \cup Range(t)
           st == s \o t
<1>1. s \in Seq(S) /\ t \in Seq(S)
  <2>1. s \in Seq(Range(s)) /\ t \in Seq(Range(t))
    BY DEF IsSeq
  <2> QED BY <2>1, SeqMonotonic
<1> HIDE DEF S
<1>2. PICK n \in Nat, m \in Nat : n = Len(s) /\ m = Len(t)
  BY <1>1
<1>3. /\ st \in Seq(S) /\ Len(st) = n + m
      /\ \A i \in 1..n : st[i] = s[i]
      /\ \A i \in (n + 1)..(n + m) : st[i] = t[i - n]
  BY <1>1, <1>2, ConcatProperties
<1> HIDE DEF st
<1>4. DOMAIN s = 1..n /\ DOMAIN t = 1..m /\ DOMAIN st = 1..(n + m)
  BY <1>1, <1>2, <1>3
<1>5. IsSeq(st) /\ Range(st) \subseteq S
  BY <1>3, SeqIsSeq
<1>6. ASSUME NEW x \in S PROVE x \in Range(st)
  <2>1. CASE x \in Range(s)
    <3>1. PICK i \in 1..n : s[i] = x
      BY <1>4, <2>1 DEF Range
    <3>2. i \in 1..(n + m)
      OBVIOUS
    <3> QED BY <1>3, <1>4, <3>1, <3>2 DEF Range
  <2>2. CASE x \in Range(t)
    <3>1. PICK i \in 1..m : t[i] = x
      BY <1>4, <2>2 DEF Range
    <3>2. n + i \in (n + 1)..(n + m) /\ n + i \in 1..(n + m) /\ (n + i) - n = i
      OBVIOUS
    <3> QED BY <1>3, <1>4, <3>1, <3>2 DEF Range
  <2> QED BY <2>1, <2>2 DEF S
<1> QED BY <1>5, <1>6 DEF S, st

\* One element more.
LEMMA IsSeqAppend ==
    ASSUME NEW s, IsSeq(s), NEW x
    PROVE  IsSeq(Append(s, x)) /\ Range(Append(s, x)) = Range(s) \cup {x}
<1> DEFINE S == Range(s) \cup {x}
           t == Append(s, x)
<1>1. s \in Seq(S) /\ x \in S
  <2>1. s \in Seq(Range(s))
    BY DEF IsSeq
  <2> QED BY <2>1, SeqMonotonic
<1> HIDE DEF S
<1>2. PICK n \in Nat : n = Len(s)
  BY <1>1
<1>3. /\ t \in Seq(S) /\ Len(t) = n + 1 /\ t[n + 1] = x
      /\ \A i \in 1..n : t[i] = s[i]
  BY <1>1, <1>2
<1> HIDE DEF t
<1>4. DOMAIN s = 1..n /\ DOMAIN t = 1..(n + 1) /\ n + 1 \in 1..(n + 1)
      /\ \A i \in 1..n : i \in 1..(n + 1)
  BY <1>1, <1>2, <1>3
<1>5. IsSeq(t) /\ Range(t) \subseteq S
  BY <1>3, SeqIsSeq
<1>6. S \subseteq Range(t)
  BY <1>3, <1>4 DEF Range, S
<1> QED BY <1>5, <1>6 DEF S, t

\* Nothing is kept of what has nothing to keep.
LEMMA KeepNone ==
    ASSUME NEW S, NEW s \in Seq(S), NEW T, \A i \in 1..Len(s) : s[i] \notin T
    PROVE  Keep(s, T) = <<>>
<1>1. PICK n \in Nat : n = Len(s)
  OBVIOUS
<1> DEFINE w == [i \in 0..n |-> <<>>]
<1>2. KeepsTo(s, T, w)
  BY <1>1 DEF KeepsTo
<1>3. Keep(s, T) = w[n]
  <2> HIDE DEF w
  <2> QED BY <1>1, <1>2, KeepOf
<1> QED BY <1>3

\* What is kept of two parts, joined to q one after the other.
LEMMA JoinOne ==
    ASSUME NEW S, NEW x \in Seq(S), NEW y \in Seq(S), NEW q, IsSeq(q), NEW T
    PROVE  /\ (q \o Keep(x, T)) \o Keep(y, T) = q \o Keep(x \o y, T)
           /\ IsSeq(q \o Keep(x \o y, T))
<1>0. Keep(x \o y, T) = Keep(x, T) \o Keep(y, T)
  BY KeepConcat
<1>1. PICK R : R = Range(q) \cup S
  OBVIOUS
<1>2. Keep(x, T) \in Seq(S) /\ Keep(y, T) \in Seq(S) /\ Keep(x \o y, T) \in Seq(S)
  <2>1. x \o y \in Seq(S)
    BY ConcatProperties
  <2> QED BY <2>1, KeepPlaces
<1>3. q \in Seq(R) /\ Keep(x, T) \in Seq(R) /\ Keep(y, T) \in Seq(R)
  <2>1. q \in Seq(Range(q)) /\ Range(q) \subseteq R /\ S \subseteq R
    BY <1>1 DEF IsSeq
  <2> QED BY <1>2, <2>1, SeqMonotonic
<1>4. PICK c \in Seq(R), d \in Seq(R) : c = Keep(x, T) /\ d = Keep(y, T)
  BY <1>3
<1>5. (q \o c) \o d = q \o (c \o d)
  <2>1. c \in Seq(R) /\ d \in Seq(R) /\ q \in Seq(R)
    BY <1>3
  <2> QED BY ONLY <2>1, SMTT(30)
<1>6. Keep(x \o y, T) = c \o d
  BY <1>0, <1>4
<1>7. IsSeq(Keep(x \o y, T))
  BY <1>2, SeqIsSeq
<1> QED BY <1>4, <1>5, <1>6, <1>7, IsSeqConcat

\* The parts of s end at P[1], P[2], ...; r goes through what is kept of them.
Joins(s, T, K, P, r) ==
    /\ P \in [0..K -> 0..Len(s)] /\ P[0] = 0
    /\ \A k \in 1..K : P[k - 1] <= P[k]
    /\ IsSeq(r[0])
    /\ \A k \in 1..K : r[k] = r[k - 1] \o Keep(SubSeq(s, P[k - 1] + 1, P[k]), T)

\* Parts of a sequence, in order and without a gap between them, joined to r, keep
\* together what the sequence keeps up to the end of the last.
LEMMA JoinParts ==
    ASSUME NEW S, NEW s \in Seq(S), NEW T, NEW K \in Nat, NEW P, NEW r,
           Joins(s, T, K, P, r)
    PROVE  r[K] = r[0] \o Keep(SubSeq(s, 1, P[K]), T) /\ IsSeq(r[K])
<1> SUFFICES ASSUME P \in [0..K -> 0..Len(s)], P[0] = 0,
                    \A k \in 1..K : P[k - 1] <= P[k],
                    IsSeq(r[0]),
                    \A k \in 1..K : r[k] = r[k - 1]
                                           \o Keep(SubSeq(s, P[k - 1] + 1, P[k]), T)
             PROVE  r[K] = r[0] \o Keep(SubSeq(s, 1, P[K]), T) /\ IsSeq(r[K])
  BY DEF Joins
<1>1. PICK n \in Nat : n = Len(s)
  OBVIOUS
<1> DEFINE J(k) == r[k] = r[0] \o Keep(SubSeq(s, 1, P[k]), T) /\ IsSeq(r[k])
           E == {k \in 0..K : J(k)}
<1>2. 0 \in E
  <2>1. SubSeq(s, 1, P[0]) = <<>>
    BY SubSeqEmpty
  <2>2. r[0] \o <<>> = r[0]
    BY ConcatEmptySeq DEF IsSeq
  <2>3. r[0] = r[0] \o Keep(SubSeq(s, 1, P[0]), T)
    BY <2>1, <2>2, KeepEmpty
  <2>4. J(0)
    BY <2>3
  <2> HIDE DEF J
  <2> QED BY <2>4
<1>3. \A k \in 0..(K - 1) : k \in E => k + 1 \in E
  <2> SUFFICES ASSUME NEW k \in 0..(K - 1), k \in E
               PROVE  k + 1 \in E
    OBVIOUS
  <2> DEFINE a == P[k]
             b == P[k + 1]
             x == SubSeq(s, 1, a)
             y == SubSeq(s, a + 1, b)
  <2>1. k + 1 \in 1..K /\ (k + 1) - 1 = k /\ k \in 0..K /\ k + 1 \in 0..K
    OBVIOUS
  <2>2. a \in 0..n /\ b \in 0..n /\ a <= b
    BY <1>1, <2>1
  <2> HIDE DEF a, b
  <2>3. /\ 1 \in 1..(Len(s) + 1) /\ a \in (1 - 1)..Len(s) /\ b \in a..Len(s)
        /\ \A i \in 1..n : s[i] \in S
        /\ \A i \in 1..a : i \in 1..n
        /\ \A i \in (a + 1)..b : i \in 1..n
    BY <1>1, <2>2, ElementOfSeq
  <2>4. SubSeq(s, 1, b) = x \o y
    BY <2>3, ConcatAdjacentSubSeq
  <2>5. x \in Seq(S) /\ y \in Seq(S)
    <3>1. (\A i \in 1..a : s[i] \in S) /\ (\A i \in (a + 1)..b : s[i] \in S)
          /\ 1 \in Int /\ a \in Int /\ b \in Int /\ a + 1 \in Int
      BY <2>2, <2>3
    <3> QED BY <3>1, SubSeqProperties
  <2> HIDE DEF x, y
  <2>6. r[k + 1] = r[k] \o Keep(y, T)
    BY <2>1 DEF y, a, b
  <2>7. r[k] = r[0] \o Keep(x, T)
    BY DEF x, a
  <2>8. PICK q : q = r[0]
    OBVIOUS
  <2>9. (q \o Keep(x, T)) \o Keep(y, T) = q \o Keep(x \o y, T)
        /\ IsSeq(q \o Keep(x \o y, T))
    <3>1. IsSeq(q)
      BY <2>8
    <3> QED BY ONLY <2>5, <3>1, JoinOne
  <2>10. r[k + 1] = r[0] \o Keep(SubSeq(s, 1, b), T)
    BY <2>4, <2>6, <2>7, <2>8, <2>9
  <2>11. IsSeq(r[k + 1])
    BY <2>4, <2>8, <2>9, <2>10
  <2> QED BY <2>1, <2>10, <2>11 DEF b
<1>4. K \in E
  <2> HIDE DEF E
  <2>1. 0..K \subseteq E
    BY <1>2, <1>3, StepInduction
  <2> QED BY <2>1
<1> QED BY <1>4

\* The counts of chunks only rise.
LEMMA CutsRise ==
    ASSUME NEW h, NEW S, NEW subs \in Seq(S), NEW size
    PROVE  /\ Cuts(h, subs, size) \in [0..Len(subs) -> Nat]
           /\ Cuts(h, subs, size)[0] = 0
           /\ \A i \in 0..Len(subs) : \A j \in 0..Len(subs) :
                i < j => Cuts(h, subs, size)[i] <= Cuts(h, subs, size)[j]
<1>1. PICK n \in Nat : n = Len(subs)
  OBVIOUS
<1> DEFINE Full(i, k) == subs[i].at + subs[i].size - h.start >= (k + 1) * size
           G(g) == [i \in 0..n |-> IF i = 0 THEN 0
                                   ELSE IF Full(i, g[i - 1]) THEN g[i - 1] + 1
                                        ELSE g[i - 1]]
           g == CHOOSE x : x = G(x)
           step == [i \in 1..n |-> [k \in Nat |-> IF Full(i, k) THEN k + 1 ELSE k]]
<1>2. Cuts(h, subs, size) = g
  BY <1>1 DEF Cuts
<1>3. step \in [1..n -> [Nat -> Nat]]
  <2> HIDE DEF Full
  <2> QED OBVIOUS
<1>4. PICK v \in [0..n -> Nat] : Follows(v, n, 0, step)
  <2> HIDE DEF step
  <2> QED BY <1>3, StepsExist
<1>5. \A i \in 1..n : /\ v[i - 1] \in Nat
                      /\ v[i] = IF Full(i, v[i - 1]) THEN v[i - 1] + 1 ELSE v[i - 1]
  <2> SUFFICES ASSUME NEW i \in 1..n
               PROVE  /\ v[i - 1] \in Nat
                      /\ v[i] = IF Full(i, v[i - 1]) THEN v[i - 1] + 1 ELSE v[i - 1]
    OBVIOUS
  <2> HIDE DEF Full
  <2>1. v[i] = step[i][v[i - 1]]
    <3> HIDE DEF step
    <3> QED BY <1>4 DEF Follows
  <2>2. i - 1 \in 0..n
    OBVIOUS
  <2>3. v[i - 1] \in Nat
    <3> HIDE DEF step
    <3> QED BY <1>4, <2>2
  <2> QED BY <2>1, <2>3
<1>6. v = G(v)
  <2> HIDE DEF Full
  <2>1. ASSUME NEW i \in 0..n
        PROVE  v[i] = G(v)[i]
    <3>1. i = 0 \/ (i # 0 /\ i \in 1..n)
      OBVIOUS
    <3> QED BY <1>4, <1>5, <3>1 DEF Follows
  <2>2. v = [i \in 0..n |-> v[i]]
    BY <1>4
  <2> QED BY <2>1, <2>2
<1>7. g = G(g)
  <2> HIDE DEF G
  <2> QED BY <1>6
<1> DEFINE E == {i \in 0..n : g[i] = v[i]}
<1>8. 0..n \subseteq E
  <2> HIDE DEF Full
  <2>1. \A i \in 0..n : g[i] = IF i = 0 THEN 0
                               ELSE IF Full(i, g[i - 1]) THEN g[i - 1] + 1 ELSE g[i - 1]
    <3> HIDE DEF g
    <3> QED BY <1>7
  <2> HIDE DEF g, G
  <2>2. \A i \in 0..(n - 1) : i \in E => i + 1 \in E
    <3> SUFFICES ASSUME NEW i \in 0..(n - 1), g[i] = v[i]
                 PROVE  i + 1 \in E
      OBVIOUS
    <3>1. i + 1 \in 1..n /\ i + 1 \in 0..n /\ (i + 1) - 1 = i /\ i + 1 # 0
      OBVIOUS
    <3>2. v[i + 1] = IF Full(i + 1, v[i]) THEN v[i] + 1 ELSE v[i]
      BY <1>5, <3>1
    <3>3. g[i + 1] = IF Full(i + 1, g[i]) THEN g[i] + 1 ELSE g[i]
      BY <2>1, <3>1
    <3> QED BY <3>1, <3>2, <3>3
  <2>3. 0 \in E
    BY <1>4, <2>1 DEF Follows
  <2> HIDE DEF E
  <2> QED BY <2>2, <2>3, StepInduction
<1>9. g = v
  <2>1. g = [i \in 0..n |-> g[i]]
    <3> HIDE DEF Full
    <3>1. DOMAIN G(g) = 0..n /\ G(g) = [i \in 0..n |-> G(g)[i]]
      OBVIOUS
    <3> HIDE DEF g, G
    <3> QED BY <1>7, <3>1
  <2> HIDE DEF g, G, Full
  <2>2. \A i \in 0..n : g[i] = v[i]
    BY <1>8
  <2> QED BY <1>4, <2>1, <2>2
<1> DEFINE a == [i \in 1..(n + 1) |-> v[i - 1]]
<1>10. \A i \in 1..(n + 1) : \A j \in 1..(n + 1) : i < j => a[i] <= a[j]
  <2>1. a \in [1..(n + 1) -> Nat]
    <3>1. \A i \in 1..(n + 1) : i - 1 \in 0..n
      OBVIOUS
    <3> QED BY <1>4, <3>1
  <2>2. \A i \in 1..(n + 1) : a[i] <= a[i] /\ (i < n + 1 => a[i] <= a[i + 1])
    <3> SUFFICES ASSUME NEW i \in 1..(n + 1)
                 PROVE  a[i] <= a[i] /\ (i < n + 1 => a[i] <= a[i + 1])
      OBVIOUS
    <3>1. a[i] \in Nat
      BY <2>1
    <3>2. ASSUME i < n + 1 PROVE a[i] <= a[i + 1]
      <4>1. i \in 1..n /\ i + 1 \in 1..(n + 1) /\ (i + 1) - 1 = i
        BY <3>2
      <4>2. a[i] = v[i - 1] /\ a[i + 1] = v[i]
        BY <4>1
      <4> HIDE DEF a, Full
      <4>3. v[i - 1] \in Nat /\ (v[i] = v[i - 1] + 1 \/ v[i] = v[i - 1])
        BY <1>5, <4>1
      <4> QED BY <4>2, <4>3
    <3> QED BY <3>1, <3>2
  <2>3. n + 1 \in Nat
    OBVIOUS
  <2> HIDE DEF a
  <2> QED BY <2>1, <2>2, <2>3, Apart
<1>11. \A i \in 0..n : \A j \in 0..n : i < j => v[i] <= v[j]
  <2> SUFFICES ASSUME NEW i \in 0..n, NEW j \in 0..n, i < j
               PROVE  v[i] <= v[j]
    OBVIOUS
  <2>1. i + 1 \in 1..(n + 1) /\ j + 1 \in 1..(n + 1) /\ i + 1 < j + 1
        /\ (i + 1) - 1 = i /\ (j + 1) - 1 = j
    OBVIOUS
  <2>2. a[i + 1] = v[i] /\ a[j + 1] = v[j]
    BY <2>1
  <2> HIDE DEF a
  <2> QED BY <1>10, <2>1, <2>2
<1>12. v \in [0..n -> Nat] /\ v[0] = 0
  BY <1>4 DEF Follows
<1> HIDE DEF g, G, Full, a
<1> QED BY <1>1, <1>2, <1>9, <1>11, <1>12

\* The chunks c of a heap record: K parts of what is extracted of it, in order and
\* without a gap, that leave out nothing that matters.
IsChunks(h, c, K, P) ==
    /\ P \in [0..K -> 0..Len(Extracted(h))] /\ P[0] = 0
    /\ \A k \in 1..K : P[k - 1] <= P[k]
    /\ DOMAIN c = 1..K
    /\ \A k \in 1..K :
         /\ c[k].subs = SubSeq(Extracted(h), P[k - 1] + 1, P[k])
         /\ c[k].entries = IF k = 1 THEN EntryPoints(Extracted(h)) ELSE <<>>
         /\ c[k].cut \in BOOLEAN
    /\ \A i \in (P[K] + 1)..Len(Extracted(h)) : ~Matters(Extracted(h)[i])
    /\ Unread(h) > 0 => \E k \in 1..K : c[k].cut

LEMMA ChunksAre ==
    ASSUME NEW h, LaidOut(h)
    PROVE  \E K \in Nat : \E P : IsChunks(h, Chunks(h), K, P)
<1> DEFINE S == Subs(h)
           subs == Extracted(h)
           cuts == Cuts(h, subs, ChunkBytes)
           entry == EntryPoints(subs)
           before(k) == Cardinality({i \in 1..Len(subs) : cuts[i - 1] < k})
           upto(k) == Cardinality({i \in 1..Len(subs) : cuts[i - 1] <= k})
           part(k) == SubSeq(subs, 1 + before(k), upto(k))
           C == cuts[Len(subs)]
           keepLast == (\E s \in Range(part(C)) : Matters(s)) \/ Unread(h) > 0
           K == IF keepLast THEN C + 1 ELSE C
           P == [k \in 0..K |-> before(k)]
           c == Chunks(h)
<1>1. subs \in Seq(S)
  BY KeepPlaces DEF LaidOut, Extracted
<1>2. PICK n \in Nat : n = Len(subs)
  BY <1>1
<1> HIDE DEF subs, S
<1>3. /\ cuts \in [0..n -> Nat] /\ cuts[0] = 0
      /\ \A i \in 0..n : \A j \in 0..n : i < j => cuts[i] <= cuts[j]
  BY <1>1, <1>2, CutsRise
<1> HIDE DEF cuts
<1>4. C \in Nat /\ \A i \in 1..n : cuts[i - 1] \in Nat /\ cuts[i - 1] <= C
  <2>1. C = cuts[n] /\ n \in 0..n
    BY <1>2
  <2>2. \A i \in 1..n : i - 1 \in 0..n /\ i - 1 < n
    OBVIOUS
  <2> QED BY <1>3, <2>1, <2>2
<1>5. c = [k \in 1..(IF keepLast THEN C ELSE C - 1) + 1 |->
             [subs |-> part(k - 1),
              entries |-> IF k = 1 THEN entry ELSE <<>>,
              cut |-> k - 1 = C /\ Unread(h) > 0]]
  BY DEF Chunks, ChunksOf, subs, cuts
<1> HIDE DEF part, C, c, keepLast, entry
<1>6. K \in Nat /\ (IF keepLast THEN C ELSE C - 1) + 1 = K /\ K >= C
  BY <1>4
<1>7. \A k \in Int : before(k) \in 0..n /\ upto(k) \in 0..n /\ upto(k) = before(k + 1)
                     /\ before(k) <= before(k + 1)
  <2> SUFFICES ASSUME NEW k \in Int
               PROVE  before(k) \in 0..n /\ upto(k) \in 0..n /\ upto(k) = before(k + 1)
                      /\ before(k) <= before(k + 1)
    OBVIOUS
  <2> DEFINE A == {i \in 1..n : cuts[i - 1] < k}
             B == {i \in 1..n : cuts[i - 1] <= k}
             D == {i \in 1..n : cuts[i - 1] < k + 1}
  <2>1. before(k) = Cardinality(A) /\ upto(k) = Cardinality(B)
        /\ before(k + 1) = Cardinality(D)
    BY <1>2
  <2>2. B = D /\ A \subseteq B /\ B \subseteq 1..n
    BY <1>4
  <2> HIDE DEF A, B, D, before, upto
  <2>3. IsFiniteSet(1..n) /\ Cardinality(1..n) = n
    BY FS_Interval
  <2>4. IsFiniteSet(B) /\ Cardinality(B) <= n
    <3>1. B \in SUBSET (1..n)
      BY <2>2
    <3>2. IsFiniteSet(B) /\ Cardinality(B) <= Cardinality(1..n)
      BY <2>3, <3>1, FS_Subset, Zenon
    <3> QED BY <2>3, <3>2
  <2>5. IsFiniteSet(A) /\ Cardinality(A) <= Cardinality(B)
    BY <2>2, <2>4, FS_Subset
  <2>6. Cardinality(A) \in Nat /\ Cardinality(B) \in Nat
    BY <2>4, <2>5, FS_CardinalityType
  <2> QED BY <2>1, <2>2, <2>4, <2>5, <2>6
<1>8. before(0) = 0
  <2>1. {i \in 1..Len(subs) : cuts[i - 1] < 0} = {}
    BY <1>2, <1>4
  <2> QED BY <2>1, FS_EmptySet
<1>9. before(C + 1) = n
  <2>1. {i \in 1..Len(subs) : cuts[i - 1] < C + 1} = 1..n
    BY <1>2, <1>4
  <2>2. Cardinality(1..n) = n
    BY FS_Interval
  <2> QED BY <2>1, <2>2
<1> HIDE DEF before, upto, K
<1>10. P \in [0..K -> 0..n] /\ P[0] = 0
  BY <1>6, <1>7, <1>8
<1>11. \A k \in 1..K : P[k - 1] = before(k - 1) /\ P[k] = before(k) /\ P[k - 1] <= P[k]
  <2> SUFFICES ASSUME NEW k \in 1..K
               PROVE  P[k - 1] = before(k - 1) /\ P[k] = before(k) /\ P[k - 1] <= P[k]
    OBVIOUS
  <2>1. k - 1 \in 0..K /\ k \in 0..K /\ k - 1 \in Int /\ (k - 1) + 1 = k
    BY <1>6
  <2>2. P[k - 1] = before(k - 1) /\ P[k] = before(k)
    BY <2>1
  <2> HIDE DEF P
  <2> QED BY <1>7, <2>1, <2>2
<1>12. \A k \in 1..K : part(k - 1) = SubSeq(subs, P[k - 1] + 1, P[k])
  <2> SUFFICES ASSUME NEW k \in 1..K
               PROVE  part(k - 1) = SubSeq(subs, P[k - 1] + 1, P[k])
    OBVIOUS
  <2>1. k - 1 \in Int /\ (k - 1) + 1 = k
    OBVIOUS
  <2>2. upto(k - 1) = before(k) /\ 1 + before(k - 1) = before(k - 1) + 1
    BY <1>7, <2>1
  <2> QED BY <1>11, <2>2 DEF part
<1>13. \A i \in (P[K] + 1)..n : ~Matters(subs[i])
  <2>1. K \in 0..K /\ P[K] = before(K)
    BY <1>6
  <2>2. CASE keepLast
    <3>1. K = C + 1
      BY <2>2 DEF K
    <3>2. P[K] = n
      BY <1>9, <2>1, <3>1
    <3>3. (n + 1)..n = {}
      OBVIOUS
    <3> QED BY <3>2, <3>3
  <2>3. CASE ~keepLast
    <3>1. K = C
      BY <2>3 DEF K
    <3>2. part(C) = SubSeq(subs, before(C) + 1, n)
      <4>1. upto(C) = before(C + 1) /\ 1 + before(C) = before(C) + 1
        BY <1>4, <1>7
      <4> QED BY <1>9, <4>1 DEF part
    <3> SUFFICES ASSUME NEW i \in (before(C) + 1)..n
                 PROVE  ~Matters(subs[i])
      BY <2>1, <3>1
    <3> DEFINE b == before(C)
    <3>3. b \in 0..n /\ i \in (b + 1)..n
      BY <1>4, <1>7
    <3> HIDE DEF b
    <3>4. \A j \in (b + 1)..n : subs[j] \in S
      BY <1>1, <1>2, <3>3, ElementOfSeq
    <3> DEFINE t == SubSeq(subs, b + 1, n)
    <3>5. /\ t \in Seq(S) /\ Len(t) = IF b + 1 <= n THEN n - (b + 1) + 1 ELSE 0
          /\ \A j \in 1..(n - (b + 1) + 1) : t[j] = subs[(b + 1) + j - 1]
      <4>1. b + 1 \in Int /\ n \in Int
        BY <3>3
      <4> QED BY <3>4, <4>1, SubSeqProperties
    <3> HIDE DEF t
    <3>6. i - b \in 1..(n - (b + 1) + 1) /\ (b + 1) + (i - b) - 1 = i
          /\ i - b \in 1..Len(t)
      BY <3>3, <3>5
    <3>7. subs[i] \in Range(t)
      <4>1. t[i - b] = subs[i]
        BY <3>5, <3>6
      <4>2. i - b \in DOMAIN t
        BY <3>5, <3>6
      <4> QED BY <4>1, <4>2 DEF Range
    <3>8. t = part(C)
      BY <3>2 DEF t, b
    <3> QED BY <2>3, <3>7, <3>8 DEF keepLast
  <2> QED BY <2>2, <2>3
<1>14. c = [k \in 1..K |->
             [subs |-> part(k - 1),
              entries |-> IF k = 1 THEN entry ELSE <<>>,
              cut |-> k - 1 = C /\ Unread(h) > 0]]
  BY <1>5, <1>6
<1>15. ASSUME Unread(h) > 0 PROVE \E k \in 1..K : c[k].cut
  <2>1. K = C + 1
    BY <1>15 DEF K, keepLast
  <2>2. C + 1 \in 1..K /\ (C + 1) - 1 = C
    BY <1>4, <2>1
  <2>3. c[C + 1].cut
    BY <1>14, <1>15, <2>2
  <2> QED BY <2>2, <2>3
<1> HIDE DEF P
<1>16. IsChunks(h, c, K, P)
  <2>1. \A k \in 1..K :
         /\ c[k].subs = SubSeq(subs, P[k - 1] + 1, P[k])
         /\ c[k].entries = IF k = 1 THEN entry ELSE <<>>
         /\ c[k].cut \in BOOLEAN
    BY <1>12, <1>14
  <2>2. DOMAIN c = 1..K
    BY <1>14
  <2> QED BY <1>2, <1>10, <1>11, <1>13, <1>15, <2>1, <2>2 DEF IsChunks, subs, entry
<1> QED BY <1>6, <1>16 DEF c

-----------------------------------------------------------------------------
(* The builder of the filters                                              *)

Adding == INSTANCE LeftFold WITH Op <- Add
Filing == INSTANCE LeftFold WITH Op <- FiledIn

AddAll(b, t) == FoldLeft(Add, b, t)

\* A segment is filed with its objects.
LEMMA FilingAppend ==
    ASSUME NEW s, IsSeq(s), NEW f
    PROVE  FiledFrom(Append(s, f)) = FiledFrom(s) \cup ({f.segment} \X f.ids)
<1>1. \A t : FiledFrom(t) = Filing!Fold({}, t)
  BY DEF Filing!Fold, FoldLeft, Filing!FoldLeft, MapThenFoldSet, Filing!MapThenFoldSet,
     Max, Filing!Max, FiledFrom
<1>2. PICK S : S = Range(s) \cup {f}
  OBVIOUS
<1>3. s \in Seq(S) /\ f \in S
  BY <1>2, SeqMonotonic DEF IsSeq
<1>4. Filing!Fold({}, Append(s, f)) = FiledIn(Filing!Fold({}, s), f)
  BY <1>3, Filing!FoldAppend
<1> QED BY <1>1, <1>4 DEF FiledIn

\* What was filed is in one of the filters.
LEMMA FiledIs ==
    ASSUME NEW s, IsSeq(s), NEW p \in FiledFrom(s)
    PROVE  \E f \in Range(s) : p \in {f.segment} \X f.ids
<1>1. FiledFrom(s) = Filing!Fold({}, s)
  BY DEF Filing!Fold, FoldLeft, Filing!FoldLeft, MapThenFoldSet, Filing!MapThenFoldSet,
     Max, Filing!Max, FiledFrom
<1>2. PICK n \in Nat : n = Len(s) /\ DOMAIN s = 1..n
  BY DEF IsSeq
<1>3. PICK v : /\ v[0] = {}
               /\ \A i \in 1..n : v[i] = FiledIn(v[i - 1], s[i])
               /\ Filing!Fold({}, s) = v[n]
  <2>1. \E v : Filing!Passes({}, s, n, v)
    BY <1>2, Filing!FoldSteps DEF IsSeq
  <2> QED BY <2>1 DEF Filing!Passes
<1> DEFINE J(S) == \A x \in S : \E f \in Range(s) : x \in {f.segment} \X f.ids
           E == {i \in 0..n : J(v[i])}
<1>4. 0 \in E
  BY <1>3
<1>5. \A i \in 0..(n - 1) : i \in E => i + 1 \in E
  <2> SUFFICES ASSUME NEW i \in 0..(n - 1), J(v[i])
               PROVE  J(v[i + 1]) /\ i + 1 \in 0..n
    OBVIOUS
  <2>1. i + 1 \in 1..n /\ i + 1 \in 0..n /\ (i + 1) - 1 = i
    OBVIOUS
  <2>2. PICK f : f = s[i + 1] /\ f \in Range(s)
    BY <1>2, <2>1 DEF Range
  <2>3. v[i + 1] = FiledIn(v[i], f)
    BY <1>3, <2>1, <2>2
  <2>4. v[i + 1] = v[i] \cup ({f.segment} \X f.ids)
    BY <2>3 DEF FiledIn
  <2> QED BY <2>1, <2>2, <2>4
<1>6. n \in E
  <2> HIDE DEF E
  <2>1. 0..n \subseteq E
    BY <1>4, <1>5, StepInduction
  <2> QED BY <2>1
<1> QED BY <1>1, <1>3, <1>6

\* A filter that was built.
FilterOK(f) == f = [segment |-> f.segment, ids |-> f.ids] /\ f.segment \in Nat

\* The filters that were built, and those that could not be.
FiltersOK(F, X) ==
    /\ IsSeq(F) /\ \A f \in Range(F) : FilterOK(f)
    /\ IsFiniteSet(X) /\ \A f \in X : f.segment \in setup.unbuildable

\* A builder between two objects.
BuilderOK(b) ==
    /\ b = [current |-> b.current, ids |-> b.ids, filters |-> b.filters,
            failed |-> b.failed]
    /\ FiltersOK(b.filters, b.failed)
    /\ b.current \in Nat \cup {NoSegment}
    /\ b.current = NoSegment => b.ids = {}

\* What is built, part by part.
LEMMA BuiltIs ==
    ASSUME NEW g, NEW I, NEW F, NEW X, NEW b,
           b = [current |-> g, ids |-> I, filters |-> F, failed |-> X]
    PROVE  /\ b.current = g /\ b.ids = I /\ b.filters = F /\ b.failed = X
           /\ Built(b) = FiledFrom(F) \cup FailedIn(X) \cup ({g} \X I)
           /\ (/\ FiltersOK(F, X) /\ g \in Nat \cup {NoSegment}
               /\ g = NoSegment => I = {}) => BuilderOK(b)
<1>1. b.current = g /\ b.ids = I /\ b.filters = F /\ b.failed = X
  OBVIOUS
<1>a. Built(b) = FiledFrom(b.filters) \cup FailedIn(b.failed) \cup ({b.current} \X b.ids)
  BY DEF Built
<1>2. Built(b) = FiledFrom(F) \cup FailedIn(X) \cup ({g} \X I)
  BY <1>1, <1>a
<1>3. (/\ FiltersOK(F, X) /\ g \in Nat \cup {NoSegment}
       /\ g = NoSegment => I = {}) => BuilderOK(b)
  BY <1>1 DEF BuilderOK
<1> QED BY <1>1, <1>2, <1>3

\* One more filter that could not be built.
LEMMA FailedAdd ==
    ASSUME NEW X, NEW f
    PROVE  FailedIn(X \cup {f}) = FailedIn(X) \cup ({f.segment} \X f.ids)
<1> DEFINE P(x) == {x.segment} \X x.ids
<1>1. FailedIn(X \cup {f}) = UNION {P(x) : x \in X \cup {f}}
      /\ FailedIn(X) = UNION {P(x) : x \in X}
  BY DEF FailedIn
<1> HIDE DEF P
<1>2. ASSUME NEW y
      PROVE  y \in UNION {P(x) : x \in X \cup {f}}
             <=> y \in UNION {P(x) : x \in X} \/ y \in P(f)
  OBVIOUS
<1>3. P(f) = {f.segment} \X f.ids
  BY DEF P
<1>4. FailedIn(X \cup {f}) = FailedIn(X) \cup P(f)
  BY <1>1, <1>2
<1> QED BY <1>3, <1>4

\* A filter finished loses no object.
LEMMA FinalizeBuilt ==
    ASSUME NEW b, BuilderOK(b), NEW e, e = FinalizeCurrent(b)
    PROVE  /\ BuilderOK(e) /\ Built(e) = Built(b)
           /\ e.current = NoSegment /\ e.ids = {}
<1>1. PICK g, I, F, X : /\ b = [current |-> g, ids |-> I, filters |-> F, failed |-> X]
                        /\ FiltersOK(F, X)
                        /\ g \in Nat \cup {NoSegment}
                        /\ g = NoSegment => I = {}
  BY DEF BuilderOK
<1>2. b.current = g /\ b.ids = I /\ b.filters = F /\ b.failed = X
      /\ Built(b) = FiledFrom(F) \cup FailedIn(X) \cup ({g} \X I)
  BY <1>1, BuiltIs
<1>3. PICK f : f = [segment |-> g, ids |-> I]
  OBVIOUS
<1>4. {NoSegment} \X {} = {} /\ {f.segment} \X f.ids = {g} \X I
  BY <1>3
<1>5. CASE g = NoSegment
  <2>1. e = b
    BY <1>2, <1>5 DEF FinalizeCurrent
  <2> QED BY <1>1, <1>2, <1>5, <2>1
<1>6. CASE g # NoSegment /\ g \in setup.unbuildable
  <2>1. e = [current |-> NoSegment, ids |-> {}, filters |-> F, failed |-> X \cup {f}]
    BY <1>1, <1>2, <1>3, <1>6 DEF FinalizeCurrent
  <2>2. FiltersOK(F, X \cup {f})
    BY <1>1, <1>3, <1>6, FS_AddElement DEF FiltersOK
  <2>3. /\ BuilderOK(e) /\ e.current = NoSegment /\ e.ids = {}
        /\ Built(e) = FiledFrom(F) \cup FailedIn(X \cup {f})
                      \cup ({NoSegment} \X {})
    <3>1. BuilderOK(e) /\ e.current = NoSegment /\ e.ids = {}
      BY <1>1, <2>1, <2>2 DEF BuilderOK
    <3>2. /\ e.filters = F /\ e.failed = X \cup {f}
          /\ e.current = NoSegment /\ e.ids = {}
      BY <2>1
    <3>3. Built(e) = FiledFrom(F) \cup FailedIn(X \cup {f}) \cup ({NoSegment} \X {})
      BY <3>2 DEF Built
    <3> QED BY <3>1, <3>3
  <2>4. FailedIn(X \cup {f}) = FailedIn(X) \cup ({f.segment} \X f.ids)
    BY FailedAdd
  <2> QED BY <1>2, <1>4, <2>3, <2>4
<1>7. CASE g # NoSegment /\ g \notin setup.unbuildable
  <2>a. PICK G : G = Append(F, f)
    OBVIOUS
  <2>1. e = [current |-> NoSegment, ids |-> {}, filters |-> G, failed |-> X]
    BY <1>1, <1>2, <1>3, <1>7, <2>a DEF FinalizeCurrent
  <2>2. FiltersOK(G, X)
    <3>1. IsSeq(G)
      BY <1>1, <2>a, IsSeqAppend DEF FiltersOK
    <3>2. FilterOK(f)
      BY <1>1, <1>3, <1>7 DEF FilterOK
    <3>3. \A x \in Range(G) : x \in Range(F) \/ x = f
      BY <1>1, <2>a DEF FiltersOK, IsSeq, Range
    <3> QED BY <1>1, <3>1, <3>2, <3>3 DEF FiltersOK
  <2>3. /\ BuilderOK(e) /\ e.current = NoSegment /\ e.ids = {}
        /\ Built(e) = FiledFrom(G) \cup FailedIn(X) \cup ({NoSegment} \X {})
    BY <1>1, <2>1, <2>2, BuiltIs
  <2>4. FiledFrom(G) = FiledFrom(F) \cup ({f.segment} \X f.ids)
    BY <1>1, <2>a, FilingAppend DEF FiltersOK
  <2> QED BY <1>2, <1>4, <2>3, <2>4
<1> QED BY <1>5, <1>6, <1>7

\* An object added is filed under the segment of its tag.
LEMMA AddBuilt ==
    ASSUME NEW b, BuilderOK(b), NEW s, Segment(s.at) \in Nat
    PROVE  /\ BuilderOK(Add(b, s))
           /\ Built(Add(b, s)) = Built(b) \cup {<<Segment(s.at), s.id>>}
<1>1. PICK g, r : g = Segment(s.at) /\ r = Add(b, s)
  OBVIOUS
<1>0. g # NoSegment /\ g \in Nat
  BY <1>1 DEF NoSegment
<1>2. CASE b.current = g
  <2>1. PICK I, F, X : /\ b = [current |-> g, ids |-> I, filters |-> F, failed |-> X]
                       /\ FiltersOK(F, X)
    BY <1>2 DEF BuilderOK
  <2>2. r = [current |-> g, ids |-> I \cup {s.id}, filters |-> F, failed |-> X]
    BY <1>1, <1>2, <2>1 DEF Add
  <2>3. Built(r) = FiledFrom(F) \cup FailedIn(X)
                   \cup ({g} \X (I \cup {s.id})) /\ BuilderOK(r)
    BY <1>0, <2>1, <2>2, BuiltIs
  <2>4. Built(b) = FiledFrom(F) \cup FailedIn(X) \cup ({g} \X I)
    BY <2>1, BuiltIs
  <2>5. {g} \X (I \cup {s.id}) = ({g} \X I) \cup {<<g, s.id>>}
    OBVIOUS
  <2> QED BY <1>1, <2>3, <2>4, <2>5
<1>3. CASE b.current # g
  <2>1. PICK e : e = FinalizeCurrent(b)
    OBVIOUS
  <2>2. BuilderOK(e) /\ Built(e) = Built(b) /\ e.current = NoSegment /\ e.ids = {}
    BY <2>1, FinalizeBuilt
  <2>3. PICK F, X : /\ e = [current |-> NoSegment, ids |-> {}, filters |-> F, failed |-> X]
                    /\ FiltersOK(F, X)
    BY <2>2 DEF BuilderOK
  <2>4. r = [e EXCEPT !.current = g, !.ids = {s.id}]
    BY <1>1, <1>3, <2>1 DEF Add
  <2>5. r = [current |-> g, ids |-> {s.id}, filters |-> F, failed |-> X]
    BY <2>3, <2>4
  <2>6. Built(r) = FiledFrom(F) \cup FailedIn(X) \cup ({g} \X {s.id})
        /\ BuilderOK(r)
    BY <1>0, <2>3, <2>5, BuiltIs
  <2>7. Built(e) = FiledFrom(F) \cup FailedIn(X) \cup ({NoSegment} \X {})
    BY <2>3, BuiltIs
  <2>8. {g} \X {s.id} = {<<g, s.id>>} /\ {NoSegment} \X {} = {}
    OBVIOUS
  <2> QED BY <1>1, <2>2, <2>6, <2>7, <2>8
<1> QED BY <1>2, <1>3

\* The objects of a sequence added, one after the other.
LEMMA AddAllBuilt ==
    ASSUME NEW b, BuilderOK(b), NEW S, NEW t \in Seq(S),
           \A s \in S : Segment(s.at) \in Nat
    PROVE  /\ BuilderOK(AddAll(b, t))
           /\ Built(AddAll(b, t)) =
                Built(b) \cup {<<Segment(s.at), s.id>> : s \in Range(t)}
<1>1. \A x, y : AddAll(x, y) = Adding!Fold(x, y)
  BY DEF Adding!Fold, FoldLeft, Adding!FoldLeft, MapThenFoldSet, Adding!MapThenFoldSet,
     Max, Adding!Max, AddAll
<1>2. PICK n \in Nat : n = Len(t) /\ DOMAIN t = 1..n
  OBVIOUS
<1>3. PICK v : /\ v[0] = b
               /\ \A i \in 1..n : v[i] = Add(v[i - 1], t[i])
               /\ Adding!Fold(b, t) = v[n]
  <2>1. \E v : Adding!Passes(b, t, n, v)
    BY <1>2, Adding!FoldSteps
  <2> QED BY <2>1 DEF Adding!Passes
<1> DEFINE Placed1(i) == {<<Segment(t[j].at), t[j].id>> : j \in 1..i}
           J(i) == BuilderOK(v[i]) /\ Built(v[i]) = Built(b) \cup Placed1(i)
           E == {i \in 0..n : J(i)}
<1>4. 0 \in E
  <2>1. Placed1(0) = {}
    OBVIOUS
  <2> HIDE DEF Placed1
  <2>2. J(0)
    BY <1>3, <2>1
  <2> HIDE DEF J
  <2> QED BY <2>2
<1>5. \A i \in 0..(n - 1) : i \in E => i + 1 \in E
  <2> SUFFICES ASSUME NEW i \in 0..(n - 1), J(i)
               PROVE  J(i + 1) /\ i + 1 \in 0..n
    OBVIOUS
  <2>1. i + 1 \in 1..n /\ i + 1 \in 0..n /\ (i + 1) - 1 = i
    OBVIOUS
  <2>2. v[i + 1] = Add(v[i], t[i + 1])
    BY <1>3, <2>1
  <2>3. Segment(t[i + 1].at) \in Nat
    BY <1>2, <2>1, ElementOfSeq
  <2>4. /\ BuilderOK(v[i + 1])
        /\ Built(v[i + 1]) = Built(v[i]) \cup {<<Segment(t[i + 1].at), t[i + 1].id>>}
    <3>1. PICK x : x = v[i]
      OBVIOUS
    <3>2. BuilderOK(x)
      BY <3>1
    <3> QED BY <2>2, <2>3, <3>1, <3>2, AddBuilt
  <2>5. Placed1(i + 1) = Placed1(i) \cup {<<Segment(t[i + 1].at), t[i + 1].id>>}
    <3>1. 1..(i + 1) = (1..i) \cup {i + 1}
      OBVIOUS
    <3> QED BY <3>1
  <2> HIDE DEF Placed1
  <2> QED BY <2>1, <2>4, <2>5
<1>6. n \in E
  <2> HIDE DEF E
  <2>1. 0..n \subseteq E
    BY <1>4, <1>5, StepInduction
  <2> QED BY <2>1
<1>7. Placed1(n) = {<<Segment(s.at), s.id>> : s \in Range(t)}
  BY <1>2 DEF Range
<1> HIDE DEF Placed1
<1> QED BY <1>1, <1>3, <1>6, <1>7

-----------------------------------------------------------------------------
(* The entry points                                                        *)

\* The entry points e of what is extracted of a record: tags, in their order, one at
\* or before each tag in its segment.
IsEntries(subs, e) ==
    /\ \A k \in 1..Len(e) : \E i \in 1..Len(subs) :
         e[k] = [segment |-> Segment(subs[i].at), at |-> subs[i].at]
    /\ \A k \in 1..Len(e) : \A l \in 1..Len(e) : k < l => e[k].at <= e[l].at
    /\ \A i \in 1..Len(subs) : \E k \in 1..Len(e) :
         e[k].segment = Segment(subs[i].at) /\ e[k].at <= subs[i].at

LEMMA EntryPointsAre ==
    ASSUME NEW S, NEW subs \in Seq(S),
           \A i \in 1..Len(subs) : subs[i].at \in Nat,
           \A i \in 1..Len(subs) : \A j \in 1..Len(subs) :
              i < j => subs[i].at <= subs[j].at
    PROVE  IsSeq(EntryPoints(subs)) /\ IsEntries(subs, EntryPoints(subs))
<1>1. PICK n \in Nat : n = Len(subs)
  OBVIOUS
<1>2. DOMAIN subs = 1..n
  BY <1>1
<1> DEFINE crosses == {i \in DOMAIN subs :
                         i = 1 \/ Segment(subs[i].at) # Segment(subs[i - 1].at)}
           places == [i \in DOMAIN subs |-> i]
           f == Keep(places, crosses)
           Point(i) == [segment |-> Segment(subs[i].at), at |-> subs[i].at]
           e == EntryPoints(subs)
<1>3. e = [k \in DOMAIN f |-> Point(f[k])]
  BY DEF EntryPoints
<1>4. places \in Seq(1..n) /\ Len(places) = n /\ \A i \in 1..n : places[i] = i
  BY <1>2
<1> HIDE DEF places
<1>5. f \in Seq(1..n) /\ \E p : IsPlaces(places, crosses, f, n, p)
  <2> HIDE DEF crosses
  <2> QED BY <1>4, KeepPlaces
<1>6. PICK p : IsPlaces(places, crosses, f, n, p)
  BY <1>5
<1> HIDE DEF f, crosses
<1>7. PICK m \in Nat : m = Len(f) /\ DOMAIN f = 1..m
  BY <1>5
<1>8. \A k \in 1..m : /\ f[k] \in 1..n /\ f[k] \in crosses
                      /\ \A l \in 1..m : k < l => f[k] < f[l]
  <2>1. \A k \in 1..m : /\ p[k] \in 1..n /\ f[k] = places[p[k]] /\ places[p[k]] \in crosses
                        /\ \A l \in 1..m : k < l => p[k] < p[l]
    BY <1>6, <1>7 DEF IsPlaces
  <2>2. \A k \in 1..m : f[k] = p[k]
    BY <1>4, <2>1
  <2> QED BY <1>4, <2>1, <2>2
<1>9. \A i \in 1..n : i \in crosses => \E k \in 1..m : f[k] = i
  BY <1>4, <1>6, <1>7 DEF IsPlaces
<1> DEFINE E == {i \in 0..n : i = 0 \/ \E k \in 1..m :
                   /\ Segment(subs[f[k]].at) = Segment(subs[i].at)
                   /\ subs[f[k]].at <= subs[i].at}
<1>10. \A i \in 0..(n - 1) : i \in E => i + 1 \in E
  <2> SUFFICES ASSUME NEW i \in 0..(n - 1), i \in E
               PROVE  \E k \in 1..m : /\ Segment(subs[f[k]].at) = Segment(subs[i + 1].at)
                                      /\ subs[f[k]].at <= subs[i + 1].at
    OBVIOUS
  <2>1. i + 1 \in 1..n /\ (i + 1) - 1 = i /\ subs[i + 1].at \in Nat
    BY <1>1
  <2>2. CASE i + 1 \in crosses
    <3>1. PICK k \in 1..m : f[k] = i + 1
      BY <1>9, <2>1, <2>2
    <3> QED BY <2>1, <3>1
  <2>3. CASE i + 1 \notin crosses
    <3>1. i + 1 # 1 /\ Segment(subs[i + 1].at) = Segment(subs[i].at)
      BY <1>2, <2>1, <2>3 DEF crosses
    <3>2. i # 0 /\ i \in 1..n /\ i < i + 1
      BY <3>1
    <3>3. PICK k \in 1..m : /\ Segment(subs[f[k]].at) = Segment(subs[i].at)
                            /\ subs[f[k]].at <= subs[i].at
      BY <3>2
    <3>4. subs[i].at <= subs[i + 1].at /\ subs[i].at \in Nat /\ subs[f[k]].at \in Nat
      BY <1>1, <1>8, <2>1, <3>2
    <3> QED BY <2>1, <3>1, <3>3, <3>4
  <2> QED BY <2>2, <2>3
<1>11. 0..n \subseteq E
  <2>1. 0 \in E
    OBVIOUS
  <2> HIDE DEF E
  <2> QED BY <1>10, <2>1, StepInduction
<1> HIDE DEF e
<1>12. e \in Seq({Point(i) : i \in 1..n}) /\ Len(e) = m
  BY <1>3, <1>7, <1>8
<1>13. \A k \in 1..m : e[k] = Point(f[k])
  BY <1>3, <1>7
<1>14. \A k \in 1..m : \A l \in 1..m : k < l => e[k].at <= e[l].at
  <2> SUFFICES ASSUME NEW k \in 1..m, NEW l \in 1..m, k < l
               PROVE  e[k].at <= e[l].at
    OBVIOUS
  <2>1. f[k] \in 1..n /\ f[l] \in 1..n /\ f[k] < f[l]
    BY <1>8
  <2>2. subs[f[k]].at <= subs[f[l]].at
    BY <1>1, <2>1
  <2>3. e[k] = Point(f[k]) /\ e[l] = Point(f[l])
    BY <1>13
  <2>4. \A i : Point(i).at = subs[i].at
    OBVIOUS
  <2> HIDE DEF Point
  <2> QED BY <2>2, <2>3, <2>4
<1>15. ASSUME NEW i \in 1..n
       PROVE  \E k \in 1..m : e[k].segment = Segment(subs[i].at) /\ e[k].at <= subs[i].at
  <2>1. i \in E /\ i # 0
    BY <1>11
  <2>2. PICK k \in 1..m : /\ Segment(subs[f[k]].at) = Segment(subs[i].at)
                          /\ subs[f[k]].at <= subs[i].at
    BY <2>1
  <2>3. e[k] = Point(f[k])
    BY <1>13
  <2>4. \A j : Point(j).at = subs[j].at /\ Point(j).segment = Segment(subs[j].at)
    OBVIOUS
  <2> HIDE DEF Point
  <2> QED BY <2>2, <2>3, <2>4
<1>16. IsEntries(subs, e)
  BY <1>1, <1>8, <1>12, <1>13, <1>14, <1>15 DEF IsEntries
<1>17. IsSeq(e)
  <2> HIDE DEF Point
  <2> QED BY <1>12, SeqIsSeq
<1> QED BY <1>16, <1>17 DEF e

\* The entry points so far: one for a segment at most.
EntriesOK(es) ==
    /\ IsSeq(es)
    /\ \A i \in 1..Len(es) : \A j \in 1..Len(es) : es[i].segment = es[j].segment => i = j

\* Entry points r: those of o, and for the other segments the first of e.
Entered(o, e, r) ==
    /\ Range(o) \subseteq Range(r)
    /\ \A x \in Range(r) :
         x \in Range(o) \/ (/\ x \in Range(e)
                            /\ \A y \in Range(e) : y.segment = x.segment => x.at <= y.at)
    /\ \A y \in Range(e) : \E x \in Range(r) : x.segment = y.segment

Entering == INSTANCE LeftFold WITH Op <- AddEntry
Enter(o, e) == FoldLeft(AddEntry, o, e)

LEMMA EnterAll ==
    ASSUME NEW o, EntriesOK(o), NEW e, IsSeq(e),
           \A k \in 1..Len(e) : e[k].at \in Nat,
           \A k \in 1..Len(e) : \A l \in 1..Len(e) : k < l => e[k].at <= e[l].at
    PROVE  EntriesOK(Enter(o, e)) /\ Entered(o, e, Enter(o, e))
<1>1. Enter(o, e) = Entering!Fold(o, e)
  BY DEF Entering!Fold, FoldLeft, Entering!FoldLeft, MapThenFoldSet,
     Entering!MapThenFoldSet, Max, Entering!Max, Enter
<1>2. PICK n \in Nat : n = Len(e) /\ DOMAIN e = 1..n
  BY DEF IsSeq
<1>3. PICK v : /\ v[0] = o
               /\ \A i \in 1..n : v[i] = AddEntry(v[i - 1], e[i])
               /\ Entering!Fold(o, e) = v[n]
  <2>1. \E v : Entering!Passes(o, e, n, v)
    BY <1>2, Entering!FoldSteps
  <2> QED BY <2>1 DEF Entering!Passes
<1> DEFINE From(j, x) == \E k \in 1..j : /\ x = e[k]
                                        /\ \A l \in 1..j : e[l].segment = x.segment
                                                             => x.at <= e[l].at
           J(j, r) == /\ EntriesOK(r) /\ Range(o) \subseteq Range(r)
                      /\ \A x \in Range(r) : x \in Range(o) \/ From(j, x)
                      /\ \A k \in 1..j : \E x \in Range(r) : x.segment = e[k].segment
           E == {j \in 0..n : J(j, v[j])}
<1>4. 0 \in E
  BY <1>3
<1>5. \A j \in 0..(n - 1) : j \in E => j + 1 \in E
  <2> SUFFICES ASSUME NEW j \in 0..(n - 1), J(j, v[j])
               PROVE  J(j + 1, v[j + 1]) /\ j + 1 \in 0..n
    OBVIOUS
  <2>1. j + 1 \in 1..n /\ j + 1 \in 0..n /\ (j + 1) - 1 = j /\ 1..j \subseteq 1..n
    OBVIOUS
  <2>2. PICK r, t, x : r = v[j] /\ t = v[j + 1] /\ x = e[j + 1]
    OBVIOUS
  <2>3. t = AddEntry(r, x)
    BY <1>3, <2>1, <2>2
  <2>4. J(j, r)
    BY <2>2
  <2>5. \A y : From(j, y) => (y.segment # x.segment \/ y.at <= x.at)
    <3>1. \A k \in 1..j : e[k].at <= e[j + 1].at
      BY <1>2, <2>1
    <3> QED BY <2>2, <3>1
  <2>6. \A y : From(j, y) => From(j + 1, y)
    <3> SUFFICES ASSUME NEW y, From(j, y)
                 PROVE  From(j + 1, y)
      OBVIOUS
    <3>1. PICK k \in 1..j : y = e[k] /\ \A l \in 1..j : e[l].segment = y.segment
                                                            => y.at <= e[l].at
      OBVIOUS
    <3>2. y.segment # x.segment \/ y.at <= x.at
      BY <2>5
    <3>3. k \in 1..(j + 1) /\ \A l \in 1..(j + 1) : l \in 1..j \/ l = j + 1
      OBVIOUS
    <3>4. \A l \in 1..(j + 1) : e[l].segment = y.segment => y.at <= e[l].at
      BY <2>2, <3>1, <3>2, <3>3
    <3> QED BY <3>1, <3>3, <3>4
  <2> DEFINE L == Len(r)
  <2>7. r \in Seq(Range(r)) /\ DOMAIN r = 1..L /\ L \in Nat
    BY <2>4 DEF EntriesOK, IsSeq
  <2>8. CASE \E i \in DOMAIN r : r[i].segment = x.segment
    <3>1. t = r
      BY <2>3, <2>8 DEF AddEntry
    <3>2. \E y \in Range(r) : y.segment = x.segment
      BY <2>8 DEF Range
    <3>3. \A k \in 1..(j + 1) : k \in 1..j \/ k = j + 1
      OBVIOUS
    <3> HIDE DEF From
    <3>4. J(j + 1, r)
      BY <2>2, <2>4, <2>6, <3>2, <3>3
    <3> QED BY <2>1, <2>2, <3>1, <3>4
  <2>9. CASE ~\E i \in DOMAIN r : r[i].segment = x.segment
    <3>1. t = Append(r, x)
      BY <2>3, <2>9 DEF AddEntry
    <3>2. IsSeq(t) /\ Range(t) = Range(r) \cup {x}
      BY <2>4, <3>1, IsSeqAppend DEF EntriesOK
    <3>3. Len(t) = L + 1 /\ t[L + 1] = x /\ \A i \in 1..L : t[i] = r[i]
      BY <2>7, <3>1
    <3> HIDE DEF L
    <3>4. EntriesOK(t)
      <4>1. \A i \in 1..(L + 1) : i \in 1..L \/ i = L + 1
        BY <2>7
      <4>2. \A i \in 1..L : \A k \in 1..L : r[i].segment = r[k].segment => i = k
        BY <2>4 DEF EntriesOK, L
      <4>3. \A i \in 1..L : r[i].segment # x.segment
        BY <2>7, <2>9
      <4> QED BY <3>2, <3>3, <4>1, <4>2, <4>3 DEF EntriesOK
    <3>5. \A k \in 1..j : e[k].segment # x.segment
      <4>1. \A y \in Range(r) : y.segment # x.segment
        BY <2>9 DEF Range
      <4> QED BY <2>4, <4>1
    <3>6. From(j + 1, x)
      <4>1. x.at \in Nat
        BY <1>2, <2>1, <2>2
      <4>2. \A l \in 1..(j + 1) : l \in 1..j \/ l = j + 1
        OBVIOUS
      <4>3. \A l \in 1..(j + 1) : e[l].segment = x.segment => x.at <= e[l].at
        BY <2>2, <3>5, <4>1, <4>2
      <4>4. j + 1 \in 1..(j + 1)
        OBVIOUS
      <4> QED BY <2>2, <4>3, <4>4
    <3>7. \A k \in 1..(j + 1) : k \in 1..j \/ k = j + 1
      OBVIOUS
    <3> HIDE DEF From
    <3>8. J(j + 1, t)
      BY <2>2, <2>4, <2>6, <3>2, <3>4, <3>6, <3>7
    <3> QED BY <2>1, <2>2, <3>8
  <2> QED BY <2>8, <2>9
<1>6. J(n, v[n])
  <2>1. 0..n \subseteq E
    <3> HIDE DEF E
    <3> QED BY <1>4, <1>5, StepInduction
  <2> HIDE DEF J
  <2>2. n \in 0..n
    OBVIOUS
  <2> QED BY <2>1, <2>2
<1>7. PICK r : r = v[n]
  OBVIOUS
<1>8. J(n, r)
  BY <1>6, <1>7
<1>9. Entered(o, e, r)
  <2>1. \A x : From(n, x) => /\ x \in Range(e)
                             /\ \A y \in Range(e) : y.segment = x.segment => x.at <= y.at
    BY <1>2 DEF Range
  <2>2. \A y \in Range(e) : \E k \in 1..n : y = e[k]
    BY <1>2 DEF Range
  <2> HIDE DEF From
  <2> QED BY <1>8, <2>1, <2>2 DEF Entered
<1> QED BY <1>1, <1>3, <1>7, <1>8, <1>9

-----------------------------------------------------------------------------
(* One heap record merged                                                  *)

\* What is extracted of a heap record: its sub-records that are read, in order.
LEMMA ExtractedIs ==
    ASSUME NEW h, LaidOut(h)
    PROVE  /\ Extracted(h) \in Seq(Subs(h))
           /\ Range(Extracted(h)) = {s \in Subs(h) : Yields(s)}
           /\ \A i \in 1..Len(Extracted(h)) : Extracted(h)[i].at \in Nat
           /\ \A i \in 1..Len(Extracted(h)) : \A j \in 1..Len(Extracted(h)) :
                i < j => Extracted(h)[i].at <= Extracted(h)[j].at
<1> DEFINE T == {s \in Subs(h) : Yields(s)}
<1>1. PICK s, S, e : s = h.subs /\ S = Subs(h) /\ e = Extracted(h)
  OBVIOUS
<1>2. s \in Seq(S) /\ Range(s) = S
  BY <1>1 DEF LaidOut, Subs, Range
<1>3. e = Keep(s, T) /\ T \subseteq S
  BY <1>1 DEF Extracted
<1> HIDE DEF T
<1>4. e \in Seq(S) /\ Range(e) = T
  <2>1. Keep(s, T) \in Seq(S)
    BY <1>2, KeepPlaces
  <2>2. Range(Keep(s, T)) = Range(s) \cap T
    BY <1>2, KeepRange
  <2> QED BY <1>2, <1>3, <2>1, <2>2
<1>5. PICK p : IsPlaces(s, T, e, Len(s), p)
  BY <1>2, <1>3, KeepPlaces
<1>6. /\ \A i \in 1..Len(s) : s[i].at \in Nat
      /\ \A i \in 1..Len(s) : \A j \in 1..Len(s) : i < j => s[i].at <= s[j].at
  <2>1. /\ \A i \in 1..Len(s) : s[i].at \in Nat /\ s[i].size \in Nat
        /\ \A i \in 1..Len(s) : \A j \in 1..Len(s) :
             i < j => s[i].at + s[i].size <= s[j].at
    BY <1>1 DEF LaidOut
  <2> QED BY <2>1
<1>7. \A i \in 1..Len(e) : /\ p[i] \in 1..Len(s) /\ e[i] = s[p[i]]
                           /\ \A j \in 1..Len(e) : i < j => p[i] < p[j]
  BY <1>5 DEF IsPlaces
<1>8. \A i \in 1..Len(e) : e[i].at \in Nat
  BY <1>6, <1>7
<1>9. \A i \in 1..Len(e) : \A j \in 1..Len(e) : i < j => e[i].at <= e[j].at
  BY <1>6, <1>7
<1> QED BY <1>1, <1>4, <1>8, <1>9 DEF T

\* r goes through the sub-records of some kinds, chunk by chunk.
JoinsKinds(c, K, kinds, r) ==
    /\ IsSeq(r[0])
    /\ \A k \in 1..K : r[k] = r[k - 1] \o KindOf(c[k].subs, kinds)

\* The sub-records of some kinds, chunk by chunk: nothing is lost between two chunks
\* or after the last.
LEMMA KindsJoin ==
    ASSUME NEW h, LaidOut(h), NEW c, NEW K \in Nat, NEW P, IsChunks(h, c, K, P),
           NEW kinds, kinds \subseteq ObjectKinds \cup {"frameRoot", "threadRoot", "class"},
           NEW r, JoinsKinds(c, K, kinds, r)
    PROVE  r[K] = r[0] \o KindOf(Extracted(h), kinds) /\ IsSeq(r[K])
<1> SUFFICES ASSUME IsSeq(r[0]),
                    \A k \in 1..K : r[k] = r[k - 1] \o KindOf(c[k].subs, kinds)
             PROVE  r[K] = r[0] \o KindOf(Extracted(h), kinds) /\ IsSeq(r[K])
  BY DEF JoinsKinds
<1>1. PICK S, e : S = Subs(h) /\ e = Extracted(h)
  OBVIOUS
<1>2. e \in Seq(S)
  BY <1>1, ExtractedIs
<1>3. PICK n \in Nat : n = Len(e) /\ DOMAIN e = 1..n
  BY <1>2
<1> DEFINE T == {s \in Range(e) : s.kind \in kinds}
<1>4. /\ P \in [0..K -> 0..n] /\ P[0] = 0
      /\ \A k \in 1..K : P[k - 1] <= P[k]
      /\ \A k \in 1..K : c[k].subs = SubSeq(e, P[k - 1] + 1, P[k])
      /\ \A i \in (P[K] + 1)..n : ~Matters(e[i])
  BY <1>1, <1>3 DEF IsChunks
<1>5. \A i \in 1..n : e[i] \in T <=> e[i].kind \in kinds
  BY <1>3 DEF Range
<1> HIDE DEF T
<1>6. ASSUME NEW a \in Nat, NEW b \in 0..n, a >= 1
      PROVE  /\ SubSeq(e, a, b) \in Seq(S)
             /\ KindOf(SubSeq(e, a, b), kinds) = Keep(SubSeq(e, a, b), T)
  <2>1. PICK t : t = SubSeq(e, a, b)
    OBVIOUS
  <2>2. t \in Seq(S) /\ \A i \in 1..Len(t) : \E j \in 1..n : t[i] = e[j]
    <3>1. Len(t) = IF a <= b THEN b - a + 1 ELSE 0
      BY <1>2, <1>3, <1>6, <2>1
    <3>2. \A i \in 1..Len(t) : t[i] = e[a + i - 1] /\ a + i - 1 \in 1..n
      BY <1>2, <1>3, <1>6, <2>1, <3>1
    <3>3. t \in Seq(S)
      BY <1>2, <1>3, <1>6, <2>1, <3>1, <3>2
    <3> QED BY <3>2, <3>3
  <2>3. \A i \in 1..Len(t) : t[i] \in Range(t)
    BY <2>2 DEF Range
  <2> DEFINE U == {s \in Range(t) : s.kind \in kinds}
  <2>4. \A i \in 1..Len(t) : t[i] \in U <=> t[i] \in T
    BY <1>5, <2>2, <2>3
  <2> HIDE DEF U
  <2>5. Keep(t, U) = Keep(t, T)
    BY <2>2, <2>4, KeepSame
  <2> QED BY <2>1, <2>2, <2>5 DEF KindOf, U
<1>7. \A k \in 1..K : k - 1 \in 0..K /\ k \in 0..K
  OBVIOUS
<1>8. \A k \in 1..K : r[k] = r[k - 1] \o Keep(SubSeq(e, P[k - 1] + 1, P[k]), T)
  <2> SUFFICES ASSUME NEW k \in 1..K
               PROVE  r[k] = r[k - 1] \o Keep(SubSeq(e, P[k - 1] + 1, P[k]), T)
    OBVIOUS
  <2>1. P[k - 1] + 1 \in Nat /\ P[k] \in 0..n /\ P[k - 1] + 1 >= 1
    <3>1. k - 1 \in 0..K /\ P[k - 1] \in 0..n /\ P[k] \in 0..n
      BY <1>4, <1>7
    <3> QED BY <3>1
  <2>2. r[k] = r[k - 1] \o KindOf(c[k].subs, kinds)
    OBVIOUS
  <2>3. KindOf(SubSeq(e, P[k - 1] + 1, P[k]), kinds)
          = Keep(SubSeq(e, P[k - 1] + 1, P[k]), T)
    BY <1>6, <2>1
  <2> QED BY <1>4, <2>2, <2>3
<1>9. r[K] = r[0] \o Keep(SubSeq(e, 1, P[K]), T) /\ IsSeq(r[K])
  <2>1. P \in [0..K -> 0..Len(e)] /\ P[0] = 0 /\ \A k \in 1..K : P[k - 1] <= P[k]
    BY <1>3, <1>4
  <2>2. Joins(e, T, K, P, r)
    BY <1>8, <2>1 DEF Joins
  <2> QED BY <1>2, <2>2, JoinParts
<1>10. PICK m : m = P[K]
  OBVIOUS
<1>11. m \in 0..n
  BY <1>4, <1>10
<1>12. PICK x, y : x = SubSeq(e, 1, m) /\ y = SubSeq(e, m + 1, n)
  OBVIOUS
<1>13. x \in Seq(S) /\ y \in Seq(S) /\ e = x \o y
  <2>1. x \in Seq(S) /\ y \in Seq(S)
    BY <1>3, <1>6, <1>11, <1>12
  <2>2. 1 \in 1..(Len(e) + 1) /\ m \in (1 - 1)..Len(e) /\ n \in m..Len(e)
    BY <1>3, <1>11
  <2>3. SubSeq(e, 1, n) = x \o y
    BY <1>2, <1>12, <2>2, ConcatAdjacentSubSeq
  <2>4. SubSeq(e, 1, n) = e
    BY <1>2, <1>3, SubSeqFull
  <2> QED BY <2>1, <2>3, <2>4
<1>14. Keep(y, T) = <<>>
  <2>1. \A i \in 1..Len(y) : m + i \in (m + 1)..n /\ y[i] = e[m + i]
    BY <1>2, <1>3, <1>11, <1>12
  <2>2. \A i \in (m + 1)..n : e[i] \notin T
    <3>1. \A i \in (m + 1)..n : i \in 1..n /\ ~Matters(e[i])
      BY <1>4, <1>10, <1>11
    <3> QED BY <1>5, <3>1 DEF Matters
  <2>3. \A i \in 1..Len(y) : y[i] \notin T
    BY <2>1, <2>2
  <2> QED BY <1>13, <2>3, KeepNone
<1>15. Keep(e, T) = Keep(x, T)
  <2>1. Keep(e, T) = Keep(x, T) \o Keep(y, T)
    BY <1>13, KeepConcat
  <2>2. Keep(x, T) \in Seq(S)
    BY <1>13, KeepPlaces
  <2> QED BY <1>14, <2>1, <2>2
<1>16. KindOf(e, kinds) = Keep(e, T)
  BY DEF KindOf, T
<1> QED BY <1>1, <1>9, <1>10, <1>12, <1>15, <1>16

Between(s, a, b) == {s[i] : i \in (a + 1)..b}

\* A chunk holds the sub-records of its part of the record.
LEMMA PartsAre ==
    ASSUME NEW h, LaidOut(h), NEW c, NEW K \in Nat, NEW P, IsChunks(h, c, K, P),
           NEW k \in 1..K
    PROVE  /\ c[k].subs \in Seq(Subs(h))
           /\ Range(c[k].subs) = Between(Extracted(h), P[k - 1], P[k])
           /\ P[k - 1] \in 0..P[k] /\ P[k] \in 0..Len(Extracted(h))
<1>1. PICK S, e : S = Subs(h) /\ e = Extracted(h)
  OBVIOUS
<1>2. e \in Seq(S)
  BY <1>1, ExtractedIs
<1>3. PICK n \in Nat : n = Len(e) /\ DOMAIN e = 1..n
  BY <1>2
<1>4. k - 1 \in 0..K /\ k \in 0..K
  OBVIOUS
<1>5. PICK a, b, t : a = P[k - 1] /\ b = P[k] /\ t = c[k].subs
  OBVIOUS
<1>6. a \in 0..n /\ b \in 0..n /\ a <= b
  BY <1>1, <1>3, <1>4, <1>5 DEF IsChunks
<1>7. t = SubSeq(e, a + 1, b)
  BY <1>1, <1>5 DEF IsChunks
<1>8. \A i \in (a + 1)..b : e[i] \in S
  <2>1. \A i \in (a + 1)..b : i \in 1..n
    BY <1>6
  <2> QED BY <1>2, <1>3, <2>1, ElementOfSeq
<1>9. /\ t \in Seq(S) /\ Len(t) = b - a
      /\ \A i \in 1..(b - a) : t[i] = e[a + i]
  <2>1. a + 1 \in Int /\ b \in Int
    BY <1>6
  <2>2. /\ SubSeq(e, a + 1, b) \in Seq(S)
        /\ Len(SubSeq(e, a + 1, b)) = IF a + 1 <= b THEN b - (a + 1) + 1 ELSE 0
        /\ \A i \in 1..(b - (a + 1) + 1) : SubSeq(e, a + 1, b)[i] = e[(a + 1) + i - 1]
    BY <1>8, <2>1, SubSeqProperties
  <2>3. b - (a + 1) + 1 = b - a /\ \A i \in 1..(b - a) : (a + 1) + i - 1 = a + i
    BY <1>6
  <2>4. Len(t) = b - a
    BY <1>6, <1>7, <2>2
  <2> QED BY <1>7, <2>2, <2>3, <2>4
<1>10. Range(t) = {e[i] : i \in (a + 1)..b}
  <2>1. DOMAIN t = 1..(b - a)
    BY <1>9
  <2>2. \A i \in 1..(b - a) : a + i \in (a + 1)..b
    BY <1>6
  <2>3. \A i \in (a + 1)..b : i - a \in 1..(b - a) /\ a + (i - a) = i
    BY <1>6
  <2>4. \A y \in Range(t) : \E i \in (a + 1)..b : y = e[i]
    BY <1>9, <2>1, <2>2 DEF Range
  <2>5. \A i \in (a + 1)..b : e[i] = t[i - a]
    BY <1>9, <2>3
  <2>6. \A i \in (a + 1)..b : e[i] \in Range(t)
    BY <2>1, <2>3, <2>5 DEF Range
  <2> QED BY <2>4, <2>6
<1> QED BY <1>1, <1>3, <1>5, <1>6, <1>9, <1>10 DEF Between

\* The objects of a heap record, each with its segment.
PlacesIn(h) == {<<Segment(s.at), s.id>> :
                  s \in {t \in Subs(h) : Yields(t) /\ t.kind \in ObjectKinds}}

LEMMA SegmentIsNat == ASSUME NEW at \in Nat PROVE Segment(at) \in Nat
BY SizesAssumption DEF Segment

\* The objects added, chunk by chunk.
LEMMA BuilderMerged ==
    ASSUME NEW h, LaidOut(h), NEW c, NEW K \in Nat, NEW P, IsChunks(h, c, K, P),
           NEW b, BuilderOK(b[0]),
           \A k \in 1..K : b[k] = AddAll(b[k - 1], KindOf(c[k].subs, ObjectKinds))
    PROVE  BuilderOK(b[K]) /\ Built(b[K]) = Built(b[0]) \cup PlacesIn(h)
<1>1. PICK S, e : S = Subs(h) /\ e = Extracted(h)
  OBVIOUS
<1>2. e \in Seq(S) /\ Range(e) = {s \in S : Yields(s)}
  BY <1>1, ExtractedIs
<1>3. PICK n \in Nat : n = Len(e) /\ DOMAIN e = 1..n
  BY <1>2
<1>4. \A s \in S : Segment(s.at) \in Nat
  <2>1. \A i \in DOMAIN h.subs : h.subs[i].at \in Nat
    BY DEF LaidOut
  <2> QED BY <1>1, <2>1, SegmentIsNat DEF Subs
<1> DEFINE At(i) == <<Segment(e[i].at), e[i].id>>
           Upto(m) == {At(i) : i \in {j \in 1..m : e[j].kind \in ObjectKinds}}
           J(k) == BuilderOK(b[k]) /\ Built(b[k]) = Built(b[0]) \cup Upto(P[k])
           E == {k \in 0..K : J(k)}
<1>5. 0 \in E
  <2>1. P[0] = 0
    BY DEF IsChunks
  <2>2. Upto(0) = {}
    OBVIOUS
  <2> HIDE DEF Upto
  <2>3. J(0)
    BY <2>1, <2>2
  <2> HIDE DEF J
  <2> QED BY <2>3
<1>6. \A k \in 0..(K - 1) : k \in E => k + 1 \in E
  <2> SUFFICES ASSUME NEW k \in 0..(K - 1), J(k)
               PROVE  J(k + 1) /\ k + 1 \in 0..K
    OBVIOUS
  <2>1. k + 1 \in 1..K /\ k + 1 \in 0..K /\ (k + 1) - 1 = k
    OBVIOUS
  <2>2. PICK t, x, y, p, q : /\ t = c[k + 1].subs /\ x = b[k] /\ y = b[k + 1]
                             /\ p = P[k] /\ q = P[k + 1]
    OBVIOUS
  <2>3. /\ t \in Seq(S) /\ Range(t) = {e[i] : i \in (p + 1)..q}
        /\ p \in 0..q /\ q \in 0..n
    <3>1. PICK j : j = k + 1 /\ j - 1 = k /\ j \in 1..K
      BY <2>1
    <3>2. /\ c[j].subs \in Seq(Subs(h))
          /\ Range(c[j].subs) = Between(Extracted(h), P[j - 1], P[j])
          /\ P[j - 1] \in 0..P[j] /\ P[j] \in 0..Len(Extracted(h))
      BY <3>1, PartsAre
    <3> QED BY <1>1, <1>3, <2>2, <3>1, <3>2 DEF Between
  <2>4. y = AddAll(x, KindOf(t, ObjectKinds))
    BY <2>1, <2>2
  <2>5. PICK u : u = KindOf(t, ObjectKinds)
    OBVIOUS
  <2>6. u \in Seq(S) /\ Range(u) = {s \in Range(t) : s.kind \in ObjectKinds}
    <3>1. KindOf(t, ObjectKinds) = Keep(t, {s \in Range(t) : s.kind \in ObjectKinds})
      BY DEF KindOf
    <3>2. Keep(t, {s \in Range(t) : s.kind \in ObjectKinds}) \in Seq(S)
      BY <2>3, KeepPlaces
    <3>3. Range(Keep(t, {s \in Range(t) : s.kind \in ObjectKinds}))
            = Range(t) \cap {s \in Range(t) : s.kind \in ObjectKinds}
      BY <2>3, KeepRange
    <3> QED BY <2>5, <3>1, <3>2, <3>3
  <2>7. BuilderOK(x)
    BY <2>2
  <2>8. /\ BuilderOK(y)
        /\ Built(y) = Built(x) \cup {<<Segment(s.at), s.id>> : s \in Range(u)}
    BY <1>4, <2>4, <2>5, <2>6, <2>7, AddAllBuilt
  <2>9. Upto(q) = Upto(p) \cup {<<Segment(s.at), s.id>> : s \in Range(u)}
    <3>1. 1..q = (1..p) \cup ((p + 1)..q)
      BY <2>3
    <3>2. Range(u) = {e[i] : i \in {j \in (p + 1)..q : e[j].kind \in ObjectKinds}}
      BY <2>3, <2>6
    <3>3. {<<Segment(s.at), s.id>> : s \in Range(u)}
            = {At(i) : i \in {j \in (p + 1)..q : e[j].kind \in ObjectKinds}}
      BY <3>2
    <3> QED BY <3>1, <3>3
  <2>10. Built(x) = Built(b[0]) \cup Upto(p)
    BY <2>2
  <2> HIDE DEF Upto
  <2> QED BY <2>1, <2>2, <2>8, <2>9, <2>10
<1>7. J(K)
  <2> HIDE DEF J
  <2>1. 0..K \subseteq E
    <3> HIDE DEF E
    <3> QED BY <1>5, <1>6, StepInduction
  <2>2. K \in 0..K
    OBVIOUS
  <2> QED BY <2>1, <2>2
<1>8. Upto(P[K]) = PlacesIn(h)
  <2>1. PICK m : m = P[K]
    OBVIOUS
  <2>2. m \in 0..n /\ \A i \in (m + 1)..n : ~Matters(e[i])
    BY <1>1, <1>3, <2>1 DEF IsChunks
  <2>3. \A i \in 1..n : i \in 1..m \/ i \in (m + 1)..n
    BY <2>2
  <2>4. \A i \in 1..n : e[i].kind \in ObjectKinds => i \in 1..m
    BY <2>2, <2>3 DEF Matters
  <2>5. 1..m \subseteq 1..n
    BY <2>2
  <2>6. Upto(m) = Upto(n)
    BY <2>4, <2>5
  <2>7. {t \in Subs(h) : Yields(t) /\ t.kind \in ObjectKinds}
          = {e[i] : i \in {j \in 1..n : e[j].kind \in ObjectKinds}}
    BY <1>1, <1>2, <1>3 DEF Range
  <2>8. Upto(n) = PlacesIn(h)
    BY <2>7 DEF PlacesIn
  <2> QED BY <2>1, <2>6, <2>8
<1> HIDE DEF Upto
<1> QED BY <1>7, <1>8

\* The entry points go with the first chunk; without a chunk they go nowhere.
LEMMA EntriesMerged ==
    ASSUME NEW h, LaidOut(h), NEW c, NEW K \in Nat, NEW P, IsChunks(h, c, K, P),
           NEW x, EntriesOK(x[0]),
           \A k \in 1..K : x[k] = Enter(x[k - 1], c[k].entries)
    PROVE  /\ EntriesOK(x[K])
           /\ \/ K = 0 /\ x[K] = x[0]
              \/ Entered(x[0], EntryPoints(Extracted(h)), x[K])
<1>1. PICK e, f : e = Extracted(h) /\ f = EntryPoints(e)
  OBVIOUS
<1>2. IsSeq(f) /\ IsEntries(e, f)
  BY <1>1, ExtractedIs, EntryPointsAre
<1>3. /\ \A i \in 1..Len(f) : f[i].at \in Nat
      /\ \A i \in 1..Len(f) : \A j \in 1..Len(f) : i < j => f[i].at <= f[j].at
  <2>1. \A i \in 1..Len(e) : e[i].at \in Nat
    BY <1>1, ExtractedIs
  <2>2. \A i \in 1..Len(f) : \E j \in 1..Len(e) : f[i].at = e[j].at
    <3> SUFFICES ASSUME NEW i \in 1..Len(f)
                 PROVE  \E j \in 1..Len(e) : f[i].at = e[j].at
      OBVIOUS
    <3>1. PICK j \in 1..Len(e) : f[i] = [segment |-> Segment(e[j].at), at |-> e[j].at]
      BY <1>2 DEF IsEntries
    <3> QED BY <3>1
  <2>3. \A i \in 1..Len(f) : f[i].at \in Nat
    BY <2>1, <2>2
  <2> QED BY <1>2, <2>3 DEF IsEntries
<1>4. CASE K = 0
  BY <1>4
<1>5. CASE K # 0
  <2>1. 1 \in 1..K /\ 1 - 1 = 0
    BY <1>5
  <2>2. x[1] = Enter(x[0], f)
    <3>1. c[1].entries = EntryPoints(Extracted(h))
      <4>1. IsChunks(h, c, K, P)
        OBVIOUS
      <4>2. \A k \in 1..K : c[k].entries = IF k = 1 THEN EntryPoints(Extracted(h)) ELSE <<>>
        BY ONLY <4>1 DEF IsChunks
      <4> QED BY ONLY <2>1, <4>2
    <3>2. x[1] = Enter(x[1 - 1], c[1].entries)
      BY <2>1
    <3> QED BY ONLY <1>1, <2>1, <3>1, <3>2
  <2>3. EntriesOK(x[1]) /\ Entered(x[0], f, x[1])
    BY <1>2, <1>3, <2>2, EnterAll
  <2> DEFINE E == {k \in 0..K : k = 0 \/ x[k] = x[1]}
  <2>4. \A k \in 0..(K - 1) : k \in E => k + 1 \in E
    <3> SUFFICES ASSUME NEW k \in 0..(K - 1), k = 0 \/ x[k] = x[1], k # 0
                 PROVE  x[k + 1] = x[1]
      <4>1. \A k \in 0..(K - 1) : k + 1 \in 0..K /\ (k = 0 => k + 1 = 1)
        BY <1>5
      <4> QED BY <4>1
    <3>1. PICK j : j = k + 1 /\ j \in 1..K /\ j - 1 = k /\ j # 1
      OBVIOUS
    <3>2. c[j].entries = <<>>
      BY <3>1 DEF IsChunks
    <3>3. x[j] = Enter(x[1], <<>>)
      BY <3>1, <3>2
    <3>4. Enter(x[1], <<>>) = x[1]
      <4>1. Enter(x[1], <<>>) = Entering!Fold(x[1], <<>>)
        BY DEF Entering!Fold, FoldLeft, Entering!FoldLeft, MapThenFoldSet,
           Entering!MapThenFoldSet, Max, Entering!Max, Enter
      <4>2. Entering!Fold(x[1], <<>>) = x[1]
        BY Entering!FoldEmpty
      <4> QED BY <4>1, <4>2
    <3> QED BY <3>1, <3>3, <3>4
  <2>5. 0..K \subseteq E
    <3>1. 0 \in E
      OBVIOUS
    <3> HIDE DEF E
    <3> QED BY <2>4, <3>1, StepInduction
  <2>6. x[K] = x[1]
    <3>1. K \in 0..K
      OBVIOUS
    <3> QED BY <1>5, <2>5, <3>1
  <2> QED BY <1>1, <2>3, <2>6
<1> QED BY <1>4, <1>5

\* A list of warnings that is full before one is dropped, and without a loss.
LogOK(w) ==
    /\ w.kept \in Nat /\ w.dropped \in Nat /\ w.raised \in Nat
    /\ w.kept = Min2(w.raised, MaxWarnings)
    /\ w.kept + w.dropped = w.raised

\* More warnings leave it so.
LEMMA WarnOK ==
    ASSUME NEW w, LogOK(w), NEW n \in Nat
    PROVE  LogOK(Warn(w, n)) /\ Warn(w, n).raised = w.raised + n
           /\ Warn(w, n).kept + Warn(w, n).dropped = w.kept + w.dropped + n
<1>1. PICK k, d, r : k = w.kept /\ d = w.dropped /\ r = w.raised
  OBVIOUS
<1>2. k \in Nat /\ d \in Nat /\ r \in Nat /\ k = Min2(r, MaxWarnings) /\ k + d = r
  BY <1>1 DEF LogOK
<1>3. PICK room : room = Min2(n, Max2(MaxWarnings - k, 0))
  OBVIOUS
<1>4. room \in Nat /\ room <= n /\ k + room = Min2(r + n, MaxWarnings)
  BY <1>2, <1>3, ScanAssumption DEF Min2, Max2
<1>5. PICK v : v = Warn(w, n)
  OBVIOUS
<1>6. v.kept = k + room /\ v.dropped = d + (n - room) /\ v.raised = r + n
  BY <1>1, <1>3, <1>5 DEF Warn
<1> QED BY <1>1, <1>2, <1>4, <1>5, <1>6 DEF LogOK

\* What is extracted so far, as far as it depends on nothing but the code.
OutOK(o) ==
    /\ BuilderOK(o.builder) /\ EntriesOK(o.entries)
    /\ IsSeq(o.roots) /\ IsSeq(o.threads) /\ IsSeq(o.dumps)
    /\ LogOK(o.log)

Merging == INSTANCE LeftFold WITH Op <- MergeChunk
MergeAll(o, c) == FoldLeft(MergeChunk, o, c)

\* A record merged, whatever its chunks: all that was extracted of it joins what
\* was extracted before.
Merges(h, o, r) ==
    /\ r.roots   = o.roots   \o KindOf(Extracted(h), {"frameRoot"})
    /\ r.threads = o.threads \o KindOf(Extracted(h), {"threadRoot"})
    /\ r.dumps   = o.dumps   \o KindOf(Extracted(h), {"class"})
    /\ Built(r.builder) = Built(o.builder) \cup PlacesIn(h)
    /\ \/ PlacesIn(h) = {} /\ r.entries = o.entries
       \/ Entered(o.entries, EntryPoints(Extracted(h)), r.entries)

LEMMA MergeHeap ==
    ASSUME NEW h, LaidOut(h), NEW o, OutOK(o)
    PROVE  OutOK(MergeAll(o, Chunks(h))) /\ Merges(h, o, MergeAll(o, Chunks(h)))
<1>1. PICK c, r : c = Chunks(h) /\ r = MergeAll(o, c)
  OBVIOUS
<1>2. PICK K \in Nat : \E P : IsChunks(h, c, K, P)
  BY <1>1, ChunksAre
<1>3. PICK P : IsChunks(h, c, K, P)
  BY <1>2
<1>4. PICK v : /\ v[0] = o
               /\ \A k \in 1..K : v[k] = MergeChunk(v[k - 1], c[k])
               /\ r = v[K]
  <2>1. DOMAIN c = 1..K
    BY <1>3 DEF IsChunks
  <2>2. \E v : Merging!Passes(o, c, K, v)
    BY <2>1, Merging!FoldSteps
  <2>3. MergeAll(o, c) = Merging!Fold(o, c)
    BY DEF Merging!Fold, FoldLeft, Merging!FoldLeft, MapThenFoldSet,
       Merging!MapThenFoldSet, Max, Merging!Max, MergeAll
  <2> QED BY <1>1, <2>2, <2>3 DEF Merging!Passes
<1> DEFINE rootsAt   == [k \in 0..K |-> v[k].roots]
           threadsAt == [k \in 0..K |-> v[k].threads]
           dumpsAt   == [k \in 0..K |-> v[k].dumps]
           builderAt == [k \in 0..K |-> v[k].builder]
           entriesAt == [k \in 0..K |-> v[k].entries]
<1>5. 0 \in 0..K /\ K \in 0..K /\ \A k \in 1..K : k \in 0..K /\ k - 1 \in 0..K
  OBVIOUS
<1>6. ASSUME NEW k \in 1..K
      PROVE  /\ v[k].roots = v[k - 1].roots \o KindOf(c[k].subs, {"frameRoot"})
             /\ v[k].threads = v[k - 1].threads \o KindOf(c[k].subs, {"threadRoot"})
             /\ v[k].dumps = v[k - 1].dumps \o KindOf(c[k].subs, {"class"})
             /\ v[k].builder = AddAll(v[k - 1].builder, KindOf(c[k].subs, ObjectKinds))
             /\ v[k].entries = Enter(v[k - 1].entries, c[k].entries)
             /\ \E n \in Nat : v[k].log = Warn(v[k - 1].log, n)
  <2>1. PICK x, y, z : x = v[k - 1] /\ y = v[k] /\ z = c[k]
    OBVIOUS
  <2>2. y = MergeChunk(x, z)
    BY <1>4, <2>1
  <2>3. /\ y.roots = x.roots \o KindOf(z.subs, {"frameRoot"})
        /\ y.threads = x.threads \o KindOf(z.subs, {"threadRoot"})
        /\ y.dumps = x.dumps \o KindOf(z.subs, {"class"})
    BY <2>2 DEF MergeChunk
  <2>4. y.builder = AddAll(x.builder, KindOf(z.subs, ObjectKinds))
    BY <2>2 DEF MergeChunk, AddAll
  <2>5. y.entries = Enter(x.entries, z.entries)
    BY <2>2 DEF MergeChunk, Enter
  <2>6. z.subs \in Seq(Subs(h))
    BY <1>3, <2>1, PartsAre
  <2>7. PICK partial : partial = {s \in Range(z.subs) : s.kind = "class" /\ s.form = "partial"}
    OBVIOUS
  <2>8. PICK n : n = Len(Keep(z.subs, partial)) + IF z.cut THEN 1 ELSE 0
    OBVIOUS
  <2>9. n \in Nat
    <3>1. Keep(z.subs, partial) \in Seq(Subs(h))
      BY <2>6, KeepPlaces
    <3> QED BY <2>8, <3>1
  <2>10. y.log = Warn(x.log, n)
    BY <2>2, <2>7, <2>8 DEF MergeChunk
  <2> QED BY <2>1, <2>3, <2>4, <2>5, <2>9, <2>10
<1>7. r.roots = o.roots \o KindOf(Extracted(h), {"frameRoot"}) /\ IsSeq(r.roots)
  <2>1. IsSeq(rootsAt[0]) /\ rootsAt[0] = o.roots /\ rootsAt[K] = r.roots
    BY <1>4, <1>5 DEF OutOK
  <2>2. \A k \in 1..K : rootsAt[k] = rootsAt[k - 1] \o KindOf(c[k].subs, {"frameRoot"})
    BY <1>5, <1>6
  <2> HIDE DEF rootsAt
  <2>3a. JoinsKinds(c, K, {"frameRoot"}, rootsAt)
    BY <2>1, <2>2 DEF JoinsKinds
  <2>3. {"frameRoot"} \subseteq ObjectKinds \cup {"frameRoot", "threadRoot", "class"}
    OBVIOUS
  <2>4. rootsAt[K] = rootsAt[0] \o KindOf(Extracted(h), {"frameRoot"}) /\ IsSeq(rootsAt[K])
    BY <1>3, <2>3, <2>3a, KindsJoin
  <2> QED BY <2>1, <2>4
<1>8. r.threads = o.threads \o KindOf(Extracted(h), {"threadRoot"}) /\ IsSeq(r.threads)
  <2>1. IsSeq(threadsAt[0]) /\ threadsAt[0] = o.threads /\ threadsAt[K] = r.threads
    BY <1>4, <1>5 DEF OutOK
  <2>2. \A k \in 1..K :
          threadsAt[k] = threadsAt[k - 1] \o KindOf(c[k].subs, {"threadRoot"})
    BY <1>5, <1>6
  <2> HIDE DEF threadsAt
  <2>3a. JoinsKinds(c, K, {"threadRoot"}, threadsAt)
    BY <2>1, <2>2 DEF JoinsKinds
  <2>3. {"threadRoot"} \subseteq ObjectKinds \cup {"frameRoot", "threadRoot", "class"}
    OBVIOUS
  <2>4. /\ threadsAt[K] = threadsAt[0] \o KindOf(Extracted(h), {"threadRoot"})
        /\ IsSeq(threadsAt[K])
    BY <1>3, <2>3, <2>3a, KindsJoin
  <2> QED BY <2>1, <2>4
<1>9. r.dumps = o.dumps \o KindOf(Extracted(h), {"class"}) /\ IsSeq(r.dumps)
  <2>1. IsSeq(dumpsAt[0]) /\ dumpsAt[0] = o.dumps /\ dumpsAt[K] = r.dumps
    BY <1>4, <1>5 DEF OutOK
  <2>2. \A k \in 1..K : dumpsAt[k] = dumpsAt[k - 1] \o KindOf(c[k].subs, {"class"})
    BY <1>5, <1>6
  <2> HIDE DEF dumpsAt
  <2>3a. JoinsKinds(c, K, {"class"}, dumpsAt)
    BY <2>1, <2>2 DEF JoinsKinds
  <2>3. {"class"} \subseteq ObjectKinds \cup {"frameRoot", "threadRoot", "class"}
    OBVIOUS
  <2>4. dumpsAt[K] = dumpsAt[0] \o KindOf(Extracted(h), {"class"}) /\ IsSeq(dumpsAt[K])
    BY <1>3, <2>3, <2>3a, KindsJoin
  <2> QED BY <2>1, <2>4
<1>10. BuilderOK(r.builder) /\ Built(r.builder) = Built(o.builder) \cup PlacesIn(h)
  <2>1. BuilderOK(builderAt[0]) /\ builderAt[0] = o.builder /\ builderAt[K] = r.builder
    BY <1>4, <1>5 DEF OutOK
  <2>2. \A k \in 1..K :
          builderAt[k] = AddAll(builderAt[k - 1], KindOf(c[k].subs, ObjectKinds))
    BY <1>5, <1>6
  <2> HIDE DEF builderAt
  <2> QED BY <1>3, <2>1, <2>2, BuilderMerged
<1>11. /\ EntriesOK(r.entries)
       /\ \/ K = 0 /\ r.entries = o.entries
          \/ Entered(o.entries, EntryPoints(Extracted(h)), r.entries)
  <2>1. EntriesOK(entriesAt[0]) /\ entriesAt[0] = o.entries /\ entriesAt[K] = r.entries
    BY <1>4, <1>5 DEF OutOK
  <2>2. \A k \in 1..K : entriesAt[k] = Enter(entriesAt[k - 1], c[k].entries)
    BY <1>5, <1>6
  <2> HIDE DEF entriesAt
  <2> QED BY <1>3, <2>1, <2>2, EntriesMerged
<1>12. K = 0 => PlacesIn(h) = {}
  <2> SUFFICES ASSUME K = 0, NEW s \in Subs(h), Yields(s), s.kind \in ObjectKinds
               PROVE  FALSE
    BY DEF PlacesIn
  <2>1. P[0] = 0 /\ \A i \in (P[K] + 1)..Len(Extracted(h)) : ~Matters(Extracted(h)[i])
    BY <1>3 DEF IsChunks
  <2>2. s \in Range(Extracted(h)) /\ Extracted(h) \in Seq(Subs(h))
    BY ExtractedIs
  <2>3. PICK i \in 1..Len(Extracted(h)) : s = Extracted(h)[i]
    BY <2>2 DEF Range
  <2> QED BY <2>1, <2>3 DEF Matters
<1>13. LogOK(r.log)
  <2> DEFINE E == {k \in 0..K : LogOK(v[k].log)}
  <2>1. 0 \in E
    BY <1>4 DEF OutOK
  <2>2. \A k \in 0..(K - 1) : k \in E => k + 1 \in E
    <3> SUFFICES ASSUME NEW k \in 0..(K - 1), LogOK(v[k].log)
                 PROVE  LogOK(v[k + 1].log) /\ k + 1 \in 0..K
      OBVIOUS
    <3>1. PICK j : j = k + 1 /\ j \in 1..K /\ j \in 0..K /\ j - 1 = k
      OBVIOUS
    <3>2. PICK n \in Nat : v[j].log = Warn(v[k].log, n)
      BY <1>6, <3>1
    <3>3. LogOK(Warn(v[k].log, n))
      BY WarnOK
    <3> QED BY <3>1, <3>2, <3>3
  <2>3. 0..K \subseteq E
    <3> HIDE DEF E
    <3> QED BY <2>1, <2>2, StepInduction
  <2> QED BY <1>4, <1>5, <2>3
<1>14. OutOK(r) /\ Merges(h, o, r)
  BY <1>7, <1>8, <1>9, <1>10, <1>11, <1>12, <1>13 DEF OutOK, Merges
<1> QED BY <1>1, <1>14

-----------------------------------------------------------------------------
(* The extraction implements OrderedHeap                                   *)

TagsOf(h) == {s.at : s \in {t \in Subs(h) : Yields(t)}}

\* The entry points es when the first m of the heap records rs are merged and the
\* objects at places are filed: each is a tag in its segment, and no segment with an
\* object is without.
EntriesFor(es, places, rs, m) ==
    /\ \A x \in Range(es) : /\ x.at \in Nat /\ x.segment = Segment(x.at)
                            /\ \E i \in 1..m : x.at \in TagsOf(rs[i])
    /\ \A p \in places : \E x \in Range(es) : x.segment = p[1]

OutInv == OutOK(out) /\ EntriesFor(out.entries, Built(out.builder), ranges, merged)

\* The entry of a segment is the one that names it.
LEMMA EntryIs ==
    ASSUME NEW es, EntriesOK(es), NEW x \in Range(es), x.at \in Nat
    PROVE  EntryOf(es, x.segment) = x.at
<1>1. PICK i \in DOMAIN es : x = es[i]
  BY DEF Range
<1>2. DOMAIN es = 1..Len(es)
  BY DEF EntriesOK, IsSeq
<1>3. {j \in DOMAIN es : es[j].segment = x.segment} = {i}
  BY <1>1, <1>2 DEF EntriesOK
<1>4. {es[k].at : k \in {j \in DOMAIN es : es[j].segment = x.segment}} = {x.at}
  BY <1>1, <1>3
<1>5. Least({x.at}) = x.at
  BY DEF Least
<1> QED BY <1>4, <1>5 DEF EntryOf

\* The tags of a heap record, in the sequence of what is extracted of it, and the
\* bytes around them.
LEMMA TagsAre ==
    ASSUME NEW h, LaidOut(h)
    PROVE  /\ \A a \in TagsOf(h) : a \in Nat /\ h.start <= a /\ a < End(h)
           /\ \A i \in 1..Len(Extracted(h)) : Extracted(h)[i].at \in TagsOf(h)
           /\ \A s \in Subs(h) : Yields(s) =>
                \E i \in 1..Len(Extracted(h)) : s = Extracted(h)[i]
<1>1. PICK e : e = Extracted(h)
  OBVIOUS
<1>2. e \in Seq(Subs(h)) /\ Range(e) = {s \in Subs(h) : Yields(s)}
  BY <1>1, ExtractedIs
<1>3. DOMAIN e = 1..Len(e) /\ \A i \in 1..Len(e) : e[i] \in Range(e)
  BY <1>2 DEF Range
<1>4. \A i \in 1..Len(e) : e[i].at \in TagsOf(h)
  BY <1>2, <1>3 DEF TagsOf
<1>5. \A s \in Subs(h) : Yields(s) => \E i \in 1..Len(e) : s = e[i]
  BY <1>2, <1>3 DEF Range
<1>6. ASSUME NEW a \in TagsOf(h)
      PROVE  a \in Nat /\ h.start <= a /\ a < End(h)
  <2>1. PICK s \in Subs(h) : s.at = a
    BY DEF TagsOf
  <2>2. PICK i \in 1..Len(h.subs) : s = h.subs[i]
    <3>1. DOMAIN h.subs = 1..Len(h.subs)
      BY DEF LaidOut
    <3> QED BY <3>1 DEF Subs
  <2>3. PICK size : size = h.subs[i].size
    OBVIOUS
  <2>4. a \in Nat /\ size \in Nat \ {0} /\ h.start <= a /\ a + size <= End(h)
    BY <2>1, <2>2, <2>3 DEF LaidOut
  <2>5. End(h) \in Nat
    BY DEF LaidOut, End
  <2> QED BY <2>4, <2>5
<1> QED BY <1>1, <1>4, <1>5, <1>6

\* A record taken up: the entry points stay right, those there are stay, and a new
\* one lies at or before the objects of its segment.
LEMMA EntriesTaken ==
    ASSUME NEW rs, HeapsLaid(rs), NEW m \in Nat, m < Len(rs),
           NEW h, h = rs[m + 1], NEW o, OutOK(o), NEW r, OutOK(r), Merges(h, o, r),
           EntriesFor(o.entries, Built(o.builder), rs, m)
    PROVE  /\ EntriesFor(r.entries, Built(r.builder), rs, m + 1)
           /\ \A x \in Range(o.entries) : EntryOf(r.entries, x.segment) = x.at
           /\ \A x \in Range(r.entries) : \A s \in Subs(h) :
                Yields(s) /\ s.kind \in ObjectKinds /\ Segment(s.at) = x.segment
                => x.at <= s.at
<1>1. LaidOut(h) /\ m + 1 \in 1..Len(rs) /\ Len(rs) \in Nat
  BY DEF HeapsLaid
<1>2. PICK e, f : e = Extracted(h) /\ f = EntryPoints(e)
  OBVIOUS
<1>3. /\ e \in Seq(Subs(h))
      /\ \A i \in 1..Len(e) : e[i].at \in Nat
      /\ IsSeq(f) /\ IsEntries(e, f)
  BY <1>1, <1>2, ExtractedIs, EntryPointsAre
<1>4. \A y \in Range(f) : /\ y.at \in Nat /\ y.segment = Segment(y.at)
                          /\ y.at \in TagsOf(h)
  <2> SUFFICES ASSUME NEW y \in Range(f)
               PROVE  y.at \in Nat /\ y.segment = Segment(y.at) /\ y.at \in TagsOf(h)
    OBVIOUS
  <2>1. PICK k \in 1..Len(f) : y = f[k]
    BY <1>3 DEF Range, IsSeq
  <2>2. PICK i \in 1..Len(e) : y = [segment |-> Segment(e[i].at), at |-> e[i].at]
    BY <1>3, <2>1 DEF IsEntries
  <2>3. e[i].at \in TagsOf(h) /\ e[i].at \in Nat
    BY <1>1, <1>2, TagsAre
  <2> QED BY <2>2, <2>3
<1>5. \A s \in Subs(h) : Yields(s) =>
        \E y \in Range(f) : y.segment = Segment(s.at) /\ y.at <= s.at
  <2> SUFFICES ASSUME NEW s \in Subs(h), Yields(s)
               PROVE  \E y \in Range(f) : y.segment = Segment(s.at) /\ y.at <= s.at
    OBVIOUS
  <2>1. PICK i \in 1..Len(e) : s = e[i]
    BY <1>1, <1>2, TagsAre
  <2>2. PICK k \in 1..Len(f) : f[k].segment = Segment(e[i].at) /\ f[k].at <= e[i].at
    BY <1>3 DEF IsEntries
  <2>3. f[k] \in Range(f)
    BY <1>3 DEF Range, IsSeq
  <2> QED BY <2>1, <2>2, <2>3
<1>6. \A x \in Range(o.entries) :
        /\ x.at \in Nat /\ x.segment = Segment(x.at)
        /\ \E i \in 1..m : x.at \in TagsOf(rs[i])
  BY DEF EntriesFor
<1>7. \/ PlacesIn(h) = {} /\ r.entries = o.entries
      \/ Entered(o.entries, f, r.entries)
  BY <1>2 DEF Merges
<1>8. /\ Range(o.entries) \subseteq Range(r.entries)
      /\ \A x \in Range(r.entries) :
           \/ x \in Range(o.entries)
           \/ x \in Range(f) /\ \A y \in Range(f) : y.segment = x.segment => x.at <= y.at
  BY <1>7 DEF Entered
<1>9. ASSUME NEW x \in Range(r.entries)
      PROVE  /\ x.at \in Nat /\ x.segment = Segment(x.at)
             /\ \E i \in 1..(m + 1) : x.at \in TagsOf(rs[i])
  <2>1. CASE x \in Range(o.entries)
    <3>1. \A i \in 1..m : i \in 1..(m + 1)
      OBVIOUS
    <3> QED BY <1>6, <2>1, <3>1
  <2>2. CASE x \in Range(f)
    <3>1. m + 1 \in 1..(m + 1)
      OBVIOUS
    <3> QED BY <1>4, <2>2, <3>1
  <2> QED BY <1>8, <2>1, <2>2
<1>10. ASSUME NEW p \in Built(r.builder)
       PROVE  \E x \in Range(r.entries) : x.segment = p[1]
  <2>1. Built(r.builder) = Built(o.builder) \cup PlacesIn(h)
    BY DEF Merges
  <2>2. CASE p \in Built(o.builder)
    BY <1>8, <2>2 DEF EntriesFor
  <2>3. CASE p \in PlacesIn(h)
    <3>1. PICK s \in Subs(h) : /\ Yields(s) /\ s.kind \in ObjectKinds
                               /\ p = <<Segment(s.at), s.id>>
      BY <2>3 DEF PlacesIn
    <3>2. PICK y \in Range(f) : y.segment = Segment(s.at)
      BY <1>5, <3>1
    <3>3. Entered(o.entries, f, r.entries)
      BY <1>7, <2>3
    <3>4. PICK x \in Range(r.entries) : x.segment = y.segment
      BY <3>2, <3>3 DEF Entered
    <3> QED BY <3>1, <3>2, <3>4
  <2> QED BY <2>1, <2>2, <2>3
<1>11. EntriesFor(r.entries, Built(r.builder), rs, m + 1)
  BY <1>9, <1>10 DEF EntriesFor
<1>12. \A x \in Range(o.entries) : EntryOf(r.entries, x.segment) = x.at
  BY <1>6, <1>8, EntryIs DEF OutOK
<1>13. ASSUME NEW x \in Range(r.entries), NEW s \in Subs(h), Yields(s),
              Segment(s.at) = x.segment
       PROVE  x.at <= s.at
  <2>1. s.at \in TagsOf(h)
    BY <1>13 DEF TagsOf
  <2>2. s.at \in Nat /\ h.start <= s.at
    BY <1>1, <2>1, TagsAre
  <2>3. CASE x \in Range(o.entries)
    <3>1. PICK i \in 1..m : x.at \in TagsOf(rs[i])
      BY <1>6, <2>3
    <3>2. i \in 1..Len(rs) /\ i < m + 1
      BY <1>1
    <3>3. LaidOut(rs[i]) /\ End(rs[i]) <= rs[m + 1].start
      BY <1>1, <3>2 DEF HeapsLaid
    <3>4. x.at \in Nat /\ x.at < End(rs[i])
      BY <3>1, <3>3, TagsAre
    <3>5. End(rs[i]) \in Nat /\ h.start \in Nat
      <4>1. h.start \in Nat /\ rs[i].start \in Nat /\ rs[i].length \in Nat
        BY <1>1, <3>3 DEF LaidOut
      <4> QED BY <4>1 DEF End
    <3> QED BY <2>2, <3>3, <3>4, <3>5
  <2>4. CASE /\ x \in Range(f)
             /\ \A y \in Range(f) : y.segment = x.segment => x.at <= y.at
    <3>1. PICK y \in Range(f) : y.segment = Segment(s.at) /\ y.at <= s.at
      BY <1>5, <1>13
    <3>2. x.at <= y.at /\ x.at \in Nat /\ y.at \in Nat
      BY <1>4, <1>13, <2>4, <3>1
    <3> QED BY <2>2, <3>1, <3>2
  <2> QED BY <1>8, <2>3, <2>4
<1> QED BY <1>11, <1>12, <1>13

\* Nothing extracted, nothing filed.
LEMMA OutInit == Init => OutInv
<1> SUFFICES ASSUME Init PROVE OutInv
  OBVIOUS
<1>1. out = EmptyOutput /\ merged = 0
  BY DEF Init, InitExtraction
<1>2. IsSeq(<<>>) /\ Len(<<>>) = 0 /\ Range(<<>>) = {}
  BY DEF IsSeq, Range
<1>3. /\ out.builder = NewBuilder /\ out.entries = <<>> /\ out.roots = <<>>
      /\ out.threads = <<>> /\ out.dumps = <<>> /\ out.log = NoWarnings
  BY <1>1 DEF EmptyOutput
<1>4. IsFiniteSet({})
  BY FS_EmptySet
<1>5. BuilderOK(NewBuilder) /\ Built(NewBuilder) = {}
  <2>1. PICK b : b = NewBuilder
    OBVIOUS
  <2>2. b = [current |-> NoSegment, ids |-> {}, filters |-> <<>>, failed |-> {}]
    BY <2>1 DEF NewBuilder
  <2>3. /\ Built(b) = FiledFrom(<<>>) \cup FailedIn({}) \cup ({NoSegment} \X {})
        /\ BuilderOK(b)
    <3>1. PICK g, I, F, X : g = NoSegment /\ I = {} /\ F = <<>> /\ X = {}
      OBVIOUS
    <3>2. b = [current |-> g, ids |-> I, filters |-> F, failed |-> X]
      BY <2>2, <3>1
    <3>3. FiltersOK(F, X) /\ g \in Nat \cup {NoSegment} /\ (g = NoSegment => I = {})
      BY <1>2, <1>4, <3>1 DEF FiltersOK
    <3>4. /\ Built(b) = FiledFrom(F) \cup FailedIn(X) \cup ({g} \X I)
          /\ BuilderOK(b)
      BY ONLY <3>2, <3>3, BuiltIs
    <3> QED BY <3>1, <3>4
  <2>4. FiledFrom(<<>>) = {}
    <3>1. FiledFrom(<<>>) = Filing!Fold({}, <<>>)
      BY DEF Filing!Fold, FoldLeft, Filing!FoldLeft, MapThenFoldSet,
         Filing!MapThenFoldSet, Max, Filing!Max, FiledFrom
    <3>2. Filing!Fold({}, <<>>) = {}
      BY Filing!FoldEmpty
    <3> QED BY <3>1, <3>2
  <2>5. FailedIn({}) = {}
    BY DEF FailedIn
  <2>6. {NoSegment} \X {} = {}
    OBVIOUS
  <2> QED BY <2>1, <2>3, <2>4, <2>5, <2>6
<1>6. LogOK(NoWarnings)
  BY ScanAssumption DEF LogOK, NoWarnings, Min2
<1>7. EntriesOK(<<>>)
  BY <1>2 DEF EntriesOK
<1>8. OutOK(out)
  BY <1>2, <1>3, <1>5, <1>6, <1>7 DEF OutOK
<1>9. EntriesFor(out.entries, Built(out.builder), ranges, merged)
  BY <1>2, <1>3, <1>5 DEF EntriesFor
<1> QED BY <1>8, <1>9 DEF OutInv

\* Once the scan is over, the heap records are known.
LEMMA AllScanned ==
    ASSUME ScanInv, phase # "scan"
    PROVE  ranges = HeapRecords
<1>1. PICK f, n : f = file.records /\ n = Len(f)
  OBVIOUS
<1>2. f \in Seq(Range(f)) /\ n \in Nat
  BY <1>1, Layout DEF ScanInv
<1>3. next - 1 = n
  BY <1>1, <1>2 DEF ScanInv
<1>4. SubSeq(f, 1, n) = f
  BY <1>1, <1>2, SubSeqFull
<1>5. ranges = AsHeaps(Keep(f, Heapish))
  BY <1>1, <1>3, <1>4 DEF ScanInv
<1> QED BY <1>1, <1>5 DEF HeapRecords, AsHeaps, Heapish

\* What a run cannot choose stays as it is.
LEMMA SetupStays == [Next]_engineVars => setup' = setup
<1> SUFFICES ASSUME [Next]_engineVars PROVE setup' = setup
  OBVIOUS
<1>1. CASE NextScan /\ UNCHANGED extractVars
  BY <1>1 DEF extractVars
<1>2. CASE NextExtraction
  BY <1>2 DEF NextExtraction, ExtractNext, StartBatch, FinishTask, MergeNext,
     EndExtraction, extractVars
<1>3. CASE LateFrame
  BY <1>3 DEF LateFrame, extractVars
<1>4. CASE UNCHANGED engineVars
  BY <1>4 DEF engineVars, extractVars
<1> QED BY <1>1, <1>2, <1>3, <1>4, StepShape

\* A record is merged, or what is extracted stays as it is.
LEMMA MergeShape ==
    ASSUME ScanInv, OrderInv, [Next]_engineVars
    PROVE  \/ UNCHANGED <<out, merged>> /\ (ranges' = ranges \/ phase = "scan")
           \/ /\ phase = "extract" /\ ranges' = ranges
              /\ merged < Len(ranges)
              /\ out' = MergeAll(out, Chunks(ranges[merged + 1]))
              /\ merged' = merged + 1
<1>1. CASE NextScan /\ UNCHANGED extractVars
  BY <1>1 DEF NextScan, ScanHeap, ScanOther, ScanKnown, ScanEnd, Scanning, extractVars
<1>2. CASE NextExtraction
  <2>1. CASE ExtractNext
    <3>1. taken = merged /\ merged < Len(ranges)
      BY <2>1 DEF ExtractNext, OrderInv
    <3>2. phase = "extract" /\ ranges' = ranges
      BY <2>1 DEF ExtractNext, Extracting, scanVars
    <3> QED BY <2>1, <3>1, <3>2 DEF ExtractNext, MergeRecord, MergeAll
  <2>2. CASE MergeNext
    <3>1. FirstArrived(arrived) = merged + 1 /\ merged < taken
      BY <2>2, NextToMerge DEF MergeNext
    <3>2. merged < Len(ranges)
      <4>1. Len(ranges) \in Nat
        BY RangesLaid DEF HeapsLaid
      <4> QED BY <3>1, <4>1 DEF OrderInv
    <3>3. phase = "extract" /\ ranges' = ranges
      BY <2>2 DEF MergeNext, Extracting, scanVars
    <3> QED BY <2>2, <3>1, <3>2, <3>3 DEF MergeNext, MergeRecord, MergeAll
  <2>3. CASE StartBatch \/ FinishTask \/ EndExtraction
    BY <2>3 DEF StartBatch, FinishTask, EndExtraction, Extracting, scanVars, extractVars
  <2> QED BY <1>2, <2>1, <2>2, <2>3 DEF NextExtraction
<1>3. CASE LateFrame
  BY <1>3 DEF LateFrame, extractVars
<1>4. CASE UNCHANGED engineVars
  BY <1>4 DEF engineVars, scanVars, extractVars
<1> QED BY <1>1, <1>2, <1>3, <1>4, StepShape

\* What is extracted stays in order.
LEMMA OutStep ==
    ScanInv /\ OrderInv /\ OutInv /\ [Next]_engineVars => OutInv'
<1> SUFFICES ASSUME ScanInv, OrderInv, OutInv, [Next]_engineVars PROVE OutInv'
  OBVIOUS
<1>0. setup' = setup
  BY SetupStays
<1>1. CASE UNCHANGED <<out, merged>> /\ ranges' = ranges
  <2>1. OutOK(out)'
    BY <1>0, <1>1 DEF OutInv, OutOK, BuilderOK, FiltersOK
  <2>2. EntriesFor(out.entries, Built(out.builder), ranges, merged)'
    BY <1>1 DEF OutInv, EntriesFor
  <2> QED BY <2>1, <2>2 DEF OutInv
<1>2. CASE UNCHANGED <<out, merged>> /\ phase = "scan"
  <2>1. merged = 0
    BY <1>2 DEF OrderInv
  <2>2. \A i \in 1..0 : FALSE
    OBVIOUS
  <2>3. Range(out.entries) = {}
    BY <2>1, <2>2 DEF OutInv, EntriesFor
  <2>4. EntriesFor(out.entries, Built(out.builder), ranges, merged)'
    BY <1>2, <2>1, <2>3 DEF OutInv, EntriesFor
  <2>5. OutOK(out)'
    BY <1>0, <1>2 DEF OutInv, OutOK, BuilderOK, FiltersOK
  <2> QED BY <2>4, <2>5 DEF OutInv
<1>3. CASE /\ phase = "extract" /\ ranges' = ranges /\ merged < Len(ranges)
           /\ out' = MergeAll(out, Chunks(ranges[merged + 1]))
           /\ merged' = merged + 1
  <2>1. PICK h, o, r : h = ranges[merged + 1] /\ o = out /\ r = MergeAll(o, Chunks(h))
    OBVIOUS
  <2>2. HeapsLaid(ranges) /\ merged \in Nat /\ LaidOut(h)
    <3>1. HeapsLaid(ranges) /\ merged \in Nat /\ Len(ranges) \in Nat
      BY RangesLaid DEF OrderInv, HeapsLaid
    <3>2. merged + 1 \in 1..Len(ranges)
      BY <1>3, <3>1
    <3> QED BY <2>1, <3>1, <3>2 DEF HeapsLaid
  <2>3. OutOK(o) /\ EntriesFor(o.entries, Built(o.builder), ranges, merged)
    BY <2>1 DEF OutInv
  <2>4. OutOK(r) /\ Merges(h, o, r)
    BY <2>1, <2>2, <2>3, MergeHeap
  <2>5. EntriesFor(r.entries, Built(r.builder), ranges, merged + 1)
    BY <1>3, <2>1, <2>2, <2>3, <2>4, EntriesTaken
  <2>6. out' = r
    BY <1>3, <2>1
  <2>7. OutOK(out)'
    BY <1>0, <2>4, <2>6 DEF OutOK, BuilderOK, FiltersOK
  <2>8. EntriesFor(out'.entries, Built(out'.builder), ranges', merged')
    BY <1>3, <2>5, <2>6
  <2> QED BY <2>7, <2>8 DEF OutInv, EntriesFor
<1> QED BY <1>1, <1>2, <1>3, MergeShape

\* What is extracted, as OrderedHeap sees it, is what the extraction sees.
LEMMA SameHeap ==
    ASSUME NEW h
    PROVE  /\ Ordered!Extracted(h) = Extracted(h)
           /\ Ordered!Tags(h) = TagsOf(h)
           /\ Ordered!Places(h) = PlacesIn(h)
           /\ Ordered!Objects(h) = {t \in Subs(h) : Yields(t) /\ t.kind \in ObjectKinds}
<1>1. /\ Ordered!Subs(h) = Subs(h) /\ \A s : Ordered!Yields(s) = Yields(s)
      /\ \A at : Ordered!Segment(at) = Segment(at)
      /\ Ordered!ObjectKinds = ObjectKinds
  BY DEF Ordered!Subs, Subs, Ordered!Yields, Yields, Ordered!Segment, Segment,
     Ordered!ObjectKinds, ObjectKinds
<1>2. \A s, T : Ordered!Keep(s, T) = Keep(s, T)
  BY DEF Ordered!Keep, Keep
<1>3. {s \in Subs(h) : Ordered!Yields(s)} = {s \in Subs(h) : Yields(s)}
  BY <1>1
<1>4. Ordered!Extracted(h) = Extracted(h)
  BY <1>1, <1>2, <1>3 DEF Ordered!Extracted, Extracted
<1>5. Ordered!Objects(h) = {t \in Subs(h) : Yields(t) /\ t.kind \in ObjectKinds}
  BY <1>1 DEF Ordered!Objects
<1>6. Ordered!Tags(h) = TagsOf(h)
  BY <1>1, <1>3 DEF Ordered!Tags, TagsOf
<1>7. Ordered!Places(h) = PlacesIn(h)
  BY <1>1, <1>5 DEF Ordered!Places, PlacesIn
<1> QED BY <1>4, <1>5, <1>6, <1>7

LEMMA SameKind ==
    ASSUME NEW s, NEW kind
    PROVE  Ordered!OfKind(s, kind) = KindOf(s, {kind})
<1>1. \A t, T : Ordered!Keep(t, T) = Keep(t, T)
  BY DEF Ordered!Keep, Keep
<1>2. {s[i] : i \in {j \in DOMAIN s : s[j].kind = kind}}
        = {x \in Range(s) : x.kind \in {kind}}
  BY DEF Range
<1> QED BY <1>1, <1>2 DEF Ordered!OfKind, KindOf

\* At the start nothing is taken up.
LEMMA OrderedInit == Init => Ordered!Init
<1> SUFFICES ASSUME Init PROVE Ordered!Init
  OBVIOUS
<1>1. /\ out.roots = <<>> /\ out.threads = <<>> /\ out.dumps = <<>>
      /\ merged = 0 /\ out.entries = <<>>
  BY DEF Init, InitExtraction, EmptyOutput
<1>2. Built(out.builder) = {}
  <2>1. \A p \in Built(out.builder) : \E x \in Range(out.entries) : x.segment = p[1]
    BY OutInit DEF OutInv, EntriesFor
  <2>2. Range(out.entries) = {}
    BY <1>1 DEF Range
  <2> QED BY <2>1, <2>2
<1>3. [g \in {p[1] : p \in Built(out.builder)} |-> EntryOf(out.entries, g)] = <<>>
  <2>1. {p[1] : p \in Built(out.builder)} = {}
    BY <1>2
  <2>2. PICK f : f = [g \in {p[1] : p \in Built(out.builder)} |-> EntryOf(out.entries, g)]
    OBVIOUS
  <2>3. f = [g \in {} |-> EntryOf(out.entries, g)]
    BY <2>1, <2>2
  <2>4. f \in [{} -> {}] /\ <<>> \in [{} -> {}]
    BY <2>3
  <2>5. \A x \in [{} -> {}] : \A y \in [{} -> {}] : x = y
    OBVIOUS
  <2> QED BY <2>2, <2>4, <2>5
<1> QED BY <1>1, <1>2, <1>3 DEF Ordered!Init

\* The dump stays as it is.
LEMMA FileStays == [Next]_engineVars => file' = file
<1>1. CASE NextScan
  BY <1>1 DEF NextScan, ScanHeap, ScanOther, ScanKnown, ScanEnd, Advance
<1>2. CASE NextExtraction
  BY <1>2 DEF NextExtraction, ExtractNext, StartBatch, FinishTask, MergeNext,
     EndExtraction, Extracting, scanVars
<1>3. CASE LateFrame
  BY <1>3 DEF LateFrame
<1>4. CASE UNCHANGED engineVars
  BY <1>4 DEF engineVars, scanVars
<1> QED BY <1>1, <1>2, <1>3, <1>4, StepShape

\* A record merged is a record taken up.
LEMMA TakenUp ==
    ASSUME ScanInv, OrderInv, OutInv, phase = "extract", ranges' = ranges, file' = file,
           merged < Len(ranges), out' = MergeAll(out, Chunks(ranges[merged + 1])),
           merged' = merged + 1
    PROVE  Ordered!Next
<1>1. PICK h, o, r : h = ranges[merged + 1] /\ o = out /\ r = MergeAll(o, Chunks(h))
  OBVIOUS
<1>2. HeapsLaid(ranges) /\ merged \in Nat /\ LaidOut(h)
  <2>1. HeapsLaid(ranges)
    BY RangesLaid
  <2>2. merged \in Nat
    BY DEF OrderInv
  <2>3. Len(ranges) \in Nat
    BY ONLY <2>1 DEF HeapsLaid
  <2>4. merged + 1 \in 1..Len(ranges)
    BY <2>2, <2>3
  <2> QED BY ONLY <1>1, <2>1, <2>2, <2>4 DEF HeapsLaid
<1>3. OutOK(o) /\ EntriesFor(o.entries, Built(o.builder), ranges, merged)
  BY <1>1 DEF OutInv
<1>4. OutOK(r) /\ Merges(h, o, r) /\ out' = r
  BY <1>1, <1>2, <1>3, MergeHeap
<1>5. /\ EntriesFor(r.entries, Built(r.builder), ranges, merged + 1)
      /\ \A x \in Range(o.entries) : EntryOf(r.entries, x.segment) = x.at
      /\ \A x \in Range(r.entries) : \A s \in Subs(h) :
           Yields(s) /\ s.kind \in ObjectKinds /\ Segment(s.at) = x.segment => x.at <= s.at
  BY <1>1, <1>2, <1>3, <1>4, EntriesTaken
<1>6. HeapRecords = ranges /\ HeapRecords' = HeapRecords
  BY AllScanned DEF HeapRecords
<1> DEFINE from(p) == {q[1] : q \in p}
           entryOf(w) == [g \in from(Built(w.builder)) |-> EntryOf(w.entries, g)]
<1>7. \A g \in from(Built(o.builder)) : entryOf(r)[g] = entryOf(o)[g]
  <2> SUFFICES ASSUME NEW p \in Built(o.builder)
               PROVE  entryOf(r)[p[1]] = entryOf(o)[p[1]]
    OBVIOUS
  <2>1. PICK x \in Range(o.entries) : x.segment = p[1] /\ x.at \in Nat
    BY <1>3 DEF EntriesFor
  <2>2. EntryOf(o.entries, p[1]) = x.at
    BY <1>3, <2>1, EntryIs DEF OutOK
  <2>3. EntryOf(r.entries, p[1]) = x.at
    BY <1>5, <2>1
  <2>4. p \in Built(r.builder)
    BY <1>4 DEF Merges
  <2> QED BY <2>2, <2>3, <2>4
<1>8. ASSUME NEW g \in from(Built(r.builder))
      PROVE  /\ Segment(entryOf(r)[g]) = g
             /\ \A s \in Ordered!Objects(h) : Segment(s.at) = g => entryOf(r)[g] <= s.at
             /\ \E i \in 1..(merged + 1) : entryOf(r)[g] \in TagsOf(ranges[i])
  <2>1. PICK x \in Range(r.entries) : /\ x.segment = g /\ x.at \in Nat
                                      /\ x.segment = Segment(x.at)
                                      /\ \E i \in 1..(merged + 1) : x.at \in TagsOf(ranges[i])
    BY <1>5 DEF EntriesFor
  <2>2. entryOf(r)[g] = x.at
    BY <1>4, <2>1, EntryIs DEF OutOK
  <2> HIDE DEF entryOf
  <2> QED BY <1>5, <2>1, <2>2, SameHeap
<1> DEFINE entry == entryOf(out)
<1>9. entry = entryOf(o) /\ entry' = entryOf(r)
  BY <1>1, <1>4
<1>10. /\ out'.roots   = out.roots   \o Ordered!OfKind(Ordered!Extracted(h), "frameRoot")
       /\ out'.threads = out.threads \o Ordered!OfKind(Ordered!Extracted(h), "threadRoot")
       /\ out'.dumps   = out.dumps   \o Ordered!OfKind(Ordered!Extracted(h), "class")
       /\ Built(out.builder)' = Built(out.builder) \cup Ordered!Places(h)
  <2>1. /\ r.roots   = o.roots   \o Ordered!OfKind(Ordered!Extracted(h), "frameRoot")
        /\ r.threads = o.threads \o Ordered!OfKind(Ordered!Extracted(h), "threadRoot")
        /\ r.dumps   = o.dumps   \o Ordered!OfKind(Ordered!Extracted(h), "class")
    BY <1>4, SameHeap, SameKind DEF Merges
  <2>2. Built(r.builder) = Built(o.builder) \cup Ordered!Places(h)
    BY <1>4, SameHeap DEF Merges
  <2>3. Built(out.builder)' = Built(r.builder)
    BY <1>4
  <2> QED BY <1>1, <1>4, <2>1, <2>2, <2>3
<1>11. /\ DOMAIN entry' = Ordered!SegmentsOf(Built(out.builder)')
       /\ \A g \in DOMAIN entry : entry'[g] = entry[g]
       /\ \A g \in DOMAIN entry' \ DOMAIN entry :
            /\ Ordered!Segment(entry'[g]) = g
            /\ \A s \in Ordered!Objects(h) : Ordered!Segment(s.at) = g => entry'[g] <= s.at
            /\ \E i \in 1..(merged + 1) : entry'[g] \in Ordered!Tags(HeapRecords[i])
  <2>1. DOMAIN entryOf(o) = from(Built(o.builder)) /\ DOMAIN entryOf(r) = from(Built(r.builder))
    OBVIOUS
  <2>2. \A a : Ordered!Segment(a) = Segment(a)
    BY DEF Ordered!Segment, Segment
  <2>3. from(Built(r.builder)) = Ordered!SegmentsOf(Built(out.builder)')
    BY <1>4 DEF Ordered!SegmentsOf
  <2>4. PICK eo, er : eo = entryOf(o) /\ er = entryOf(r)
    OBVIOUS
  <2>5. \A g \in DOMAIN eo : er[g] = eo[g]
    BY <1>7, <2>1, <2>4
  <2>6. \A g \in DOMAIN er :
          /\ Ordered!Segment(er[g]) = g
          /\ \A s \in Ordered!Objects(h) : Ordered!Segment(s.at) = g => er[g] <= s.at
          /\ \E i \in 1..(merged + 1) : er[g] \in Ordered!Tags(HeapRecords[i])
    <3> HIDE DEF entryOf
    <3> QED BY <1>6, <1>8, <2>1, <2>2, <2>4, SameHeap
  <2> HIDE DEF entryOf, entry
  <2> QED BY <1>9, <2>1, <2>3, <2>4, <2>5, <2>6
<1>12. Ordered!TakeUp(HeapRecords[merged + 1])
  <2>1. h = HeapRecords[merged + 1]
    BY <1>1, <1>6
  <2> HIDE DEF entry, entryOf
  <2>2. /\ out'.roots   = out.roots
                          \o Ordered!OfKind(Ordered!Extracted(HeapRecords[merged + 1]), "frameRoot")
        /\ out'.threads = out.threads
                          \o Ordered!OfKind(Ordered!Extracted(HeapRecords[merged + 1]), "threadRoot")
        /\ out'.dumps   = out.dumps
                          \o Ordered!OfKind(Ordered!Extracted(HeapRecords[merged + 1]), "class")
        /\ Built(out.builder)' = Built(out.builder) \cup Ordered!Places(HeapRecords[merged + 1])
    BY <1>10, <2>1
  <2>3. \A g \in DOMAIN entry' \ DOMAIN entry :
            /\ Ordered!Segment(entry'[g]) = g
            /\ \A s \in Ordered!Objects(HeapRecords[merged + 1]) :
                 Ordered!Segment(s.at) = g => entry'[g] <= s.at
            /\ \E i \in 1..(merged + 1) : entry'[g] \in Ordered!Tags(HeapRecords[i])
    BY <1>11, <2>1
  <2>4. entry = [g \in {p[1] : p \in Built(out.builder)} |-> EntryOf(out.entries, g)]
    BY DEF entry, entryOf
  <2>5. entry' = [g \in {p[1] : p \in Built(out.builder)} |-> EntryOf(out.entries, g)]'
    BY DEF entry, entryOf
  <2> QED BY <1>11, <2>2, <2>3, <2>4, <2>5 DEF Ordered!TakeUp
<1> HIDE DEF entry, entryOf
<1> QED BY <1>1, <1>6, <1>12 DEF Ordered!Next

\* Every step is a step of OrderedHeap or changes nothing it sees.
LEMMA OrderedStep ==
    ScanInv /\ OrderInv /\ OutInv /\ [Next]_engineVars => [Ordered!Next]_(Ordered!vars)
<1> SUFFICES ASSUME ScanInv, OrderInv, OutInv, [Next]_engineVars
             PROVE  [Ordered!Next]_(Ordered!vars)
  OBVIOUS
<1>1. CASE UNCHANGED <<out, merged>>
  <2>1. HeapRecords' = HeapRecords
    BY FileStays DEF HeapRecords
  <2>2. [g \in {p[1] : p \in Built(out.builder)} |-> EntryOf(out.entries, g)]'
          = [g \in {p[1] : p \in Built(out.builder)} |-> EntryOf(out.entries, g)]
    BY <1>1
  <2>3. Built(out.builder)' = Built(out.builder)
    BY <1>1
  <2> QED BY <1>1, <2>1, <2>2, <2>3 DEF Ordered!vars
<1>2. CASE ~UNCHANGED <<out, merged>>
  BY <1>2, MergeShape, FileStays, TakenUp
<1> QED BY <1>1, <1>2

\* The parallel extraction implements the sequential one, whatever the number of
\* threads, the budget, the cuts into batches and chunks and the order in which the
\* tasks end (heap_extraction.rs extract_all, merge_segment_result).
THEOREM ExtractionCorrect == Spec => ExtractionIsOrdered
<1>1. Init => OutInv
  BY OutInit
<1>2. FirstInv /\ OutInv /\ [Next]_engineVars => OutInv'
  BY OutStep DEF FirstInv
<1>3. FirstInv /\ OutInv /\ [Next]_engineVars => [Ordered!Next]_(Ordered!vars)
  BY OrderedStep DEF FirstInv
<1> QED BY <1>1, <1>2, <1>3, FirstPassOrder, OrderedInit, PTL
        DEF Spec, ExtractionIsOrdered, Ordered!Spec

-----------------------------------------------------------------------------
(* The places of objects                                                   *)

\* A place of an object of that id in one of those heap records.
IsPlace(heaps, id, at) ==
    \E h \in heaps : \E s \in Subs(h) :
       s.kind \in ObjectKinds /\ s.id = id /\ s.at = at

Offsets == index.instance_offsets
OffsetsInv == "instance_offsets" \in DOMAIN index /\ OffsetsAreTrue

\* The least of a set of numbers is one of them.
LEMMA LeastIsIn ==
    ASSUME NEW S, S \subseteq Nat, S # {}
    PROVE  Least(S) \in S /\ \A y \in S : Least(S) <= y
<1>1. \E x \in S : \A y \in S : x <= y
  BY NatMinimum
<1> QED BY <1>1 DEF Least

\* What one reader finds in one record.
LEMMA FirstInIs ==
    ASSUME NEW h, LaidOut(h), NEW kind, NEW id, FirstIn(h, kind, id) # NotFound
    PROVE  \E s \in Subs(h) : /\ Yields(s) /\ s.kind = kind /\ s.id = id
                              /\ s.at = FirstIn(h, kind, id) /\ s.at \in Nat
<1> DEFINE found == {s.at : s \in {t \in Subs(h) : Yields(t) /\ t.kind = kind /\ t.id = id}}
<1>1. found # {} /\ FirstIn(h, kind, id) = Least(found)
  BY DEF FirstIn
<1>2. found \subseteq TagsOf(h)
  BY DEF TagsOf
<1>3. found \subseteq Nat
  BY <1>2, TagsAre
<1>4. Least(found) \in found
  <2> HIDE DEF found
  <2> QED BY <1>1, <1>3, LeastIsIn
<1>5. PICK s \in Subs(h) : Yields(s) /\ s.kind = kind /\ s.id = id /\ s.at = Least(found)
  BY <1>4
<1> HIDE DEF found
<1> QED BY <1>1, <1>3, <1>4, <1>5

\* What a search through the candidate records finds is the place of such an object.
LEMMA FindInIs ==
    ASSUME NEW rs, HeapsLaid(rs), NEW fs, NEW kind, NEW id,
           FindIn(rs, fs, kind, id) # NotFound
    PROVE  \E i \in 1..Len(rs) : \E s \in Subs(rs[i]) :
             Yields(s) /\ s.kind = kind /\ s.id = id /\ s.at = FindIn(rs, fs, kind, id)
<1> DEFINE hits == {FirstIn(rs[i], kind, id) :
                      i \in {j \in DOMAIN rs :
                               \E g \in Candidates(fs, id) : Overlaps(rs[j], g)}} \ {NotFound}
<1>1. hits # {} /\ FindIn(rs, fs, kind, id) = Least(hits)
  BY DEF FindIn
<1>2. DOMAIN rs = 1..Len(rs) /\ \A i \in 1..Len(rs) : LaidOut(rs[i])
  BY DEF HeapsLaid
<1>3. ASSUME NEW x \in hits
      PROVE  x \in Nat /\ \E i \in 1..Len(rs) : x = FirstIn(rs[i], kind, id) /\ x # NotFound
  <2>1. PICK i \in 1..Len(rs) : x = FirstIn(rs[i], kind, id) /\ x # NotFound
    BY <1>2
  <2> QED BY <1>2, <2>1, FirstInIs
<1>4. Least(hits) \in hits
  <2>1. hits \subseteq Nat
    BY <1>3
  <2> HIDE DEF hits
  <2> QED BY <1>1, <2>1, LeastIsIn
<1>5. PICK i \in 1..Len(rs) : /\ Least(hits) = FirstIn(rs[i], kind, id)
                              /\ Least(hits) # NotFound
  BY <1>3, <1>4
<1> HIDE DEF hits
<1> QED BY <1>1, <1>2, <1>5, FirstInIs

\* What the bounded look-up of the first pass finds is the place of an object of that
\* id, whatever it was looked up in.
LEMMA LookedUpIs ==
    ASSUME NEW rs, HeapsLaid(rs), NEW fs, NEW es, NEW ids,
           NEW id \in DOMAIN LookedUp(rs, fs, es, ids)
    PROVE  id \in ids /\ IsPlace(Range(rs), id, LookedUp(rs, fs, es, ids)[id])
<1> DEFINE found == UNION {FoundIn(rs, es, fs[i].segment, ids \cap fs[i].ids)
                        : i \in {j \in DOMAIN fs :
                                   EntryOf(es, fs[j].segment) # NotFound}}
           at == {s.at : s \in {t \in found : t.id = id}}
<1>1. LookedUp(rs, fs, es, ids)
        = [x \in {s.id : s \in found} |-> Least({s.at : s \in {t \in found : t.id = x}})]
  BY DEF LookedUp
<1>2. LookedUp(rs, fs, es, ids)[id] = Least(at) /\ \E s \in found : s.id = id
  <2> HIDE DEF found
  <2> QED BY <1>1
<1>3. ASSUME NEW s \in found
      PROVE  /\ s.kind \in ObjectKinds /\ s.id \in ids /\ s.at \in Nat
             /\ \E h \in Range(rs) : s \in Subs(h)
  <2>1. PICK j \in DOMAIN fs : s \in FoundIn(rs, es, fs[j].segment, ids \cap fs[j].ids)
    OBVIOUS
  <2>2. PICK w \in Windows(rs, es, fs[j].segment) :
          s \in WindowObjects(w.record, w.from, w.to, ids \cap fs[j].ids)
    BY <2>1 DEF FoundIn
  <2>3. PICK i \in DOMAIN rs : w.record = rs[i]
    BY <2>2 DEF Windows
  <2>4. s \in Subs(rs[i]) /\ s.kind \in ObjectKinds /\ s.id \in ids
    BY <2>2, <2>3 DEF WindowObjects
  <2>5. i \in 1..Len(rs) /\ rs[i] \in Range(rs) /\ LaidOut(rs[i])
    BY <2>3 DEF HeapsLaid
  <2>6. s.at \in Nat
    <3>1. PICK k \in DOMAIN rs[i].subs : s = rs[i].subs[k]
      BY <2>4 DEF Subs
    <3>2. k \in 1..Len(rs[i].subs)
      BY <2>5 DEF LaidOut
    <3> QED BY <2>5, <3>1, <3>2 DEF LaidOut
  <2> QED BY <2>4, <2>5, <2>6
<1>4. at \subseteq Nat /\ at # {}
  <2> HIDE DEF found
  <2> QED BY <1>2, <1>3
<1>5. Least(at) \in at
  <2> HIDE DEF at
  <2> QED BY <1>4, LeastIsIn
<1>6. PICK s \in found : s.id = id /\ s.at = Least(at)
  BY <1>5
<1> HIDE DEF found, at
<1> QED BY <1>2, <1>3, <1>6 DEF IsPlace

\* More places, all true, over those there are.
LEMMA OverTrue ==
    ASSUME NEW heaps, NEW f, NEW g,
           \A id \in DOMAIN f : IsPlace(heaps, id, f[id]),
           \A id \in DOMAIN g : IsPlace(heaps, id, g[id])
    PROVE  \A id \in DOMAIN Over(f, g) : IsPlace(heaps, id, Over(f, g)[id])
BY DEF Over

Threading == INSTANCE LeftFold WITH Op <- PutThreadObject
Rooting   == INSTANCE LeftFold WITH Op <- PutFrameRoot

\* Thread objects and frame roots leave the places alone.
LEMMA RootsKeepOffsets ==
    ASSUME NEW ix, NEW s, IsSeq(s), "instance_offsets" \in DOMAIN ix
    PROVE  /\ FoldLeft(PutThreadObject, ix, s).instance_offsets = ix.instance_offsets
           /\ "instance_offsets" \in DOMAIN FoldLeft(PutThreadObject, ix, s)
           /\ FoldLeft(PutFrameRoot, ix, s).instance_offsets = ix.instance_offsets
           /\ "instance_offsets" \in DOMAIN FoldLeft(PutFrameRoot, ix, s)
<1>1. PICK n \in Nat : n = Len(s) /\ DOMAIN s = 1..n
  BY DEF IsSeq
<1> DEFINE Same(x) == /\ x.instance_offsets = ix.instance_offsets
                      /\ "instance_offsets" \in DOMAIN x
<1>2. Same(ix)
  OBVIOUS
<1>3. ASSUME NEW x, NEW r, Same(x)
      PROVE  Same(PutThreadObject(x, r)) /\ Same(PutFrameRoot(x, r))
  <2>1. Same(PutThreadObject(x, r))
    BY <1>3 DEF PutThreadObject
  <2>2. Same(PutFrameRoot(x, r))
    BY <1>3 DEF PutFrameRoot
  <2> QED BY <2>1, <2>2
<1> HIDE DEF Same
<1>4. Same(FoldLeft(PutThreadObject, ix, s))
  <2>1. FoldLeft(PutThreadObject, ix, s) = Threading!Fold(ix, s)
    BY DEF Threading!Fold, FoldLeft, Threading!FoldLeft, MapThenFoldSet,
       Threading!MapThenFoldSet, Max, Threading!Max
  <2>2. \E v : Threading!Passes(ix, s, n, v)
    BY <1>1, Threading!FoldSteps
  <2>3. PICK v : /\ v[0] = ix
                 /\ \A i \in 1..n : v[i] = PutThreadObject(v[i - 1], s[i])
                 /\ Threading!Fold(ix, s) = v[n]
    BY <2>2 DEF Threading!Passes
  <2> DEFINE E == {i \in 0..n : Same(v[i])}
  <2>4. 0 \in E
    BY <1>2, <2>3
  <2>5. \A i \in 0..(n - 1) : i \in E => i + 1 \in E
    <3> SUFFICES ASSUME NEW i \in 0..(n - 1), Same(v[i])
                 PROVE  Same(v[i + 1]) /\ i + 1 \in 0..n
      OBVIOUS
    <3>1. i + 1 \in 1..n /\ i + 1 \in 0..n /\ (i + 1) - 1 = i
      OBVIOUS
    <3>2. v[i + 1] = PutThreadObject(v[i], s[i + 1])
      BY <2>3, <3>1
    <3> QED BY <1>3, <3>1, <3>2
  <2>6. n \in E
    <3> HIDE DEF E
    <3>1. 0..n \subseteq E
      BY <2>4, <2>5, StepInduction
    <3> QED BY <3>1
  <2> QED BY <2>1, <2>3, <2>6
<1>5. Same(FoldLeft(PutFrameRoot, ix, s))
  <2>1. FoldLeft(PutFrameRoot, ix, s) = Rooting!Fold(ix, s)
    BY DEF Rooting!Fold, FoldLeft, Rooting!FoldLeft, MapThenFoldSet,
       Rooting!MapThenFoldSet, Max, Rooting!Max
  <2>2. \E v : Rooting!Passes(ix, s, n, v)
    BY <1>1, Rooting!FoldSteps
  <2>3. PICK v : /\ v[0] = ix
                 /\ \A i \in 1..n : v[i] = PutFrameRoot(v[i - 1], s[i])
                 /\ Rooting!Fold(ix, s) = v[n]
    BY <2>2 DEF Rooting!Passes
  <2> DEFINE E == {i \in 0..n : Same(v[i])}
  <2>4. 0 \in E
    BY <1>2, <2>3
  <2>5. \A i \in 0..(n - 1) : i \in E => i + 1 \in E
    <3> SUFFICES ASSUME NEW i \in 0..(n - 1), Same(v[i])
                 PROVE  Same(v[i + 1]) /\ i + 1 \in 0..n
      OBVIOUS
    <3>1. i + 1 \in 1..n /\ i + 1 \in 0..n /\ (i + 1) - 1 = i
      OBVIOUS
    <3>2. v[i + 1] = PutFrameRoot(v[i], s[i + 1])
      BY <2>3, <3>1
    <3> QED BY <1>3, <3>1, <3>2
  <2>6. n \in E
    <3> HIDE DEF E
    <3>1. 0..n \subseteq E
      BY <2>4, <2>5, StepInduction
    <3> QED BY <3>1
  <2> QED BY <2>1, <2>3, <2>6
<1> QED BY <1>4, <1>5 DEF Same

\* What a step does to the places: nothing, or it enters some, all true.
LEMMA OffsetsStep ==
    ScanInv /\ OutInv /\ OffsetsInv /\ [Next]_engineVars => OffsetsInv'
<1> SUFFICES ASSUME ScanInv, OutInv, OffsetsInv, [Next]_engineVars
             PROVE  OffsetsInv'
  OBVIOUS
<1> DEFINE heaps == Range(HeapRecords)
<1>1. file' = file /\ heaps' = heaps
  BY FileStays DEF HeapRecords
<1>2. \A id \in DOMAIN Offsets : IsPlace(heaps, id, Offsets[id])
  BY DEF OffsetsInv, OffsetsAreTrue, Offsets, IsPlace, Heaps
<1>3. "instance_offsets" \in DOMAIN index
  BY DEF OffsetsInv
<1>4. CASE Offsets' = Offsets /\ "instance_offsets" \in DOMAIN index'
  <2>1. \A id \in DOMAIN Offsets' : IsPlace(heaps', id, Offsets'[id])
    BY <1>1, <1>2, <1>4
  <2> QED BY <1>4, <2>1 DEF OffsetsInv, OffsetsAreTrue, Offsets, IsPlace, Heaps
<1>5. CASE /\ \E f : /\ index' = [index EXCEPT !.instance_offsets = Over(f, @)]
                     /\ \A id \in DOMAIN f : IsPlace(heaps, id, f[id])
  <2>1. PICK f : /\ index' = [index EXCEPT !.instance_offsets = Over(f, @)]
                 /\ \A id \in DOMAIN f : IsPlace(heaps, id, f[id])
    BY <1>5
  <2>2. Offsets' = Over(f, Offsets) /\ "instance_offsets" \in DOMAIN index'
    BY <1>3, <2>1 DEF Offsets
  <2>3. PICK g : g = Offsets
    OBVIOUS
  <2>4. \A id \in DOMAIN Over(f, g) : IsPlace(heaps, id, Over(f, g)[id])
    <3>1. \A id \in DOMAIN g : IsPlace(heaps, id, g[id])
      BY <1>2, <2>3
    <3> HIDE DEF heaps
    <3> QED BY <2>1, <3>1, OverTrue
  <2>5. \A id \in DOMAIN Offsets' : IsPlace(heaps', id, Offsets'[id])
    BY <1>1, <2>2, <2>3, <2>4
  <2> QED BY <2>2, <2>5 DEF OffsetsInv, OffsetsAreTrue, Offsets, IsPlace, Heaps
<1> HIDE DEF heaps
<1>6. HeapsLaid(ranges)
  BY RangesLaid
<1>7. phase # "scan" => heaps = Range(ranges)
  BY AllScanned DEF heaps
<1>8. ASSUME NEW ids, phase # "scan",
             index' = [index EXCEPT !.instance_offsets =
                         Over(LookedUp(ranges, filters, entries, ids), @)]
      PROVE  OffsetsInv'
  <2>1. PICK f : f = LookedUp(ranges, filters, entries, ids)
    OBVIOUS
  <2>2. \A id \in DOMAIN f : IsPlace(heaps, id, f[id])
    BY <1>6, <1>7, <1>8, <2>1, LookedUpIs
  <2> QED BY <1>5, <1>8, <2>1, <2>2
<1>9. ASSUME NEW ids, phase # "scan", index' = Learnt(ids)
      PROVE  OffsetsInv'
  <2> DEFINE found == {id \in ids : PlaceOf(id) # NotFound}
             f == [id \in found |-> PlaceOf(id)]
  <2>1. index' = [index EXCEPT !.instance_offsets = Over(f, @)]
    BY <1>9 DEF Learnt
  <2>2. ASSUME NEW id \in found
        PROVE  IsPlace(heaps, id, PlaceOf(id))
    <3>1. CASE PlaceOf(id) = Offsets[id] /\ id \in DOMAIN Offsets
      BY <1>2, <3>1
    <3>2. CASE PlaceOf(id) = FindIn(ranges, filters, "instance", id)
      <4>1. FindIn(ranges, filters, "instance", id) # NotFound
        BY <3>2
      <4>2. PICK i \in 1..Len(ranges) : \E s \in Subs(ranges[i]) :
               /\ Yields(s) /\ s.kind = "instance" /\ s.id = id
               /\ s.at = FindIn(ranges, filters, "instance", id)
        BY <1>6, <4>1, FindInIs
      <4>3. ranges[i] \in Range(ranges)
        BY <1>6 DEF HeapsLaid
      <4> QED BY <1>7, <1>9, <3>2, <4>2, <4>3 DEF IsPlace, ObjectKinds
    <3> QED BY <3>1, <3>2 DEF PlaceOf, Offsets
  <2>3. \A id \in DOMAIN f : IsPlace(heaps, id, f[id])
    BY <2>2
  <2> HIDE DEF f
  <2> QED BY <1>5, <2>1, <2>3
<1>10. CASE NextScan /\ UNCHANGED <<extractVars, resolveVars, threadCache>>
  <2>1. CASE ScanKnown
    <3>1. CASE UNCHANGED index
      BY <1>3, <1>4, <3>1 DEF Offsets
    <3>2. CASE index' = Insert(Record)
      <4>1. Record.tag \in {"String", "LoadClass", "Frame", "Trace", "Thread"}
        BY <2>1 DEF ScanKnown, Known
      <4>2. Offsets' = Offsets /\ "instance_offsets" \in DOMAIN index'
        BY <1>3, <3>2, <4>1 DEF Insert, Offsets
      <4> QED BY <1>4, <4>2
    <3> QED BY <2>1, <3>1, <3>2 DEF ScanKnown
  <2>2. CASE ScanHeap \/ ScanOther \/ ScanEnd
    <3>1. index' = index
      BY <2>2 DEF ScanHeap, ScanOther, ScanEnd
    <3> QED BY <1>3, <1>4, <3>1 DEF Offsets
  <2> QED BY <1>10, <2>1, <2>2 DEF NextScan
<1>11. CASE NextExtraction
  <2>1. index' = index
    BY <1>11 DEF NextExtraction, ExtractNext, StartBatch, FinishTask, MergeNext,
       EndExtraction, Extracting, scanVars
  <2> QED BY <1>3, <1>4, <2>1 DEF Offsets
<1>12. CASE NextResolution
  <2>1. CASE Assemble
    <3>1. Offsets' = Offsets /\ "instance_offsets" \in DOMAIN index'
      <4>1. \E d, n : index' = [index EXCEPT !.class_dumps = d, !.field_names = n]
        BY <2>1 DEF Assemble
      <4> QED BY <1>3, <4>1 DEF Offsets
    <3> QED BY <1>4, <3>1
  <2>2. CASE Correlate
    <3>1. PICK traceOf \in TraceChoices :
            index' = FoldLeft(PutFrameRoot,
                              FoldLeft(PutThreadObject,
                                       [index EXCEPT !.threads = Synthesised(traceOf)],
                                       out.threads),
                              out.roots)
      BY <2>2 DEF Correlate
    <3>2. PICK x : x = [index EXCEPT !.threads = Synthesised(traceOf)]
      OBVIOUS
    <3>3. x.instance_offsets = Offsets /\ "instance_offsets" \in DOMAIN x
      BY <1>3, <3>2 DEF Offsets
    <3>4. PICK y : y = FoldLeft(PutThreadObject, x, out.threads)
      OBVIOUS
    <3>5. IsSeq(out.threads) /\ IsSeq(out.roots)
      BY DEF OutInv, OutOK
    <3>6. y.instance_offsets = Offsets /\ "instance_offsets" \in DOMAIN y
      BY <3>3, <3>4, <3>5, RootsKeepOffsets
    <3>7. PICK z : z = FoldLeft(PutFrameRoot, y, out.roots)
      OBVIOUS
    <3>8. z.instance_offsets = Offsets /\ "instance_offsets" \in DOMAIN z
      BY <3>5, <3>6, <3>7, RootsKeepOffsets
    <3>9. index' = z
      BY <3>1, <3>2, <3>4, <3>7
    <3> QED BY <1>4, <3>8, <3>9 DEF Offsets
  <2>3. CASE Round0 \/ Round1 \/ Round2
    <3>1. phase # "scan"
      BY <2>3 DEF Round0, Round1, Round2
    <3>2. \/ index' = index
          \/ \E ids : index' = [index EXCEPT !.instance_offsets =
                                  Over(LookedUp(ranges, filters, entries, ids), @)]
      BY <2>3 DEF Round0, Round1, Round2, RunBatchRound
    <3>3. CASE index' = index
      BY <1>3, <1>4, <3>3 DEF Offsets
    <3> QED BY <1>8, <3>1, <3>2, <3>3
  <2>4. CASE CheckClass \/ FinishPass
    <3>1. index' = index
      BY <2>4 DEF CheckClass, FinishPass
    <3> QED BY <1>3, <1>4, <3>1 DEF Offsets
  <2> QED BY <1>12, <2>1, <2>2, <2>3, <2>4 DEF NextResolution
<1>13. CASE ResolveThread \/ GetLocals \/ ExpandObject \/ GetStatics \/ ListThreads
  <2>1. phase # "scan"
    BY <1>13 DEF ResolveThread, GetLocals, ExpandObject, GetStatics, ListThreads, Open
  <2>2. index' = index \/ \E ids : index' = Learnt(ids)
    BY <1>13 DEF ResolveThread, GetLocals, ExpandObject, GetStatics, ListThreads
  <2>3. CASE index' = index
    BY <1>3, <1>4, <2>3 DEF Offsets
  <2> QED BY <1>9, <2>1, <2>2, <2>3
<1>14. CASE UNCHANGED engineVars
  <2>1. index' = index
    BY <1>14 DEF engineVars, scanVars
  <2> QED BY <1>3, <1>4, <2>1 DEF Offsets
<1> QED BY <1>10, <1>11, <1>12, <1>13, <1>14 DEF Next

\* Every place the index holds of an object is one, whoever entered it and whenever:
\* a later look that trusts it reads that object (precise.rs instance_offsets).
THEOREM OffsetsCorrect == Spec => []OffsetsAreTrue
<1>1. Init => OffsetsInv
  BY DEF Init, InitScan, EmptyIndex, OffsetsInv, OffsetsAreTrue
<1>2. Init => OutInv
  BY OutInit
<1>3. FirstInv /\ OutInv /\ [Next]_engineVars => OutInv'
  BY OutStep DEF FirstInv
<1>4. FirstInv /\ OutInv /\ OffsetsInv /\ [Next]_engineVars => OffsetsInv'
  BY OffsetsStep DEF FirstInv
<1>5. OffsetsInv => OffsetsAreTrue
  BY DEF OffsetsInv
<1> QED BY <1>1, <1>2, <1>3, <1>4, <1>5, FirstPassOrder, PTL DEF Spec

-----------------------------------------------------------------------------
(* The locals of the frames                                                *)

\* A root is of a frame, by the index of before the correlation.
RootOf(ix, r, f) ==
    LET frames == FramesOf(ix, r.thread)
    IN  r.frame + 1 \in DOMAIN frames /\ frames[r.frame + 1] = f

IdsOf(s) == [i \in DOMAIN s |-> s[i].id]

\* An index whose frames are as another's.
SameFrames(x, ix) == x.threads = ix.threads /\ x.stack_traces = ix.stack_traces

\* What one root does to the locals.
LEMMA RootFiled ==
    ASSUME NEW ix, NEW x, SameFrames(x, ix), "java_frame_roots" \in DOMAIN x,
           NEW r, NEW y, y = PutFrameRoot(x, r)
    PROVE  /\ SameFrames(y, ix) /\ "java_frame_roots" \in DOMAIN y
           /\ \A f : Get(y.java_frame_roots, f, <<>>) =
                       IF RootOf(ix, r, f) THEN Append(Get(x.java_frame_roots, f, <<>>), r.id)
                       ELSE Get(x.java_frame_roots, f, <<>>)
<1>1. PICK frames : frames = FramesOf(ix, r.thread)
  OBVIOUS
<1>2. FramesOf(x, r.thread) = frames
  BY <1>1 DEF FramesOf, SameFrames
<1>3. CASE r.frame + 1 \notin DOMAIN frames
  <2>1. y = x
    BY <1>2, <1>3 DEF PutFrameRoot
  <2>2. \A f : ~RootOf(ix, r, f)
    BY <1>1, <1>3 DEF RootOf
  <2> QED BY <2>1, <2>2
<1>4. CASE r.frame + 1 \in DOMAIN frames
  <2>1. PICK g : g = frames[r.frame + 1]
    OBVIOUS
  <2>2. \A f : RootOf(ix, r, f) <=> f = g
    BY <1>1, <1>4, <2>1 DEF RootOf
  <2>3. PICK m, e : m = x.java_frame_roots /\ e = Append(Get(m, g, <<>>), r.id)
    OBVIOUS
  <2>4. y = [x EXCEPT !.java_frame_roots = Put(m, g, e)]
    BY <1>2, <1>4, <2>1, <2>3 DEF PutFrameRoot
  <2>5. SameFrames(y, ix) /\ "java_frame_roots" \in DOMAIN y
        /\ y.java_frame_roots = Put(m, g, e)
    BY <2>4 DEF SameFrames
  <2>6. ASSUME NEW f
        PROVE  Get(Put(m, g, e), f, <<>>) = IF f = g THEN e ELSE Get(m, f, <<>>)
    <3>1. PICK q : q = Put(m, g, e)
      OBVIOUS
    <3>2. /\ DOMAIN q = {g} \cup DOMAIN m /\ q[g] = e
          /\ \A k \in DOMAIN m : k # g => q[k] = m[k]
      BY <3>1 DEF Put, Over
    <3> QED BY <3>1, <3>2 DEF Get
  <2>7. \A f : Get(y.java_frame_roots, f, <<>>) =
                 IF RootOf(ix, r, f) THEN Append(Get(m, f, <<>>), r.id)
                 ELSE Get(m, f, <<>>)
    <3> TAKE f
    <3>1. Get(y.java_frame_roots, f, <<>>) = IF f = g THEN e ELSE Get(m, f, <<>>)
      BY <2>5, <2>6
    <3>2. CASE f = g
      BY <2>2, <2>3, <3>1, <3>2
    <3>3. CASE f # g
      BY <2>2, <3>1, <3>3
    <3> QED BY <3>2, <3>3
  <2> QED BY <2>3, <2>5, <2>7
<1> QED BY <1>3, <1>4

\* What all of them do: a frame's locals are the roots that name it, in their order.
LEMMA LocalsFiled ==
    ASSUME NEW ix, "java_frame_roots" \in DOMAIN ix, ix.java_frame_roots = <<>>,
           NEW s, IsSeq(s), NEW z, z = FoldLeft(PutFrameRoot, ix, s)
    PROVE  /\ SameFrames(z, ix)
           /\ \A f : Get(z.java_frame_roots, f, <<>>)
                       = IdsOf(Keep(s, {r \in Range(s) : RootOf(ix, r, f)}))
<1>1. PICK n \in Nat : n = Len(s) /\ DOMAIN s = 1..n
  BY DEF IsSeq
<1>2. z = Rooting!Fold(ix, s)
  BY DEF Rooting!Fold, FoldLeft, Rooting!FoldLeft, MapThenFoldSet,
     Rooting!MapThenFoldSet, Max, Rooting!Max
<1>3. \E v : Rooting!Passes(ix, s, n, v)
  BY <1>1, Rooting!FoldSteps
<1>4. PICK v : /\ v[0] = ix
               /\ \A i \in 1..n : v[i] = PutFrameRoot(v[i - 1], s[i])
               /\ Rooting!Fold(ix, s) = v[n]
  BY <1>3 DEF Rooting!Passes
<1> DEFINE S == Range(s)
           T(f) == {r \in S : RootOf(ix, r, f)}
           upto(i) == SubSeq(s, 1, i)
           Filed(i) == /\ SameFrames(v[i], ix) /\ "java_frame_roots" \in DOMAIN v[i]
                       /\ \A f : Get(v[i].java_frame_roots, f, <<>>) = IdsOf(Keep(upto(i), T(f)))
           E == {i \in 0..n : Filed(i)}
<1>5. s \in Seq(S) /\ \A i \in 1..n : s[i] \in S
  BY <1>1 DEF IsSeq, Range
<1> HIDE DEF S, T
<1>6. upto(0) = <<>> /\ upto(n) = s
  BY <1>1, <1>5, SubSeqEmpty, SubSeqFull
<1>7. 0 \in E
  <2>1. \A f : Get(ix.java_frame_roots, f, <<>>) = <<>>
    <3>1. DOMAIN <<>> = {}
      OBVIOUS
    <3> QED BY <3>1 DEF Get
  <2>2. \A f : IdsOf(Keep(upto(0), T(f))) = <<>>
    <3> TAKE f
    <3>1. Keep(upto(0), T(f)) = <<>>
      BY <1>6, KeepEmpty
    <3>2. IdsOf(<<>>) = <<>>
      BY DEF IdsOf
    <3> QED BY <3>1, <3>2
  <2>3. SameFrames(ix, ix)
    BY DEF SameFrames
  <2> HIDE DEF upto
  <2> QED BY <1>4, <2>1, <2>2, <2>3
<1>8. \A i \in 0..(n - 1) : i \in E => i + 1 \in E
  <2> SUFFICES ASSUME NEW i \in 0..(n - 1), Filed(i) PROVE i + 1 \in E
    OBVIOUS
  <2>1. PICK j : j = i + 1 /\ j \in 1..n /\ j \in 0..n /\ j - 1 = i
    OBVIOUS
  <2>2. PICK x, y, r : x = v[i] /\ y = v[j] /\ r = s[j]
    OBVIOUS
  <2>3. y = PutFrameRoot(x, r) /\ r \in S
    BY <1>4, <1>5, <2>1, <2>2
  <2>4. /\ SameFrames(y, ix) /\ "java_frame_roots" \in DOMAIN y
        /\ \A f : Get(y.java_frame_roots, f, <<>>) =
                    IF RootOf(ix, r, f) THEN Append(Get(x.java_frame_roots, f, <<>>), r.id)
                    ELSE Get(x.java_frame_roots, f, <<>>)
    <3>1. SameFrames(x, ix) /\ "java_frame_roots" \in DOMAIN x
      BY <2>2
    <3> QED BY <2>3, <3>1, RootFiled
  <2>5. upto(i) \in Seq(S) /\ upto(j) = Append(upto(i), r)
    BY <1>1, <1>5, <2>1, <2>2
  <2> HIDE DEF upto
  <2>6. ASSUME NEW f
        PROVE  Get(y.java_frame_roots, f, <<>>) = IdsOf(Keep(upto(j), T(f)))
    <3>1. PICK k : k = Keep(upto(i), T(f))
      OBVIOUS
    <3>2. k \in Seq(S)
      BY <2>5, <3>1, KeepPlaces
    <3>3. Keep(upto(j), T(f)) = IF r \in T(f) THEN Append(k, r) ELSE k
      BY <2>3, <2>5, <3>1, KeepAppend
    <3>4. r \in T(f) <=> RootOf(ix, r, f)
      BY <2>3 DEF T
    <3>5. Get(x.java_frame_roots, f, <<>>) = IdsOf(k)
      BY <2>2, <3>1
    <3>6. IdsOf(Append(k, r)) = Append(IdsOf(k), r.id)
      BY <3>2 DEF IdsOf
    <3>7. Get(y.java_frame_roots, f, <<>>) = IF RootOf(ix, r, f) THEN Append(IdsOf(k), r.id)
                                            ELSE IdsOf(k)
      BY <2>4, <3>5
    <3> QED BY <3>3, <3>4, <3>6, <3>7
  <2> QED BY <2>1, <2>2, <2>4, <2>6
<1>9. Filed(n)
  <2> HIDE DEF Filed
  <2>1. 0..n \subseteq E
    <3> HIDE DEF E
    <3> QED BY <1>7, <1>8, StepInduction
  <2> QED BY <2>1
<1> HIDE DEF upto
<1> QED BY <1>2, <1>4, <1>6, <1>9 DEF S, T

\* Thread objects leave frames and locals as they are.
LocalFields == {"threads", "stack_traces", "java_frame_roots"}

LEMMA ThreadsKeepFrames ==
    ASSUME NEW ix, LocalFields \subseteq DOMAIN ix, NEW s, IsSeq(s),
           NEW y, y = FoldLeft(PutThreadObject, ix, s)
    PROVE  /\ LocalFields \subseteq DOMAIN y /\ y.stack_traces = ix.stack_traces
           /\ y.java_frame_roots = ix.java_frame_roots
<1>1. PICK n \in Nat : n = Len(s) /\ DOMAIN s = 1..n
  BY DEF IsSeq
<1> DEFINE Same(x) == /\ LocalFields \subseteq DOMAIN x /\ x.stack_traces = ix.stack_traces
                      /\ x.java_frame_roots = ix.java_frame_roots
<1>2. Same(ix)
  OBVIOUS
<1>3. ASSUME NEW x, NEW r, Same(x)
      PROVE  Same(PutThreadObject(x, r))
  BY <1>3 DEF PutThreadObject, LocalFields
<1> HIDE DEF Same
<1>4. y = Threading!Fold(ix, s)
  BY DEF Threading!Fold, FoldLeft, Threading!FoldLeft, MapThenFoldSet,
     Threading!MapThenFoldSet, Max, Threading!Max
<1>5. \E v : Threading!Passes(ix, s, n, v)
  BY <1>1, Threading!FoldSteps
<1>6. PICK v : /\ v[0] = ix
               /\ \A i \in 1..n : v[i] = PutThreadObject(v[i - 1], s[i])
               /\ Threading!Fold(ix, s) = v[n]
  BY <1>5 DEF Threading!Passes
<1> DEFINE E == {i \in 0..n : Same(v[i])}
<1>7. 0 \in E
  BY <1>2, <1>6
<1>8. \A i \in 0..(n - 1) : i \in E => i + 1 \in E
  <2> SUFFICES ASSUME NEW i \in 0..(n - 1), Same(v[i])
               PROVE  Same(v[i + 1]) /\ i + 1 \in 0..n
    OBVIOUS
  <2>1. i + 1 \in 1..n /\ i + 1 \in 0..n /\ (i + 1) - 1 = i
    OBVIOUS
  <2>2. v[i + 1] = PutThreadObject(v[i], s[i + 1])
    BY <1>6, <2>1
  <2> QED BY <1>3, <2>1, <2>2
<1>9. n \in E
  <2> HIDE DEF E
  <2>1. 0..n \subseteq E
    BY <1>7, <1>8, StepInduction
  <2> QED BY <2>1
<1> QED BY <1>4, <1>6, <1>9 DEF Same

\* The roots found so far are those of the heap records merged, and there are none of
\* any frame in the index before they are filed.
RootsInv ==
    /\ out.roots = FrameRoots(SubSeq(ranges, 1, merged))
    /\ \A r \in Range(out.roots) : r.frame \in Int
    /\ phase \in {"scan", "extract", "assemble", "correlate"} =>
         /\ LocalFields \subseteq DOMAIN index /\ index.java_frame_roots = <<>>
         /\ \A t \in DOMAIN index.stack_traces : IsSeq(index.stack_traces[t].frames)
    /\ LocalsInFileOrder

Rows == INSTANCE LeftFold WITH Op <- JoinRoots

LEMMA FrameRootsAre ==
    /\ FrameRoots(<<>>) = <<>>
    /\ \A R : \A hs \in Seq(R) : \A h \in R :
         FrameRoots(Append(hs, h)) = JoinRoots(FrameRoots(hs), h)
<1>1. \A hs : FrameRoots(hs) = Rows!Fold(<<>>, hs)
  BY DEF Rows!Fold, FoldLeft, Rows!FoldLeft, MapThenFoldSet, Rows!MapThenFoldSet, Max,
     Rows!Max, FrameRoots
<1>2. FrameRoots(<<>>) = <<>>
  BY <1>1, Rows!FoldEmpty
<1>3. ASSUME NEW R, NEW hs \in Seq(R), NEW h \in R
      PROVE  FrameRoots(Append(hs, h)) = JoinRoots(FrameRoots(hs), h)
  BY <1>1, Rows!FoldAppend
<1> QED BY <1>2, <1>3

\* What a record of the scan enters leaves the traces lists of frames.
LEMMA ScanKeepsFrames ==
    ASSUME ScanInv, phase = "scan", RootsInv, ScanKnown
    PROVE  /\ LocalFields \subseteq DOMAIN index' /\ index'.java_frame_roots = <<>>
           /\ \A t \in DOMAIN index'.stack_traces : IsSeq(index'.stack_traces[t].frames)
<1>1. PICK x, r, y : x = index /\ r = Record /\ y = index'
  OBVIOUS
<1>2. /\ LocalFields \subseteq DOMAIN x /\ x.java_frame_roots = <<>>
      /\ \A t \in DOMAIN x.stack_traces : IsSeq(x.stack_traces[t].frames)
  BY <1>1 DEF RootsInv
<1>3. y = x \/ (y = Insert(r) /\ r.tag \in Known)
  BY <1>1 DEF ScanKnown
<1>4. CASE y = x
  BY <1>1, <1>2, <1>4
<1>5. CASE y = Insert(r) /\ r.tag \in {"String", "LoadClass", "Frame", "Thread"}
  <2>1. /\ DOMAIN y = DOMAIN x /\ y.stack_traces = x.stack_traces
        /\ y.java_frame_roots = x.java_frame_roots
    BY <1>1, <1>2, <1>5 DEF Insert, LocalFields
  <2> QED BY <1>1, <1>2, <2>1
<1>6. CASE y = Insert(r) /\ r.tag = "Trace"
  <2>1. PICK m, e : m = x.stack_traces /\ e = [thread |-> r.thread, frames |-> r.frames]
    OBVIOUS
  <2>2. y = [x EXCEPT !.stack_traces = Put(m, r.serial, e)]
    BY <1>1, <1>6, <2>1 DEF Insert
  <2>3. /\ DOMAIN y = DOMAIN x /\ y.stack_traces = Put(m, r.serial, e)
        /\ y.java_frame_roots = x.java_frame_roots
    BY <1>2, <2>2 DEF LocalFields
  <2>4. IsSeq(r.frames)
    <3>1. file \in Files /\ next \in DOMAIN file.records /\ r = file.records[next]
      <4>1. next \in 1..Len(file.records) /\ file \in Files
        BY <1>1, Layout DEF ScanInv, ScanKnown, Scanning
      <4> QED BY <1>1, <4>1, Layout DEF Record
    <3>2. r.frames \in Seq({r.frames[j] : j \in DOMAIN r.frames})
      BY <1>6, <3>1, TraceFrames
    <3> QED BY <3>2 DEF IsSeq, Range
  <2>5. ASSUME NEW t \in DOMAIN y.stack_traces
        PROVE  IsSeq(y.stack_traces[t].frames)
    <3>1. PICK q : q = Put(m, r.serial, e)
      OBVIOUS
    <3>2. \A k \in DOMAIN q : q[k] = e \/ (k \in DOMAIN m /\ q[k] = m[k])
      BY <3>1 DEF Put, Over
    <3>3. e.frames = r.frames
      BY <2>1
    <3> QED BY <1>2, <2>1, <2>3, <2>4, <2>5, <3>1, <3>2, <3>3
  <2> QED BY <1>1, <1>2, <2>3, <2>5
<1> QED BY <1>3, <1>4, <1>5, <1>6 DEF Known

\* One heap record merged.
LEMMA MergeRoots ==
    ASSUME ScanInv, OrderInv, OutInv, RootsInv, merged < Len(ranges),
           out' = MergeAll(out, Chunks(ranges[merged + 1])), merged' = merged + 1,
           ranges' = ranges
    PROVE  /\ out'.roots = FrameRoots(SubSeq(ranges', 1, merged'))
           /\ \A r \in Range(out'.roots) : r.frame \in Int
<1>1. PICK h, o, r : h = ranges[merged + 1] /\ o = out /\ r = MergeAll(o, Chunks(h))
  OBVIOUS
<1>2. PICK m \in Nat : m = merged
  BY DEF OrderInv
<1>3. /\ ranges \in Seq(Range(ranges)) /\ m + 1 \in 1..Len(ranges)
      /\ LaidOut(h) /\ Formed(h)
  <2>1. HeapsLaid(ranges) /\ Len(ranges) \in Nat
    BY RangesLaid DEF HeapsLaid
  <2>2. m + 1 \in 1..Len(ranges)
    BY <1>2, <2>1
  <2> QED BY <1>1, <1>2, <2>1, <2>2 DEF HeapsLaid
<1>4. OutOK(o)
  BY <1>1 DEF OutInv
<1>5. Merges(h, o, r)
  BY <1>1, <1>3, <1>4, MergeHeap
<1>6. PICK k : k = KindOf(Extracted(h), {"frameRoot"})
  OBVIOUS
<1>7. r.roots = o.roots \o k
  BY <1>5, <1>6 DEF Merges
<1>8. SubSeq(ranges, 1, m + 1) = Append(SubSeq(ranges, 1, m), h)
      /\ SubSeq(ranges, 1, m) \in Seq(Range(ranges)) /\ h \in Range(ranges)
  <2>1. PICK R : R = Range(ranges)
    OBVIOUS
  <2>2. h \in R
    BY <1>1, <1>2, <1>3, <2>1 DEF Range
  <2> QED BY <1>1, <1>2, <1>3, <2>1, <2>2
<1>9. FrameRoots(SubSeq(ranges, 1, m + 1)) = o.roots \o k
  <2>1. FrameRoots(SubSeq(ranges, 1, m + 1)) = JoinRoots(FrameRoots(SubSeq(ranges, 1, m)), h)
    BY <1>8, FrameRootsAre
  <2>2. FrameRoots(SubSeq(ranges, 1, m)) = o.roots
    BY <1>1, <1>2 DEF RootsInv
  <2> QED BY <1>6, <2>1, <2>2 DEF JoinRoots
<1>10. k \in Seq(Subs(h)) /\ \A x \in Range(k) : x.frame \in Int
  <2>1. /\ Extracted(h) \in Seq(Subs(h))
        /\ Range(Extracted(h)) = {s \in Subs(h) : Yields(s)}
    BY <1>3, ExtractedIs
  <2>2. PICK T : T = {s \in Range(Extracted(h)) : s.kind \in {"frameRoot"}}
    OBVIOUS
  <2>3. k = Keep(Extracted(h), T)
    BY <1>6, <2>2 DEF KindOf
  <2>4. k \in Seq(Subs(h)) /\ Range(k) = Range(Extracted(h)) \cap T
    BY <2>1, <2>3, KeepPlaces, KeepRange
  <2> QED BY <1>3, <2>1, <2>2, <2>4 DEF Formed
<1>11. Range(o.roots \o k) = Range(o.roots) \cup Range(k)
  <2>1. IsSeq(o.roots) /\ IsSeq(k)
    BY <1>4, <1>10, SeqIsSeq DEF OutOK
  <2> QED BY <2>1, IsSeqConcat
<1>12. \A x \in Range(o.roots \o k) : x.frame \in Int
  BY <1>1, <1>10, <1>11 DEF RootsInv
<1>13. out' = r /\ ranges' = ranges /\ merged' = m + 1
  BY <1>1, <1>2
<1> QED BY <1>7, <1>9, <1>12, <1>13

\* The roots correlated with the frames.
LEMMA CorrelateLocals ==
    ASSUME ScanInv, OrderInv, OutInv, RootsInv, Correlate
    PROVE  LocalsInFileOrder'
<1>1. /\ phase = "correlate" /\ file' = file /\ out' = out /\ ranges = HeapRecords
      /\ merged = Len(ranges)
  <2>1. phase = "correlate" /\ file' = file /\ out' = out
    BY DEF Correlate, scanConst, extractVars
  <2> QED BY <2>1, AllScanned DEF OrderInv
<1>2. PICK traceOf \in TraceChoices :
        index' = FoldLeft(PutFrameRoot,
                          FoldLeft(PutThreadObject,
                                   [index EXCEPT !.threads = Synthesised(traceOf)],
                                   out.threads),
                          out.roots)
  BY DEF Correlate
<1>3. PICK x : x = [index EXCEPT !.threads = Synthesised(traceOf)]
  OBVIOUS
<1>4. PICK y : y = FoldLeft(PutThreadObject, x, out.threads)
  OBVIOUS
<1>5. PICK all, z : all = out.roots /\ z = index'
  OBVIOUS
<1>6. IsSeq(out.threads) /\ IsSeq(all)
  BY <1>5 DEF OutInv, OutOK
<1>7. /\ LocalFields \subseteq DOMAIN x /\ x.stack_traces = index.stack_traces
      /\ x.java_frame_roots = <<>>
  BY <1>1, <1>3 DEF RootsInv, LocalFields
<1>8. /\ LocalFields \subseteq DOMAIN y /\ y.stack_traces = index.stack_traces
      /\ y.java_frame_roots = <<>>
  BY <1>4, <1>6, <1>7, ThreadsKeepFrames
<1>9. /\ SameFrames(z, y)
      /\ \A f : Get(z.java_frame_roots, f, <<>>)
                  = IdsOf(Keep(all, {r \in Range(all) : RootOf(y, r, f)}))
  <2>1. z = FoldLeft(PutFrameRoot, y, all)
    BY <1>2, <1>3, <1>4, <1>5
  <2> QED BY <1>6, <1>8, <2>1, LocalsFiled DEF LocalFields
<1>10. \A t : FramesOf(z, t) = FramesOf(y, t)
  BY <1>9 DEF SameFrames, FramesOf
<1>11. \A t : IsSeq(FramesOf(y, t))
  <2>1. \A k \in DOMAIN y.stack_traces : IsSeq(y.stack_traces[k].frames)
    BY <1>1, <1>8 DEF RootsInv
  <2>2. IsSeq(<<>>)
    BY DEF IsSeq, Range
  <2> QED BY <2>1, <2>2 DEF FramesOf
<1>12. all = FrameRoots(HeapRecords)
  <2>1. SubSeq(ranges, 1, merged) = ranges
    <3>1. HeapsLaid(ranges)
      BY RangesLaid
    <3> QED BY <1>1, <3>1, SubSeqFull DEF HeapsLaid
  <2> QED BY <1>1, <1>5, <2>1 DEF RootsInv
<1>13. HeapRecords' = HeapRecords
  BY <1>1 DEF HeapRecords
<1>14. all = FrameRoots(HeapRecords)'
  BY <1>12, <1>13 DEF FrameRoots
<1>15. ASSUME NEW f, NEW r \in Range(all)
       PROVE  IsFrameOf(r, f)' <=> RootOf(y, r, f)
  <2>1. PICK frames : frames = FramesOf(y, r.thread)
    OBVIOUS
  <2>2. FramesOf(index, r.thread)' = frames
    BY <1>5, <1>10, <2>1 DEF FramesOf
  <2>3. PICK n \in Nat : n = Len(frames) /\ DOMAIN frames = 1..n
    BY <1>11, <2>1 DEF IsSeq
  <2>4. r.frame \in Int
    BY <1>5 DEF RootsInv
  <2>5. (r.frame >= 0 /\ r.frame < n) <=> r.frame + 1 \in 1..n
    BY <2>4
  <2> QED BY <2>1, <2>2, <2>3, <2>5 DEF IsFrameOf, RootOf
<1>16. ASSUME NEW f
       PROVE  LET roots == Keep(all, {r \in Range(all) : IsFrameOf(r, f)'})
              IN  LocalVariables(f)' = [i \in DOMAIN roots |-> roots[i].id]
  <2>1. {r \in Range(all) : IsFrameOf(r, f)'} = {r \in Range(all) : RootOf(y, r, f)}
    BY <1>15
  <2>2. LocalVariables(f)' = Get(z.java_frame_roots, f, <<>>)
    BY <1>5 DEF LocalVariables
  <2> QED BY <1>9, <2>1, <2>2 DEF IdsOf
<1> QED BY <1>14, <1>16 DEF LocalsInFileOrder

LEMMA RootsStep ==
    ScanInv /\ OrderInv /\ OutInv /\ RootsInv /\ [Next]_engineVars => RootsInv'
<1> SUFFICES ASSUME ScanInv, OrderInv, OutInv, RootsInv, [Next]_engineVars
             PROVE  RootsInv'
  OBVIOUS
<1>1. /\ out'.roots = FrameRoots(SubSeq(ranges', 1, merged'))
      /\ \A r \in Range(out'.roots) : r.frame \in Int
  <2>1. CASE UNCHANGED <<out, merged>> /\ ranges' = ranges
    BY <2>1 DEF RootsInv
  <2>2. CASE UNCHANGED <<out, merged>> /\ phase = "scan"
    <3>1. merged = 0
      BY <2>2 DEF OrderInv
    <3>2. SubSeq(ranges, 1, merged) = <<>> /\ SubSeq(ranges', 1, merged') = <<>>
      BY <2>2, <3>1, SubSeqEmpty
    <3> QED BY <2>2, <3>2 DEF RootsInv
  <2>3. CASE /\ phase = "extract" /\ ranges' = ranges /\ merged < Len(ranges)
             /\ out' = MergeAll(out, Chunks(ranges[merged + 1]))
             /\ merged' = merged + 1
    BY <2>3, MergeRoots
  <2> QED BY <2>1, <2>2, <2>3, MergeShape
<1> DEFINE Before == {"scan", "extract", "assemble", "correlate"}
           Framed(ix) == /\ LocalFields \subseteq DOMAIN ix /\ ix.java_frame_roots = <<>>
                         /\ \A t \in DOMAIN ix.stack_traces : IsSeq(ix.stack_traces[t].frames)
<1>2. CASE phase' \in Before /\ Framed(index')
  <2>1. LocalsInFileOrder'
    BY <1>2 DEF LocalsInFileOrder
  <2> QED BY <1>1, <1>2, <2>1 DEF RootsInv
<1>3. CASE phase' \notin Before /\ LocalsInFileOrder'
  BY <1>1, <1>3 DEF RootsInv
<1>4. phase \in Before => Framed(index)
  BY DEF RootsInv
<1>5. CASE NextScan
  <2>1. phase = "scan" /\ phase' \in Before
    BY <1>5 DEF NextScan, ScanHeap, ScanOther, ScanKnown, ScanEnd, Scanning, Advance
  <2>2. Framed(index')
    <3>1. CASE ScanKnown
      BY <2>1, <3>1, ScanKeepsFrames
    <3>2. CASE ScanHeap \/ ScanOther \/ ScanEnd
      <4>1. index' = index
        BY <3>2 DEF ScanHeap, ScanOther, ScanEnd
      <4> QED BY <1>4, <2>1, <4>1
    <3> QED BY <1>5, <3>1, <3>2 DEF NextScan
  <2> QED BY <1>2, <2>1, <2>2
<1>6. CASE NextExtraction
  <2>1. phase \in Before /\ phase' \in Before /\ index' = index
    BY <1>6 DEF NextExtraction, ExtractNext, StartBatch, FinishTask, MergeNext,
       EndExtraction, Extracting, scanVars
  <2> QED BY <1>2, <1>4, <2>1
<1>7. CASE Assemble
  <2>1. phase \in Before /\ phase' \in Before
    BY <1>7 DEF Assemble
  <2>2. PICK x, y : x = index /\ y = index'
    OBVIOUS
  <2>3. \E d, n : y = [x EXCEPT !.class_dumps = d, !.field_names = n]
    BY <1>7, <2>2 DEF Assemble
  <2>4. /\ DOMAIN y = DOMAIN x /\ y.stack_traces = x.stack_traces
        /\ y.java_frame_roots = x.java_frame_roots
    BY <1>4, <2>1, <2>2, <2>3 DEF LocalFields
  <2>5. Framed(y)
    BY <1>4, <2>1, <2>2, <2>4
  <2> QED BY <1>2, <2>1, <2>2, <2>5
<1>8. CASE Correlate
  <2>1. phase' = "round0"
    BY <1>8 DEF Correlate
  <2> QED BY <1>3, <1>8, <2>1, CorrelateLocals
<1>9. CASE Round0 \/ Round1 \/ Round2 \/ CheckClass \/ FinishPass
  <2>1. phase' \in {"round1", "round2", "validate", "open"}
    BY <1>9 DEF Round0, Round1, Round2, CheckClass, FinishPass, EndRounds, ToRound
  <2>2. LocalsInFileOrder'
    BY <2>1 DEF LocalsInFileOrder
  <2> QED BY <1>3, <2>1, <2>2
<1>10. CASE ResolveThread \/ GetLocals \/ ExpandObject \/ GetStatics \/ ListThreads
  <2>1. phase' = "open"
    BY <1>10 DEF ResolveThread, GetLocals, ExpandObject, GetStatics, ListThreads, Open
  <2>2. LocalsInFileOrder'
    BY <2>1 DEF LocalsInFileOrder
  <2> QED BY <1>3, <2>1, <2>2
<1>11. CASE UNCHANGED engineVars
  <2>1. UNCHANGED <<phase, index, file>>
    BY <1>11 DEF engineVars, scanVars
  <2>2. CASE phase \in Before
    BY <1>2, <1>4, <2>1, <2>2
  <2>3. CASE phase \notin Before
    <3>1. HeapRecords' = HeapRecords
      BY <2>1 DEF HeapRecords
    <3>2. LocalsInFileOrder
      BY DEF RootsInv
    <3>3. LocalsInFileOrder'
      <4>1. PICK all : all = FrameRoots(HeapRecords)
        OBVIOUS
      <4>2. FrameRoots(HeapRecords)' = all
        BY <3>1, <4>1 DEF FrameRoots
      <4>3. \A r, f : IsFrameOf(r, f)' <=> IsFrameOf(r, f)
        BY <2>1 DEF IsFrameOf, FramesOf
      <4>4. \A f : {r \in Range(all) : IsFrameOf(r, f)'} = {r \in Range(all) : IsFrameOf(r, f)}
        BY <4>3
      <4>5. \A f : LocalVariables(f)' = LocalVariables(f)
        BY <2>1 DEF LocalVariables
      <4> QED BY <2>1, <3>2, <4>1, <4>2, <4>4, <4>5 DEF LocalsInFileOrder
    <3> QED BY <1>3, <2>1, <2>3, <3>3
  <2> QED BY <2>2, <2>3
<1> QED BY <1>5, <1>6, <1>7, <1>8, <1>9, <1>10, <1>11 DEF Next, NextResolution

\* The locals of a frame are the roots of the dump that name its place in the trace of
\* a thread, each once and in file order, however the heap was cut into tasks and
\* chunks (thread_resolution.rs correlate_frame_roots).
THEOREM LocalsCorrect == Spec => []LocalsInFileOrder
<1>1. Init => OutInv /\ RootsInv
  <2>1. Init => RootsInv
    <3> SUFFICES ASSUME Init PROVE RootsInv
      OBVIOUS
    <3>1. /\ phase = "scan" /\ merged = 0 /\ index = EmptyIndex /\ out.roots = <<>>
      BY DEF Init, InitScan, InitExtraction, EmptyOutput
    <3>2. SubSeq(ranges, 1, merged) = <<>>
      BY <3>1, SubSeqEmpty
    <3>3. Range(<<>>) = {} /\ DOMAIN <<>> = {}
      BY DEF Range
    <3>4. /\ LocalFields \subseteq DOMAIN index /\ index.java_frame_roots = <<>>
          /\ index.stack_traces = <<>>
      BY <3>1 DEF EmptyIndex, LocalFields
    <3> QED BY <3>1, <3>2, <3>3, <3>4, FrameRootsAre DEF RootsInv, LocalsInFileOrder
  <2> QED BY <2>1, OutInit
<1>2. FirstInv /\ OutInv /\ RootsInv /\ [Next]_engineVars => OutInv' /\ RootsInv'
  BY OutStep, RootsStep DEF FirstInv
<1>3. RootsInv => LocalsInFileOrder
  BY DEF RootsInv
<1> QED BY <1>1, <1>2, <1>3, FirstPassOrder, PTL DEF Spec

-----------------------------------------------------------------------------
(* The look-ups find what is there                                         *)

\* Sorted by segment, a sequence holds what it held.
LEMMA BySegmentIs ==
    ASSUME NEW s, IsSeq(s), \A i \in 1..Len(s) : s[i].segment \in Nat
    PROVE  /\ DOMAIN BySegment(s) = 1..Len(s)
           /\ Range(BySegment(s)) = Range(s)
<1>1. PICK n \in Nat : n = Len(s) /\ DOMAIN s = 1..n
  BY DEF IsSeq
<1> DEFINE Before(j, i) == \/ s[j].segment < s[i].segment
                           \/ s[j].segment = s[i].segment /\ j <= i
           upto(i) == {j \in DOMAIN s : Before(j, i)}
           place(i) == Cardinality(upto(i))
<1>2. ASSUME NEW k \in DOMAIN s
      PROVE  BySegment(s)[k] = s[CHOOSE i \in DOMAIN s : place(i) = k]
  BY DEF BySegment
<1>3. DOMAIN BySegment(s) = 1..n
  BY <1>1 DEF BySegment
<1>4. IsFiniteSet(1..n) /\ Cardinality(1..n) = n
  BY FS_Interval
<1>5. ASSUME NEW i \in 1..n
      PROVE  i \in upto(i) /\ IsFiniteSet(upto(i)) /\ place(i) \in 1..n
  <2>1. i \in upto(i) /\ upto(i) \in SUBSET (1..n)
    BY <1>1
  <2> HIDE DEF upto
  <2>2. IsFiniteSet(upto(i)) /\ Cardinality(upto(i)) <= n
    BY <1>4, <2>1, FS_Subset
  <2>3. Cardinality(upto(i)) \in Nat /\ Cardinality(upto(i)) # 0
    BY <2>1, <2>2, FS_CardinalityType, FS_EmptySet
  <2> QED BY <2>1, <2>2, <2>3
<1>6. ASSUME NEW i \in 1..n, NEW k \in 1..n, i # k, Before(i, k)
      PROVE  place(i) # place(k)
  <2>1. upto(i) \subseteq upto(k)
    BY <1>1, <1>6
  <2>2. k \notin upto(i)
    BY <1>1, <1>6
  <2>3. k \in upto(k) /\ IsFiniteSet(upto(k))
    BY <1>5
  <2> HIDE DEF upto
  <2> QED BY <2>1, <2>2, <2>3, FS_Subset
<1>7. \A i \in 1..n : \A k \in 1..n : i # k => Before(i, k) \/ Before(k, i)
  BY <1>1
<1>8. \A i \in 1..n : \A k \in 1..n : place(i) = place(k) => i = k
  <2> HIDE DEF place, Before
  <2> QED BY <1>6, <1>7
<1> HIDE DEF place
<1>9. \A k \in 1..n : \E i \in 1..n : place(i) = k
  <2>1. PICK P : P = [i \in 1..n |-> place(i)]
    OBVIOUS
  <2>2. P \in Injection(1..n, 1..n)
    BY <1>5, <1>8, <2>1 DEF Injection, IsInjective
  <2>3. P \in Surjection(1..n, 1..n)
    BY <1>4, <2>2, FS_Injection
  <2> QED BY <2>1, <2>3 DEF Surjection
<1>10. \A k \in 1..n : \E i \in 1..n : BySegment(s)[k] = s[i]
  <2> SUFFICES ASSUME NEW k \in 1..n
               PROVE  \E i \in 1..n : BySegment(s)[k] = s[i]
    OBVIOUS
  <2>1. (CHOOSE i \in DOMAIN s : place(i) = k) \in 1..n
    BY <1>1, <1>9
  <2> QED BY <1>1, <1>2, <2>1
<1>11. \A i \in 1..n : \E k \in 1..n : BySegment(s)[k] = s[i]
  <2> SUFFICES ASSUME NEW i \in 1..n
               PROVE  \E k \in 1..n : BySegment(s)[k] = s[i]
    OBVIOUS
  <2>1. PICK k : k = place(i) /\ k \in 1..n
    BY <1>5
  <2>2. PICK c : c = CHOOSE x \in DOMAIN s : place(x) = k
    OBVIOUS
  <2>3. BySegment(s)[k] = s[c]
    BY <1>1, <1>2, <2>1, <2>2
  <2>4. c \in 1..n /\ place(c) = k
    BY <1>1, <2>1, <2>2
  <2>5. c = i
    BY <1>8, <2>1, <2>4
  <2>6. BySegment(s)[k] = s[i]
    BY <2>3, <2>5
  <2> QED BY <2>1, <2>6
<1>12. PICK r : r = BySegment(s)
  OBVIOUS
<1>13. /\ DOMAIN r = 1..n /\ \A k \in 1..n : \E i \in 1..n : r[k] = s[i]
       /\ \A i \in 1..n : \E k \in 1..n : r[k] = s[i]
  BY <1>3, <1>10, <1>11, <1>12
<1>14. Range(r) = Range(s)
  <2>1. Range(r) = {r[k] : k \in 1..n} /\ Range(s) = {s[i] : i \in 1..n}
    BY <1>1, <1>13 DEF Range
  <2>2. \A x \in {r[k] : k \in 1..n} : x \in {s[i] : i \in 1..n}
    <3> SUFFICES ASSUME NEW k \in 1..n PROVE r[k] \in {s[i] : i \in 1..n}
      OBVIOUS
    <3>1. PICK i \in 1..n : r[k] = s[i]
      BY <1>13
    <3> QED BY <3>1
  <2>3. \A x \in {s[i] : i \in 1..n} : x \in {r[k] : k \in 1..n}
    BY <1>13
  <2> QED BY <2>1, <2>2, <2>3
<1> QED BY <1>1, <1>12, <1>13, <1>14

\* A place lies in its segment.
LEMMA SegmentHolds ==
    ASSUME NEW at \in Nat
    PROVE  /\ Segment(at) \in Nat
           /\ SegmentStart(Segment(at)) \in Nat /\ SegmentEnd(Segment(at)) \in Nat
           /\ SegmentStart(Segment(at)) <= at /\ at < SegmentEnd(Segment(at))
           /\ \A p \in Nat : SegmentStart(Segment(at)) <= p /\ p < SegmentEnd(Segment(at))
                => Segment(p) = Segment(at)
<1>1. SegmentSize \in Nat /\ SegmentSize > 0
  BY SizesAssumption
<1>2. PICK q : q = at \div SegmentSize
  OBVIOUS
<1>3. q \in Nat /\ q * SegmentSize \in Nat /\ (q + 1) * SegmentSize \in Nat
  BY <1>1, <1>2
<1>4. q * SegmentSize <= at /\ at < (q + 1) * SegmentSize
  BY <1>1, <1>2
<1>5. ASSUME NEW p \in Nat, q * SegmentSize <= p, p < (q + 1) * SegmentSize
      PROVE  p \div SegmentSize = q
  BY <1>1, <1>3, <1>5
<1> QED BY <1>2, <1>3, <1>4, <1>5 DEF Segment, SegmentStart, SegmentEnd

\* An object filed under a segment whose filter can be built is in its filter.
LEMMA FiltersHold ==
    ASSUME NEW b, BuilderOK(b), NEW g \in Nat, g \notin setup.unbuildable, NEW id,
           <<g, id>> \in Built(b)
    PROVE  \E j \in DOMAIN FinishFilters(b) :
             FinishFilters(b)[j].segment = g /\ id \in FinishFilters(b)[j].ids
<1>1. PICK e : e = FinalizeCurrent(b)
  OBVIOUS
<1>2. BuilderOK(e) /\ Built(e) = Built(b) /\ e.ids = {}
  BY <1>1, FinalizeBuilt
<1>3. PICK F, X : F = e.filters /\ X = e.failed
  OBVIOUS
<1>4. FiltersOK(F, X)
  BY <1>2, <1>3 DEF BuilderOK
<1>5. <<g, id>> \in FiledFrom(F)
  <2>1. Built(e) = FiledFrom(F) \cup FailedIn(X) \cup ({e.current} \X {})
    BY <1>2, <1>3 DEF Built
  <2>2. <<g, id>> \notin FailedIn(X)
    <3> SUFFICES ASSUME <<g, id>> \in FailedIn(X) PROVE FALSE
      OBVIOUS
    <3>1. PICK f \in X : <<g, id>> \in {f.segment} \X f.ids
      BY DEF FailedIn
    <3> QED BY <1>4, <3>1 DEF FiltersOK
  <2> QED BY <1>2, <2>1, <2>2
<1>6. PICK f \in Range(F) : <<g, id>> \in {f.segment} \X f.ids
  BY <1>4, <1>5, FiledIs DEF FiltersOK
<1>7. f.segment = g /\ id \in f.ids
  BY <1>6
<1>8. PICK s : s = BySegment(F)
  OBVIOUS
<1>9. Range(s) = Range(F)
  <2>1. IsSeq(F) /\ \A x \in Range(F) : x.segment \in Nat
    BY <1>4 DEF FiltersOK, FilterOK
  <2>2. \A i \in 1..Len(F) : F[i].segment \in Nat
    BY <2>1 DEF IsSeq, Range
  <2> QED BY <1>8, <2>1, <2>2, BySegmentIs
<1>10. PICK j \in DOMAIN s : s[j] = f
  BY <1>6, <1>9 DEF Range
<1>11. FinishFilters(b) =
         [i \in DOMAIN s |->
           [s[i] EXCEPT !.ids = @ \cup
               {p[2] : p \in {q \in setup.lookalikes : q[1] = s[i].segment}}]]
  BY <1>1, <1>3, <1>8 DEF FinishFilters
<1>12. PICK I, Y : I = f.ids /\ Y = {p[2] : p \in {q \in setup.lookalikes : q[1] = f.segment}}
  OBVIOUS
<1>13. f = [segment |-> g, ids |-> I]
  BY <1>4, <1>6, <1>7, <1>12 DEF FiltersOK, FilterOK
<1>14. j \in DOMAIN FinishFilters(b) /\ FinishFilters(b)[j] = [f EXCEPT !.ids = @ \cup Y]
  BY <1>10, <1>11, <1>12
<1>15. [f EXCEPT !.ids = @ \cup Y] = [segment |-> g, ids |-> I \cup Y]
  BY <1>13
<1> QED BY <1>7, <1>12, <1>14, <1>15

\* What is extracted is filed; what filters and entry points hold is final.
FiledInv ==
    /\ \A i \in 1..merged : PlacesIn(ranges[i]) \subseteq Built(out.builder)
    /\ \A x \in Range(out.entries) : \A i \in 1..merged : \A s \in Subs(ranges[i]) :
         Yields(s) /\ s.kind \in ObjectKinds /\ Segment(s.at) = x.segment => x.at <= s.at
    /\ phase = "correlate" =>
         filters = FinishFilters(out.builder) /\ entries = BySegment(out.entries)

LEMMA FiledInit == Init => FiledInv
<1> SUFFICES ASSUME Init PROVE FiledInv
  OBVIOUS
<1>1. merged = 0 /\ phase = "scan" /\ 1..0 = {}
  BY DEF Init, InitScan, InitExtraction
<1> QED BY <1>1 DEF FiledInv

LEMMA FiledStep ==
    ScanInv /\ OrderInv /\ OutInv /\ FiledInv /\ [Next]_engineVars => FiledInv'
<1> SUFFICES ASSUME ScanInv, OrderInv, OutInv, FiledInv, [Next]_engineVars
             PROVE  FiledInv'
  OBVIOUS
<1>0. setup' = setup
  BY SetupStays
<1> DEFINE A == \A i \in 1..merged : PlacesIn(ranges[i]) \subseteq Built(out.builder)
           B == \A x \in Range(out.entries) : \A i \in 1..merged : \A s \in Subs(ranges[i]) :
                  Yields(s) /\ s.kind \in ObjectKinds /\ Segment(s.at) = x.segment
                  => x.at <= s.at
           C == phase = "correlate" => /\ filters = FinishFilters(out.builder)
                                       /\ entries = BySegment(out.entries)
<1>1. A' /\ B'
  <2>1. CASE UNCHANGED <<out, merged>> /\ ranges' = ranges
    BY <2>1 DEF FiledInv
  <2>2. CASE UNCHANGED <<out, merged>> /\ phase = "scan"
    <3>1. merged' = 0 /\ 1..0 = {}
      BY <2>2 DEF OrderInv
    <3> QED BY <3>1
  <2>3. CASE /\ phase = "extract" /\ ranges' = ranges /\ merged < Len(ranges)
             /\ out' = MergeAll(out, Chunks(ranges[merged + 1]))
             /\ merged' = merged + 1
    <3>1. PICK h, o, r, m : /\ h = ranges[m + 1] /\ o = out /\ r = MergeAll(o, Chunks(h))
                            /\ m = merged
      OBVIOUS
    <3>2. HeapsLaid(ranges) /\ m \in Nat /\ LaidOut(h) /\ m < Len(ranges)
      <4>1. HeapsLaid(ranges) /\ m \in Nat /\ Len(ranges) \in Nat
        BY <3>1, RangesLaid DEF OrderInv, HeapsLaid
      <4>2. m + 1 \in 1..Len(ranges)
        BY <2>3, <3>1, <4>1
      <4> QED BY <2>3, <3>1, <4>1, <4>2 DEF HeapsLaid
    <3>3. OutOK(o) /\ EntriesFor(o.entries, Built(o.builder), ranges, m)
      BY <3>1 DEF OutInv
    <3>4. OutOK(r) /\ Merges(h, o, r)
      BY <3>1, <3>2, <3>3, MergeHeap
    <3>5. /\ EntriesFor(r.entries, Built(r.builder), ranges, m + 1)
          /\ \A x \in Range(o.entries) : EntryOf(r.entries, x.segment) = x.at
          /\ \A x \in Range(r.entries) : \A s \in Subs(h) :
               Yields(s) /\ s.kind \in ObjectKinds /\ Segment(s.at) = x.segment
               => x.at <= s.at
      BY <3>1, <3>2, <3>3, <3>4, EntriesTaken
    <3>6. out' = r /\ merged' = m + 1 /\ ranges' = ranges
      BY <2>3, <3>1
    <3>7. \A i \in 1..(m + 1) : i = m + 1 \/ i \in 1..m
      BY <3>2
    <3>8. \A i \in 1..(m + 1) : PlacesIn(ranges[i]) \subseteq Built(r.builder)
      <4>1. Built(r.builder) = Built(o.builder) \cup PlacesIn(h)
        BY <3>4 DEF Merges
      <4>2. \A i \in 1..m : PlacesIn(ranges[i]) \subseteq Built(o.builder)
        BY <3>1 DEF FiledInv
      <4> QED BY <3>1, <3>7, <4>1, <4>2
    <3>9. ASSUME NEW x \in Range(r.entries), NEW i \in 1..(m + 1),
                 NEW s \in Subs(ranges[i]),
                 Yields(s), s.kind \in ObjectKinds, Segment(s.at) = x.segment
          PROVE  x.at <= s.at
      <4>1. CASE i = m + 1
        BY <3>1, <3>5, <3>9, <4>1
      <4>2. CASE i \in 1..m
        <5>1. PICK y \in Range(o.entries) : y.segment = Segment(s.at)
          <6>1. <<Segment(s.at), s.id>> \in PlacesIn(ranges[i])
            BY <3>9 DEF PlacesIn
          <6>2. <<Segment(s.at), s.id>> \in Built(o.builder)
            BY <3>1, <4>2, <6>1 DEF FiledInv
          <6>3. <<Segment(s.at), s.id>>[1] = Segment(s.at)
            OBVIOUS
          <6> QED BY <3>3, <6>2, <6>3 DEF EntriesFor
        <5>2. y.at <= s.at
          BY <3>1, <3>9, <4>2, <5>1 DEF FiledInv
        <5>3. EntryOf(r.entries, y.segment) = y.at
          BY <3>5, <5>1
        <5>4. EntryOf(r.entries, x.segment) = x.at
          BY <3>4, <3>5, EntryIs DEF OutOK, EntriesFor
        <5> QED BY <3>9, <5>1, <5>2, <5>3, <5>4
      <4> QED BY <3>7, <4>1, <4>2
    <3>10. A'
      BY <3>6, <3>8
    <3>11. B'
      BY <3>6, <3>9
    <3> QED BY <3>10, <3>11
  <2> QED BY <2>1, <2>2, <2>3, MergeShape
<1>2. C'
  <2> SUFFICES ASSUME phase' = "correlate"
               PROVE  filters' = FinishFilters(out.builder)' /\ entries' = BySegment(out.entries)'
    OBVIOUS
  <2>1. CASE Assemble
    <3>1. out' = out /\ filters' = FinishFilters(out.builder) /\ entries' = BySegment(out.entries)
      BY <2>1 DEF Assemble, extractVars
    <3>2. FinishFilters(out.builder)' = FinishFilters(out.builder)
      BY <1>0, <3>1 DEF FinishFilters, FinalizeCurrent
    <3> QED BY <3>1, <3>2
  <2>2. CASE UNCHANGED engineVars
    <3>1. /\ out' = out /\ filters' = filters /\ entries' = entries /\ phase' = phase
      BY <2>2 DEF engineVars, scanVars, extractVars, resolveVars
    <3>2. FinishFilters(out.builder)' = FinishFilters(out.builder)
      BY <1>0, <3>1 DEF FinishFilters, FinalizeCurrent
    <3> QED BY <3>1, <3>2 DEF FiledInv
  <2>3. CASE Next /\ ~Assemble
    <3>1. phase' # "correlate"
      BY <2>3 DEF Next, NextScan, ScanHeap, ScanOther, ScanKnown, ScanEnd, Scanning,
         Advance, NextExtraction, ExtractNext, StartBatch, FinishTask, MergeNext,
         EndExtraction, Extracting, scanVars, NextResolution, Correlate, Round0, Round1, Round2,
         CheckClass, FinishPass, EndRounds, ToRound, ResolveThread, GetLocals, ExpandObject,
         GetStatics, ListThreads, Open
    <3> QED BY <3>1
  <2> QED BY <2>1, <2>2, <2>3
<1> QED BY <1>1, <1>2 DEF FiledInv

\* The entry points as they were put in order.
LEMMA EntryOfSorted ==
    ASSUME NEW es, EntriesOK(es), \A x \in Range(es) : x.at \in Nat /\ x.segment \in Nat,
           NEW x \in Range(es)
    PROVE  EntryOf(BySegment(es), x.segment) = x.at
<1>1. PICK r : r = BySegment(es)
  OBVIOUS
<1>2. \A i \in 1..Len(es) : es[i].segment \in Nat
  BY DEF EntriesOK, IsSeq, Range
<1>3. Range(r) = Range(es)
  BY <1>1, <1>2, BySegmentIs DEF EntriesOK
<1>4. ASSUME NEW s
      PROVE  EntryOf(s, x.segment)
               = LET at == {y.at : y \in {z \in Range(s) : z.segment = x.segment}}
                 IN  IF at = {} THEN NotFound ELSE Least(at)
  <2>1. {s[i].at : i \in {j \in DOMAIN s : s[j].segment = x.segment}}
          = {y.at : y \in {z \in Range(s) : z.segment = x.segment}}
    BY DEF Range
  <2> QED BY <2>1 DEF EntryOf
<1>5. EntryOf(r, x.segment) = EntryOf(es, x.segment)
  BY <1>3, <1>4
<1> QED BY <1>1, <1>5, EntryIs

\* The dump is scanned, its objects filed, the filters and entry points in place.
LEMMA ReadyIs ==
    ASSUME ScanInv, OrderInv, OutInv, FiledInv, phase = "correlate", OneObjectPerId,
           NEW h \in Heaps, NEW s \in Subs(h), Yields(s), s.kind \in ObjectKinds,
           Segment(s.at) \notin setup.unbuildable
    PROVE  /\ HeapsLaid(ranges) /\ Heaps = Range(ranges)
           /\ h \in Range(ranges) /\ LaidOut(h)
           /\ s.at \in Nat /\ s.at + 1 + IdSize <= End(h) /\ h.start <= s.at
           /\ End(h) \in Nat /\ h.start \in Nat /\ h.length > 0
           /\ Overlaps(h, Segment(s.at))
           /\ \E j \in DOMAIN filters : /\ filters[j].segment = Segment(s.at)
                                        /\ s.id \in filters[j].ids
           /\ EntryOf(entries, Segment(s.at)) \in Nat
           /\ EntryOf(entries, Segment(s.at)) <= s.at
           /\ \A g \in Range(ranges) : \A t \in Subs(g) :
                t.kind \in ObjectKinds /\ t.id = s.id => t.at = s.at
<1>1. HeapsLaid(ranges)
  BY RangesLaid
<1>2. ranges = HeapRecords
  BY AllScanned
<1>3. Heaps = Range(ranges) /\ h \in Range(ranges)
  BY <1>2 DEF Heaps
<1>4. PICK i \in 1..Len(ranges) : h = ranges[i]
  BY <1>1, <1>3 DEF HeapsLaid, Range
<1>5. LaidOut(h) /\ Formed(h) /\ i \in 1..merged
  BY <1>1, <1>4 DEF HeapsLaid, OrderInv
<1>6. PICK k \in 1..Len(h.subs) : s = h.subs[k]
  BY <1>5 DEF LaidOut, Subs
<1>7. PICK at, size : at = s.at /\ size = s.size
  OBVIOUS
<1>8. /\ at \in Nat /\ size \in Nat \ {0} /\ h.start \in Nat /\ h.length \in Nat
      /\ h.start <= at /\ at + size <= End(h)
  BY <1>5, <1>6, <1>7 DEF LaidOut
<1>9. size > IdSize
  BY <1>5, <1>7 DEF Formed
<1>10. End(h) = h.start + h.length /\ End(h) \in Nat
  BY <1>8 DEF End
<1>11. IdSize \in Nat
  BY SizesAssumption
<1>12. at + 1 + IdSize <= End(h) /\ h.length > 0
  BY <1>8, <1>9, <1>10, <1>11
<1>13. PICK g : g = Segment(at)
  OBVIOUS
<1>14. g \in Nat /\ SegmentStart(g) \in Nat /\ SegmentEnd(g) \in Nat
       /\ SegmentStart(g) <= at /\ at < SegmentEnd(g)
  BY <1>8, <1>13, SegmentHolds
<1>15. Overlaps(h, g)
  BY <1>8, <1>10, <1>11, <1>12, <1>14 DEF Overlaps
<1>16. <<g, s.id>> \in Built(out.builder)
  <2>1. <<Segment(s.at), s.id>> \in PlacesIn(h)
    BY DEF PlacesIn
  <2> QED BY <1>4, <1>5, <1>7, <1>13, <2>1 DEF FiledInv
<1>17. \E j \in DOMAIN filters : filters[j].segment = g /\ s.id \in filters[j].ids
  <2>1. BuilderOK(out.builder) /\ g \notin setup.unbuildable
    BY <1>7, <1>13 DEF OutInv, OutOK
  <2>2. filters = FinishFilters(out.builder)
    BY DEF FiledInv
  <2> QED BY <1>14, <1>16, <2>1, <2>2, FiltersHold
<1>18. EntryOf(entries, g) \in Nat /\ EntryOf(entries, g) <= at
  <2>1. PICK es : es = out.entries
    OBVIOUS
  <2>2. EntriesOK(es) /\ EntriesFor(es, Built(out.builder), ranges, merged)
    BY <2>1 DEF OutInv, OutOK
  <2>3. PICK x \in Range(es) : x.segment = g
    <3>1. <<g, s.id>>[1] = g
      OBVIOUS
    <3> QED BY <1>16, <2>2, <3>1 DEF EntriesFor
  <2>4. \A y \in Range(es) : y.at \in Nat /\ y.segment \in Nat
    BY <2>2, SegmentHolds DEF EntriesFor
  <2>5. EntryOf(entries, g) = x.at
    <3>1. entries = BySegment(es)
      BY <2>1 DEF FiledInv
    <3> QED BY <2>2, <2>3, <2>4, <3>1, EntryOfSorted
  <2>6. x.at <= s.at
    BY <1>4, <1>5, <1>7, <1>13, <2>1, <2>3 DEF FiledInv
  <2> QED BY <1>7, <2>4, <2>5, <2>6
<1>19. \A x \in Range(ranges) : \A t \in Subs(x) :
         t.kind \in ObjectKinds /\ t.id = s.id => t.at = s.at
  BY <1>3 DEF OneObjectPerId
<1>20. at = s.at /\ g = Segment(s.at)
  BY <1>7, <1>13
<1> QED BY <1>1, <1>3, <1>5, <1>8, <1>10, <1>12, <1>15, <1>17, <1>18, <1>19, <1>20

\* The only number of a set is its least.
LEMMA LeastOfOne == ASSUME NEW x \in Nat PROVE Least({x}) = x
<1>1. {x} \subseteq Nat /\ {x} # {}
  OBVIOUS
<1>2. Least({x}) \in {x}
  BY <1>1, LeastIsIn
<1> QED BY <1>2

\* Of each heap record a reader finds the object or nothing; of its own, the object.
LEMMA FirstInFinds ==
    ASSUME NEW rs, HeapsLaid(rs), NEW h \in Range(rs), NEW s \in Subs(h),
           Yields(s), s.kind \in ObjectKinds, s.at \in Nat,
           \A g \in Range(rs) : \A t \in Subs(g) :
              t.kind \in ObjectKinds /\ t.id = s.id => t.at = s.at
    PROVE  /\ FirstIn(h, s.kind, s.id) = s.at
           /\ \A g \in Range(rs) : FirstIn(g, s.kind, s.id) \in {s.at, NotFound}
<1>1. \A g \in Range(rs) : LaidOut(g)
  BY DEF HeapsLaid, Range
<1>2. ASSUME NEW g \in Range(rs), FirstIn(g, s.kind, s.id) # NotFound
      PROVE  FirstIn(g, s.kind, s.id) = s.at
  <2>1. PICK t \in Subs(g) : /\ Yields(t) /\ t.kind = s.kind /\ t.id = s.id
                             /\ t.at = FirstIn(g, s.kind, s.id)
    BY <1>1, <1>2, FirstInIs
  <2> QED BY <2>1
<1>3. FirstIn(h, s.kind, s.id) # NotFound
  <2> DEFINE found == {x.at : x \in {t \in Subs(h) :
                                  Yields(t) /\ t.kind = s.kind /\ t.id = s.id}}
  <2>1. s.at \in found
    OBVIOUS
  <2>2. found = {s.at}
    BY <2>1
  <2>3. FirstIn(h, s.kind, s.id) = Least(found)
    BY <2>1 DEF FirstIn
  <2> HIDE DEF found
  <2>4. FirstIn(h, s.kind, s.id) = s.at
    BY <2>2, <2>3, LeastOfOne
  <2> QED BY <2>4 DEF NotFound
<1> QED BY <1>2, <1>3

\* What a search of the records rs with the filters fs needs to find s: an object
\* that is read, no other of its id, and a filter of its segment that knows it.
Searchable(rs, fs, h, s) ==
    /\ HeapsLaid(rs) /\ h \in Range(rs) /\ s \in Subs(h)
    /\ Yields(s) /\ s.kind \in ObjectKinds /\ s.at \in Nat
    /\ \A g \in Range(rs) : \A t \in Subs(g) :
         t.kind \in ObjectKinds /\ t.id = s.id => t.at = s.at
    /\ Overlaps(h, Segment(s.at))
    /\ \E j \in DOMAIN fs : fs[j].segment = Segment(s.at) /\ s.id \in fs[j].ids

\* So do the searches of the records that overlap the object's segment.
LEMMA SearchesFind ==
    ASSUME NEW rs, NEW fs, NEW h, NEW s, Searchable(rs, fs, h, s)
    PROVE  /\ FindIn(rs, fs, s.kind, s.id) = s.at
           /\ s.kind = "instance" => BatchOffsets(rs, fs, s.id) = {s.at}
<1> SUFFICES ASSUME HeapsLaid(rs), h \in Range(rs), s \in Subs(h),
                    Yields(s), s.kind \in ObjectKinds, s.at \in Nat,
                    \A g \in Range(rs) : \A t \in Subs(g) :
                       t.kind \in ObjectKinds /\ t.id = s.id => t.at = s.at,
                    Overlaps(h, Segment(s.at)),
                    \E j \in DOMAIN fs : fs[j].segment = Segment(s.at) /\ s.id \in fs[j].ids
             PROVE  /\ FindIn(rs, fs, s.kind, s.id) = s.at
                    /\ s.kind = "instance" => BatchOffsets(rs, fs, s.id) = {s.at}
  BY DEF Searchable
<1>1. /\ FirstIn(h, s.kind, s.id) = s.at
      /\ \A g \in Range(rs) : FirstIn(g, s.kind, s.id) \in {s.at, NotFound}
  BY FirstInFinds
<1>2. Segment(s.at) \in Candidates(fs, s.id)
  BY DEF Candidates
<1>3. PICK i \in DOMAIN rs : h = rs[i]
  BY DEF Range
<1>4. \A j \in DOMAIN rs : rs[j] \in Range(rs)
  BY DEF Range
<1>5. s.at # NotFound
  BY DEF NotFound
<1>6. FindIn(rs, fs, s.kind, s.id) = s.at
  <2> DEFINE hits == {FirstIn(rs[j], s.kind, s.id) :
                        j \in {k \in DOMAIN rs :
                                 \E g \in Candidates(fs, s.id) : Overlaps(rs[k], g)}}
                     \ {NotFound}
  <2>1. s.at \in hits
    BY <1>1, <1>2, <1>3, <1>5
  <2>2. hits = {s.at}
    BY <1>1, <1>4, <2>1
  <2>3. FindIn(rs, fs, s.kind, s.id) = Least(hits)
    BY <2>1 DEF FindIn
  <2> HIDE DEF hits
  <2> QED BY <2>2, <2>3, LeastOfOne
<1>7. ASSUME s.kind = "instance"
      PROVE  BatchOffsets(rs, fs, s.id) = {s.at}
  <2> DEFINE hits(g) == {FirstIn(rs[j], "instance", s.id) :
                           j \in {k \in DOMAIN rs : Overlaps(rs[k], g)}} \ {NotFound}
             best(g) == IF hits(g) = {} THEN NotFound ELSE Least(hits(g))
  <2>1. BatchOffsets(rs, fs, s.id) = {o \in {best(g) : g \in Candidates(fs, s.id)} : o # NotFound}
    BY DEF BatchOffsets
  <2>2. \A g : hits(g) \subseteq {s.at}
    BY <1>1, <1>4, <1>7
  <2>3. s.at \in hits(Segment(s.at))
    BY <1>1, <1>3, <1>5, <1>7
  <2> HIDE DEF hits
  <2>4. \A g : hits(g) # {} => hits(g) = {s.at}
    BY <2>2
  <2>5. \A g : best(g) \in {s.at, NotFound}
    BY <2>4, LeastOfOne
  <2>6. best(Segment(s.at)) = s.at
    BY <2>3, <2>4, LeastOfOne
  <2> HIDE DEF best
  <2>7. \A o \in {best(g) : g \in Candidates(fs, s.id)} : o # NotFound => o = s.at
    BY <2>5
  <2>8. s.at \in {best(g) : g \in Candidates(fs, s.id)}
    BY <1>2, <2>6
  <2> QED BY <1>5, <2>1, <2>7, <2>8
<1> QED BY <1>6, <1>7

\* And the bounded reader, from the entry point of the segment on.
LEMMA WindowFinds ==
    ASSUME NEW rs, HeapsLaid(rs), NEW h \in Range(rs), NEW s \in Subs(h),
           s.kind \in ObjectKinds, s.at \in Nat, WithinReach(h, s),
           \A g \in Range(rs) : \A t \in Subs(g) :
              t.kind \in ObjectKinds /\ t.id = s.id => t.at = s.at,
           s.at + 1 + IdSize <= End(h), h.start <= s.at, End(h) \in Nat, h.start \in Nat,
           h.length > 0,
           NEW fs, Overlaps(h, Segment(s.at)),
           \E j \in DOMAIN fs : fs[j].segment = Segment(s.at) /\ s.id \in fs[j].ids,
           NEW es, EntryOf(es, Segment(s.at)) \in Nat, EntryOf(es, Segment(s.at)) <= s.at
    PROVE  LookedUp(rs, fs, es, {s.id}) = [x \in {s.id} |-> s.at]
<1>1. PICK g, at, e : g = Segment(s.at) /\ at = s.at /\ e = EntryOf(es, g)
  OBVIOUS
<1>2. /\ g \in Nat /\ at \in Nat /\ e \in Nat /\ e <= at
      /\ SegmentStart(g) \in Nat /\ SegmentEnd(g) \in Nat
      /\ SegmentStart(g) <= at /\ at < SegmentEnd(g)
      /\ \A p \in Nat : SegmentStart(g) <= p /\ p < SegmentEnd(g) => Segment(p) = g
  BY <1>1, SegmentHolds
<1>3. PICK from, to : /\ from = Max2(Max2(h.start, SegmentStart(g)), e)
                      /\ to = Min2(End(h), SegmentEnd(g))
  OBVIOUS
<1>4. IdSize \in Nat /\ at + 1 + IdSize <= SegmentEnd(g)
  BY <1>1, SizesAssumption DEF WithinReach
<1>5. /\ from \in Nat /\ to \in Nat /\ from <= at /\ at + 1 + IdSize <= to /\ from < to
      /\ SegmentStart(g) <= from
  BY <1>1, <1>2, <1>3, <1>4 DEF Max2, Min2
<1>6. PICK i \in DOMAIN rs : h = rs[i]
  BY DEF Range
<1>7. PICK w : w = [record |-> h, from |-> from, to |-> to]
  OBVIOUS
<1>8. w \in Windows(rs, es, g)
  <2>1. Overlaps(rs[i], g) /\ rs[i].length > 0
    BY <1>1, <1>6
  <2>2. from = Max2(Max2(rs[i].start, SegmentStart(g)), EntryOf(es, g))
        /\ to = Min2(End(rs[i]), SegmentEnd(g))
    BY <1>1, <1>3, <1>6
  <2> QED BY <1>5, <1>6, <1>7, <2>1, <2>2 DEF Windows
<1>9. PICK j \in DOMAIN fs : fs[j].segment = g /\ s.id \in fs[j].ids
  BY <1>1
<1>10. {s.id} \cap fs[j].ids = {s.id}
  BY <1>9
<1>11. s \in WindowObjects(w.record, w.from, w.to, {s.id})
  <2>1. Reached(h, from, s)
    <3> SUFFICES ASSUME NEW p \in Subs(h), from <= p.at, p.at < s.at
                 PROVE  p.form = "whole"
      BY DEF Reached
    <3>1. p.at \in Nat
      <4>1. LaidOut(h)
        BY DEF HeapsLaid, Range
      <4>2. PICK k \in 1..Len(h.subs) : p = h.subs[k]
        BY <4>1 DEF LaidOut, Subs
      <4> QED BY <4>1, <4>2 DEF LaidOut
    <3>2. Segment(p.at) = g
      <4>1. PICK q : q = p.at
        OBVIOUS
      <4>2. q \in Nat /\ from <= q /\ q < at
        BY <1>1, <3>1, <4>1
      <4> QED BY <1>2, <1>5, <4>1, <4>2
    <3> QED BY <1>1, <3>2 DEF WithinReach
  <2>2. w.record = h /\ w.from = from /\ w.to = to
    BY <1>7
  <2> QED BY <1>1, <1>5, <2>1, <2>2 DEF WindowObjects
<1> DEFINE found == UNION {FoundIn(rs, es, fs[k].segment, {s.id} \cap fs[k].ids)
                        : k \in {l \in DOMAIN fs :
                                   EntryOf(es, fs[l].segment) # NotFound}}
<1>12. s \in found
  <2>1. e # NotFound
    BY <1>2 DEF NotFound
  <2>2. s \in FoundIn(rs, es, fs[j].segment, {s.id} \cap fs[j].ids)
    BY <1>8, <1>9, <1>10, <1>11 DEF FoundIn
  <2> QED BY <1>1, <1>9, <2>1, <2>2
<1>13. ASSUME NEW t \in found
       PROVE  t.id = s.id /\ t.at = s.at
  <2>1. PICK k \in DOMAIN fs : t \in FoundIn(rs, es, fs[k].segment, {s.id} \cap fs[k].ids)
    OBVIOUS
  <2>2. PICK v \in Windows(rs, es, fs[k].segment) :
          t \in WindowObjects(v.record, v.from, v.to, {s.id} \cap fs[k].ids)
    BY <2>1 DEF FoundIn
  <2>3. PICK l \in DOMAIN rs : v.record = rs[l]
    BY <2>2 DEF Windows
  <2>4. t \in Subs(rs[l]) /\ t.kind \in ObjectKinds /\ t.id = s.id
    BY <2>2, <2>3 DEF WindowObjects
  <2>5. rs[l] \in Range(rs)
    BY DEF Range
  <2> QED BY <2>4, <2>5
<1>14. LookedUp(rs, fs, es, {s.id})
         = [id \in {t.id : t \in found} |-> Least({t.at : t \in {u \in found : u.id = id}})]
  BY DEF LookedUp
<1> HIDE DEF found
<1>15. {t.id : t \in found} = {s.id}
  BY <1>12, <1>13
<1>16. {t.at : t \in {u \in found : u.id = s.id}} = {s.at}
  BY <1>12, <1>13
<1>17. Least({s.at}) = s.at
  BY LeastOfOne
<1>18. LookedUp(rs, fs, es, {s.id})
         = [id \in {s.id} |-> Least({t.at : t \in {u \in found : u.id = id}})]
  BY <1>14, <1>15
<1> QED BY <1>16, <1>17, <1>18

\* With whatever false positives of the filters, however the heap was cut into tasks
\* and chunks and in whatever order the tasks ended, the three look-ups find every
\* object of a segment whose filter was built, and at its own place (resolution.rs,
\* offset_lookup.rs).
THEOREM LookupsCorrect == Spec => []LookupsFind
<1>1. ScanInv /\ OrderInv /\ OutInv /\ FiledInv => LookupsFind
  <2> SUFFICES ASSUME ScanInv, OrderInv, OutInv, FiledInv, phase = "correlate",
                      OneObjectPerId, NEW h \in Heaps, NEW s \in Subs(h),
                      Yields(s), s.kind \in ObjectKinds, s \in Findable(s.id)
               PROVE  /\ FindIn(ranges, filters, s.kind, s.id) = s.at
                      /\ s.kind = "instance" => BatchOffsets(ranges, filters, s.id) = {s.at}
                      /\ WithinReach(h, s) =>
                           LookedUp(ranges, filters, entries, {s.id}) = [x \in {s.id} |-> s.at]
    BY DEF LookupsFind
  <2>1. Segment(s.at) \notin setup.unbuildable
    BY DEF Findable
  <2>2. /\ HeapsLaid(ranges)
        /\ h \in Range(ranges)
        /\ s.at \in Nat /\ s.at + 1 + IdSize <= End(h) /\ h.start <= s.at
        /\ End(h) \in Nat /\ h.start \in Nat /\ h.length > 0
        /\ Overlaps(h, Segment(s.at))
        /\ \E j \in DOMAIN filters : /\ filters[j].segment = Segment(s.at)
                                     /\ s.id \in filters[j].ids
        /\ EntryOf(entries, Segment(s.at)) \in Nat
        /\ EntryOf(entries, Segment(s.at)) <= s.at
        /\ \A g \in Range(ranges) : \A t \in Subs(g) :
             t.kind \in ObjectKinds /\ t.id = s.id => t.at = s.at
    BY <2>1, ReadyIs
  <2>3. /\ FindIn(ranges, filters, s.kind, s.id) = s.at
        /\ s.kind = "instance" => BatchOffsets(ranges, filters, s.id) = {s.at}
    <3>1. PICK rs, fs : rs = ranges /\ fs = filters
      OBVIOUS
    <3>2. /\ HeapsLaid(rs) /\ h \in Range(rs) /\ s.at \in Nat
          /\ Overlaps(h, Segment(s.at))
          /\ \E j \in DOMAIN fs : fs[j].segment = Segment(s.at) /\ s.id \in fs[j].ids
      BY <2>2, <3>1
    <3>3. \A g \in Range(rs) : \A t \in Subs(g) :
             t.kind \in ObjectKinds /\ t.id = s.id => t.at = s.at
      BY <2>2, <3>1
    <3>4. s \in Subs(h) /\ Yields(s) /\ s.kind \in ObjectKinds
      OBVIOUS
    <3>5. /\ FindIn(rs, fs, s.kind, s.id) = s.at
          /\ s.kind = "instance" => BatchOffsets(rs, fs, s.id) = {s.at}
      <4>1. Searchable(rs, fs, h, s)
        BY ONLY <3>2, <3>3, <3>4 DEF Searchable
      <4> QED BY ONLY <4>1, SearchesFind
    <3> QED BY <3>1, <3>5
  <2>4. ASSUME WithinReach(h, s)
        PROVE  LookedUp(ranges, filters, entries, {s.id}) = [x \in {s.id} |-> s.at]
    BY <2>2, <2>4, WindowFinds
  <2> QED BY <2>3, <2>4
<1>2. FirstInv /\ OutInv /\ FiledInv /\ [Next]_engineVars => OutInv' /\ FiledInv'
  BY OutStep, FiledStep DEF FirstInv
<1>3. Init => OutInv /\ FiledInv
  BY OutInit, FiledInit
<1>4. FirstInv => ScanInv /\ OrderInv
  BY DEF FirstInv
<1> QED BY <1>1, <1>2, <1>3, <1>4, FirstPassOrder, PTL DEF Spec
=============================================================================
