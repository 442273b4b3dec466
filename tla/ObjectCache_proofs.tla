------------------------- MODULE ObjectCache_proofs -------------------------
(* Theorems about ObjectCache, for every set of objects, sizes and threads. *)
EXTENDS ObjectCache, Induction, FunctionTheorems, SequenceTheorems

-----------------------------------------------------------------------------
(* The order of the cache.                                                 *)

\* Taking out one element keeps the others, in order.
LEMMA Removed ==
    ASSUME NEW S, NEW s \in Seq(S), NEW i \in 1..Len(s)
    PROVE  /\ RemoveAt(s, i) \in Seq(S)
           /\ Len(RemoveAt(s, i)) = Len(s) - 1
           /\ \A j \in 1..(Len(s) - 1) :
                RemoveAt(s, i)[j] = IF j < i THEN s[j] ELSE s[j + 1]
<1> DEFINE front == SubSeq(s, 1, i - 1)
           rest  == SubSeq(s, i + 1, Len(s))
<1>1. PICK n \in Nat : n = Len(s)
  OBVIOUS
<1>2. /\ i \in Int /\ i - 1 \in Int /\ i + 1 \in Int /\ i <= n
      /\ \A k \in 1..n : s[k] \in S
  BY <1>1, ElementOfSeq
<1>3. front \in Seq(S) /\ Len(front) = i - 1 /\ \A k \in 1..(i - 1) : front[k] = s[k]
  <2>1. /\ front \in Seq(S)
        /\ Len(front) = IF 1 <= i - 1 THEN (i - 1) - 1 + 1 ELSE 0
        /\ \A k \in 1..(i - 1) - 1 + 1 : front[k] = s[1 + k - 1]
    <3>1. \A k \in 1..(i - 1) : s[k] \in S
      BY <1>2
    <3> QED BY <1>2, <3>1, SubSeqProperties
  <2> QED BY <1>2, <2>1
<1>4. rest \in Seq(S) /\ Len(rest) = n - i /\ \A k \in 1..(n - i) : rest[k] = s[i + k]
  <2>1. /\ rest \in Seq(S)
        /\ Len(rest) = IF i + 1 <= n THEN n - (i + 1) + 1 ELSE 0
        /\ \A k \in 1..n - (i + 1) + 1 : rest[k] = s[(i + 1) + k - 1]
    <3>1. \A k \in (i + 1)..n : s[k] \in S
      BY <1>2
    <3> QED BY <1>1, <1>2, <3>1, SubSeqProperties
  <2> QED BY <1>2, <2>1
<1> HIDE DEF front, rest
<1>5. /\ front \o rest \in Seq(S)
      /\ Len(front \o rest) = n - 1
      /\ \A j \in 1..(n - 1) : (front \o rest)[j] =
           IF j <= i - 1 THEN front[j] ELSE rest[j - (i - 1)]
  <2>1. /\ front \o rest \in Seq(S)
        /\ Len(front \o rest) = Len(front) + Len(rest)
        /\ \A j \in 1..Len(front) + Len(rest) : (front \o rest)[j] =
             IF j <= Len(front) THEN front[j] ELSE rest[j - Len(front)]
    BY <1>3, <1>4, ConcatProperties
  <2>2. Len(front) = i - 1 /\ Len(rest) = n - i /\ (i - 1) + (n - i) = n - 1
    BY <1>2, <1>3, <1>4
  <2> HIDE <1>3, <1>4
  <2> QED BY <2>1, <2>2
<1>6. ASSUME NEW j \in 1..(n - 1)
      PROVE  (front \o rest)[j] = IF j < i THEN s[j] ELSE s[j + 1]
  <2>1. CASE j < i
    BY <1>2, <1>3, <1>5, <2>1
  <2>2. CASE ~(j < i)
    <3>1. j - (i - 1) \in 1..(n - i) /\ i + (j - (i - 1)) = j + 1
      BY <1>2, <2>2
    <3> QED BY <1>2, <1>4, <1>5, <2>2, <3>1
  <2> QED BY <2>1, <2>2
<1> QED BY <1>1, <1>5, <1>6 DEF RemoveAt, front, rest

Once(s) == \A i, j \in 1..Len(s) : s[i] = s[j] => i = j

\* Promotion keeps every id of the cache once and adds only the promoted one.
LEMMA PromotedOnce ==
    ASSUME cache \in Seq(Objects), Once(cache), NEW o \in Objects
    PROVE  Promoted(o) \in Seq(Objects) /\ Once(Promoted(o))
<1> DEFINE w == Without(o)
<1>1. PICK n \in Nat : n = Len(cache)
  OBVIOUS
<1>2. /\ w \in Seq(Objects) /\ Once(w)
      /\ \A j \in 1..Len(w) : w[j] # o
  <2>1. CASE o \in Cached
    <3> DEFINE i == Position(o)
    <3>1. i \in 1..n /\ cache[i] = o
      BY <1>1, <2>1 DEF Cached, Position
    <3> HIDE DEF i
    <3>2. w = RemoveAt(cache, i)
      BY <2>1 DEF Without, i
    <3>3. /\ w \in Seq(Objects) /\ Len(w) = n - 1
          /\ \A j \in 1..(n - 1) : w[j] = IF j < i THEN cache[j] ELSE cache[j + 1]
      BY <1>1, <3>1, <3>2, Removed
    <3> HIDE DEF w
    <3>4. ASSUME NEW j \in 1..(n - 1), NEW k \in 1..(n - 1), w[j] = w[k]
          PROVE  j = k
      BY <1>1, <3>1, <3>3, <3>4 DEF Once
    <3>5. ASSUME NEW j \in 1..(n - 1)
          PROVE  w[j] # o
      BY <1>1, <3>1, <3>3 DEF Once
    <3> QED BY <3>3, <3>4, <3>5 DEF Once
  <2>2. CASE o \notin Cached
    BY <2>2 DEF Cached, Without
  <2> QED BY <2>1, <2>2
<1> HIDE DEF w
<1>3. PICK m \in Nat : m = Len(w)
  BY <1>2
<1>4. /\ Append(w, o) \in Seq(Objects) /\ Len(Append(w, o)) = m + 1
      /\ \A j \in 1..(m + 1) : Append(w, o)[j] = IF j <= m THEN w[j] ELSE o
  BY <1>2, <1>3
<1>5. Once(Append(w, o))
  BY <1>2, <1>3, <1>4 DEF Once
<1> QED BY <1>4, <1>5 DEF Promoted, w

LEMMA TailOnce ==
    ASSUME NEW s \in Seq(Objects), s # << >>, Once(s)
    PROVE  Head(s) \in Objects /\ Tail(s) \in Seq(Objects) /\ Once(Tail(s))
<1>1. PICK n \in Nat : n = Len(s) /\ n > 0
  OBVIOUS
<1>2. /\ Head(s) \in Objects /\ Tail(s) \in Seq(Objects) /\ Len(Tail(s)) = n - 1
      /\ \A i \in 1..(n - 1) : Tail(s)[i] = s[i + 1]
  BY <1>1, HeadTailProperties
<1>3. Once(Tail(s))
  <2> SUFFICES ASSUME NEW i \in 1..(n - 1), NEW j \in 1..(n - 1), Tail(s)[i] = Tail(s)[j]
               PROVE  i = j
    BY <1>2 DEF Once
  <2>1. i + 1 \in 1..n /\ j + 1 \in 1..n /\ s[i + 1] = s[j + 1]
    BY <1>2
  <2>2. i + 1 = j + 1
    BY <1>1, <2>1 DEF Once
  <2> QED BY <2>2
<1> QED BY <1>2, <1>3

-----------------------------------------------------------------------------
(* Types.                                                                  *)

LEMMA ModuloRange ==
    ASSUME NEW a \in Int
    PROVE  a % Word \in 0..(Word - 1)
BY CacheAssumption

LEMMA InitType == Init => TypeOK
BY CacheAssumption DEF Init, TypeOK, Labels

\* What each kind of step has to show for TypeOK to survive it.
LEMMA TypeStep == TypeOK /\ [Next]_vars => TypeOK'
<1> SUFFICES ASSUME TypeOK, [Next]_vars PROVE TypeOK'
  OBVIOUS
<1> USE DEF Goto, Forget, Labels
<1>1. /\ cache \in Seq(Objects) /\ Once(cache)
      /\ SizeOf \in [Objects -> Nat \ {0}] /\ reinserted \in Nat
      /\ counter \in Int
  BY CacheAssumption DEF TypeOK, Once
<1>2. ASSUME NEW w \in Workers, NEW o \in Objects, Lookup(w, o)
      PROVE  TypeOK'
  <2>1. cache' \in Seq(Objects) /\ Once(cache')
    BY <1>1, <1>2, PromotedOnce DEF Lookup
  <2>2. pc' \in [Workers -> Labels] /\ object' \in [Workers -> Objects \union {NoObject}]
    BY <1>2 DEF Lookup, TypeOK
  <2>3. \A v \in Workers : pc'[v] \in {"recheck", "insert", "add"} => object'[v] \in Objects
    BY <1>2 DEF Lookup, TypeOK
  <2> QED BY <1>2, <2>1, <2>2, <2>3 DEF Lookup, TypeOK, Once
<1>3. ASSUME NEW w \in Workers, Recheck(w) \/ Insert(w)
      PROVE  TypeOK'
  <2>1. object[w] \in Objects
    BY <1>3 DEF Recheck, Insert, TypeOK
  <2>2. cache' \in Seq(Objects) /\ Once(cache')
    BY <1>1, <1>3, <2>1, PromotedOnce DEF Recheck, Insert
  <2>3. \E l \in Labels : /\ pc' = [pc EXCEPT ![w] = l]
                          /\ \/ object' = object
                             \/ object' = [object EXCEPT ![w] = NoObject] /\ l = "idle"
    BY <1>3 DEF Recheck, Insert
  <2>4. /\ pc' \in [Workers -> Labels]
        /\ object' \in [Workers -> Objects \union {NoObject}]
        /\ \A v \in Workers : pc'[v] \in {"recheck", "insert", "add"} => object'[v] \in Objects
    BY <2>1, <2>3 DEF TypeOK
  <2>5. reinserted' \in Nat /\ UNCHANGED <<counter, freed, current>>
    BY <1>1, <1>3 DEF Recheck, Insert, TypeOK
  <2> QED BY <2>2, <2>4, <2>5 DEF TypeOK, Once
<1>4. ASSUME NEW w \in Workers, Add(w)
      PROVE  TypeOK'
  <2>1. SizeOf[object[w]] \in Int
    BY <1>1, <1>4 DEF Add, TypeOK
  <2>2. counter' \in 0..(Word - 1)
    <3>1. counter + SizeOf[object[w]] \in Int
      BY <1>1, <2>1
    <3> QED BY <1>4, <3>1, ModuloRange DEF Add
  <2>3. /\ pc' \in [Workers -> Labels]
        /\ \A v \in Workers : pc'[v] \in {"recheck", "insert", "add"} => object'[v] \in Objects
        /\ object' \in [Workers -> Objects \union {NoObject}]
        /\ UNCHANGED <<cache, freed, current, reinserted>>
    BY <1>4 DEF Add, TypeOK
  <2> QED BY <2>2, <2>3 DEF TypeOK
<1>5. ASSUME NEW w \in Workers, CheckTrigger(w) \/ CheckTarget(w)
      PROVE  TypeOK'
  <2>1. /\ pc' \in [Workers -> Labels]
        /\ \A v \in Workers : pc'[v] \in {"recheck", "insert", "add"} => object'[v] \in Objects
        /\ UNCHANGED <<cache, counter, object, freed, current, reinserted>>
    BY <1>5 DEF CheckTrigger, CheckTarget, TypeOK
  <2> QED BY <2>1 DEF TypeOK
<1>6. ASSUME NEW w \in Workers, Evict(w)
      PROVE  TypeOK'
  <2>1. /\ pc' \in [Workers -> Labels]
        /\ \A v \in Workers : pc'[v] \in {"recheck", "insert", "add"} => object'[v] \in Objects
        /\ UNCHANGED <<counter, object, current, reinserted>>
    BY <1>6 DEF Evict, TypeOK
  <2>2. cache' \in Seq(Objects) /\ Once(cache') /\ freed' \in [Workers -> Nat]
    <3>1. CASE cache = << >>
      BY <1>1, <1>6, <3>1 DEF Evict, TypeOK
    <3>2. CASE cache # << >>
      <4>1. Head(cache) \in Objects /\ Tail(cache) \in Seq(Objects) /\ Once(Tail(cache))
        BY <1>1, <3>2, TailOnce
      <4>2. SizeOf[Head(cache)] \in Nat
        BY <1>1, <4>1
      <4> QED BY <1>6, <3>2, <4>1, <4>2 DEF Evict, TypeOK
    <3> QED BY <3>1, <3>2
  <2> QED BY <2>1, <2>2 DEF TypeOK, Once
<1>7. ASSUME NEW w \in Workers, ReadCurrent(w)
      PROVE  TypeOK'
  <2>1. /\ pc' \in [Workers -> Labels] /\ current' \in [Workers -> 0..(Word - 1)]
        /\ \A v \in Workers : pc'[v] \in {"recheck", "insert", "add"} => object'[v] \in Objects
        /\ UNCHANGED <<cache, counter, object, freed, reinserted>>
    BY <1>7 DEF ReadCurrent, TypeOK
  <2> QED BY <2>1 DEF TypeOK
<1>8. ASSUME NEW w \in Workers, Subtract(w)
      PROVE  TypeOK'
  <2>1. counter' \in 0..(Word - 1)
    <3> DEFINE bytes == IF freed[w] <= current[w] THEN freed[w] ELSE current[w]
    <3>1. bytes \in Int
      BY DEF TypeOK
    <3>2. counter - bytes \in Int
      BY <1>1, <3>1
    <3>3. counter' = (counter - bytes) % Word
      BY <1>8 DEF Subtract
    <3> HIDE DEF bytes
    <3> QED BY <3>2, <3>3, ModuloRange
  <2>2. 0 \in 0..(Word - 1)
    BY CacheAssumption
  <2>3. /\ pc' \in [Workers -> Labels] /\ current' \in [Workers -> 0..(Word - 1)]
        /\ freed' \in [Workers -> Nat]
        /\ \A v \in Workers : pc'[v] \in {"recheck", "insert", "add"} => object'[v] \in Objects
        /\ UNCHANGED <<cache, object, reinserted>>
    BY <1>8, <2>2 DEF Subtract, TypeOK
  <2> QED BY <2>1, <2>3 DEF TypeOK
<1>9. CASE UNCHANGED vars
  BY <1>9 DEF vars, TypeOK
<1> QED BY <1>2, <1>3, <1>4, <1>5, <1>6, <1>7, <1>8, <1>9 DEF Next, Expanding

\* No interleaving of lookups, insertions and evictions caches an id twice or
\* takes a variable out of its domain.
THEOREM TypeCorrect == Spec => []TypeOK
BY InitType, TypeStep, PTL DEF Spec

-----------------------------------------------------------------------------
(* The budget.                                                             *)

LEMMA TargetBelowTrigger ==
    ASSUME NEW bytes \in Nat, UnderTarget(bytes)
    PROVE  ~AtTrigger(bytes)
BY CacheAssumption DEF UnderTarget, AtTrigger

LEMMA BudgetStep ==
    ASSUME TypeOK, BudgetInv, [Next]_vars
    PROVE  BudgetInv'
<1> USE DEF Goto
<1>1. pc \in [Workers -> Labels] /\ counter \in Nat
  BY CacheAssumption DEF TypeOK
<1>2. cache = << >> => Cached = {}
  BY DEF Cached
<1>3. ASSUME NEW w \in Workers, NEW o \in Objects, Lookup(w, o)
      PROVE  BudgetInv'
  <2>1. \A v \in Workers : Reviewing(v) => Reviewing(v)'
    BY <1>1, <1>3 DEF Lookup, Reviewing
  <2>2. cache = << >> => cache' = << >>
    BY <1>2, <1>3 DEF Lookup
  <2> QED BY <1>3, <2>1, <2>2 DEF Lookup, BudgetInv, AtTrigger
<1>4. ASSUME NEW w \in Workers, Recheck(w)
      PROVE  BudgetInv'
  <2>1. \A v \in Workers : Reviewing(v) => Reviewing(v)'
    BY <1>1, <1>4 DEF Recheck, Reviewing
  <2>2. cache = << >> => cache' = << >>
    BY <1>2, <1>4 DEF Recheck
  <2> QED BY <1>4, <2>1, <2>2 DEF Recheck, BudgetInv, AtTrigger
<1>5. ASSUME NEW w \in Workers,
             Insert(w) \/ Add(w) \/ ReadCurrent(w) \/ Subtract(w)
      PROVE  BudgetInv'
  <2>1. Reviewing(w)'
    BY <1>1, <1>5 DEF Insert, Add, ReadCurrent, Subtract, Reviewing
  <2> QED BY <2>1 DEF BudgetInv
<1>6. ASSUME NEW w \in Workers, CheckTrigger(w) \/ CheckTarget(w)
      PROVE  BudgetInv'
  <2>1. Reviewing(w)' \/ ~AtTrigger(counter)
    BY <1>1, <1>6, TargetBelowTrigger DEF CheckTrigger, CheckTarget, Reviewing
  <2>2. counter' = counter
    BY <1>6 DEF CheckTrigger, CheckTarget
  <2> QED BY <2>1, <2>2 DEF BudgetInv, AtTrigger
<1>7. ASSUME NEW w \in Workers, Evict(w)
      PROVE  BudgetInv'
  <2>1. Reviewing(w)' \/ cache' = << >>
    BY <1>1, <1>7 DEF Evict, Reviewing
  <2> QED BY <2>1 DEF BudgetInv
<1>8. CASE UNCHANGED vars
  BY <1>8 DEF vars, BudgetInv, Reviewing, AtTrigger
<1> QED BY <1>3, <1>4, <1>5, <1>6, <1>7, <1>8 DEF Next, Expanding

\* For every number of threads, sizes and budget: when the last expansion is
\* over the counter is under the trigger or the cache is empty.
THEOREM BudgetKept == Spec => []BudgetAtRest
<1>1. Init => BudgetInv
  BY DEF Init, BudgetInv
<1>2. TypeOK /\ BudgetInv /\ [Next]_vars => BudgetInv'
  BY BudgetStep
<1>3. BudgetInv => BudgetAtRest
  BY DEF BudgetInv, BudgetAtRest, AtRest, Reviewing
<1> QED BY <1>1, <1>2, <1>3, TypeCorrect, PTL DEF Spec

-----------------------------------------------------------------------------
(* The counter.                                                            *)

\* The counter read as a number that may be negative for a while: an entry that is
\* evicted before it is added is subtracted first.
Half == Word \div 2
Level == IF counter < Half THEN counter ELSE counter - Word

\* What each thread has cached and not yet added, what it is about to subtract
\* too little of the entry it evicted, because it read a smaller counter, and
\* whether the insertion it is on its way to may replace an entry.
Owed == [w \in Workers |-> IF pc[w] = "add" THEN SizeOf[object[w]] ELSE 0]
Clamped == [w \in Workers |-> IF pc[w] = "subtract" /\ freed[w] > current[w]
                              THEN freed[w] - current[w] ELSE 0]
Pending == [w \in Workers |-> IF pc[w] \in {"recheck", "insert"} THEN 1 ELSE 0]

Readable == Objects \ Unreadable
InFlight(m) == m * Cardinality(Workers)

\* What the theorem assumes of the constants: finitely many threads and readable
\* objects, none of them larger than m, and a counter wide enough for all of them,
\* what the threads have in flight and what the re-insertions count twice.
Room(m) ==
    /\ IsFiniteSet(Workers) /\ IsFiniteSet(Readable)
    /\ m \in Nat
    /\ \A o \in Readable : SizeOf[o] <= m
    /\ Base + m * Cardinality(Readable) + m * MaxReinserted + 4 * InFlight(m) < Half

\* Only readable objects are inserted, and a thread has freed bytes only between
\* an eviction and its subtraction.
FreedInv(m) ==
    /\ Cached \subseteq Readable
    /\ \A w \in Workers :
         /\ pc[w] \in {"insert", "add"} => object[w] \notin Unreadable
         /\ pc[w] \notin {"read", "subtract"} => freed[w] = 0
         /\ freed[w] <= m

\* What the counter would be if every thread were done with what it has begun.
Settled == Base + SumOf(SizeOf, Cached) + SumOf(freed, Workers) - SumOf(Owed, Workers)

\* The counter is never under what is settled, and over it by no more than what
\* clamped subtractions leave (the last to read too small a counter bounds them
\* all) and what re-insertions add.
CounterInv(m) ==
    /\ FreedInv(m)
    /\ Level >= Settled
    /\ Level + SumOf(Clamped, Workers) <= Settled + InFlight(m) + m * reinserted
    /\ reinserted + SumOf(Pending, Workers) <= MaxReinserted + Cardinality(Workers)

IdsOf(s) == {s[i] : i \in 1..Len(s)}

\* The cached ids are finitely many objects.
LEMMA IdsFinite ==
    ASSUME NEW s \in Seq(Objects)
    PROVE  IsFiniteSet(IdsOf(s)) /\ IdsOf(s) \subseteq Objects
<1>1. IsFiniteSet(1..Len(s))
  BY FS_Interval
<1> DEFINE f == [i \in 1..Len(s) |-> s[i]]
<1>2. f \in Surjection(1..Len(s), IdsOf(s))
  BY Fun_IsSurj DEF IdsOf
<1>3. IsFiniteSet(IdsOf(s))
  BY <1>1, <1>2, FS_Surjection
<1> QED BY <1>3 DEF IdsOf

\* Promotion caches the promoted id in addition, and loses none.
LEMMA PromotedIds ==
    ASSUME cache \in Seq(Objects), NEW o \in Objects
    PROVE  IdsOf(Promoted(o)) = Cached \union {o}
<1> DEFINE w == Without(o)
<1>1. w \in Seq(Objects) /\ IdsOf(w) \subseteq Cached /\ Cached \subseteq IdsOf(w) \union {o}
  <2>1. CASE o \in Cached
    <3> DEFINE i == Position(o)
    <3>1. PICK n \in Nat : n = Len(cache)
      OBVIOUS
    <3>2. i \in 1..n /\ cache[i] = o /\ w = RemoveAt(cache, i)
      BY <2>1, <3>1 DEF Cached, Position, Without
    <3> HIDE DEF i, w
    <3>3. /\ w \in Seq(Objects) /\ Len(w) = n - 1
          /\ \A j \in 1..(n - 1) : w[j] = IF j < i THEN cache[j] ELSE cache[j + 1]
      BY <3>1, <3>2, Removed
    <3>4. ASSUME NEW j \in 1..(n - 1)
          PROVE  w[j] \in Cached
      BY <3>1, <3>3 DEF Cached
    <3>5. ASSUME NEW k \in 1..n
          PROVE  cache[k] \in IdsOf(w) \union {o}
      <4>1. CASE k = i
        BY <3>2, <4>1
      <4>2. CASE k < i
        <5>1. k \in 1..(n - 1) /\ w[k] = cache[k]
          BY <3>2, <3>3, <4>2
        <5> QED BY <3>3, <5>1 DEF IdsOf
      <4>3. CASE k > i
        <5>1. k - 1 \in 1..(n - 1) /\ ~(k - 1 < i) /\ (k - 1) + 1 = k
          BY <3>2, <4>3
        <5>2. w[k - 1] = cache[k]
          BY <3>3, <5>1
        <5> QED BY <3>3, <5>1, <5>2 DEF IdsOf
      <4> QED BY <3>2, <4>1, <4>2, <4>3
    <3> QED BY <3>1, <3>3, <3>4, <3>5 DEF IdsOf, Cached
  <2>2. CASE o \notin Cached
    BY <2>2 DEF Cached, Without, IdsOf
  <2> QED BY <2>1, <2>2
<1> HIDE DEF w
<1>2. PICK n \in Nat : n = Len(w)
  BY <1>1
<1>3. /\ Len(Append(w, o)) = n + 1
      /\ \A j \in 1..(n + 1) : Append(w, o)[j] = IF j <= n THEN w[j] ELSE o
  BY <1>1, <1>2
<1>4. ASSUME NEW j \in 1..(n + 1)
      PROVE  Append(w, o)[j] \in IdsOf(w) \union {o}
  BY <1>1, <1>2, <1>3 DEF IdsOf
<1>5. IdsOf(w) \union {o} \subseteq IdsOf(Append(w, o))
  <2>1. o = Append(w, o)[n + 1] /\ n + 1 \in 1..(n + 1)
    BY <1>2, <1>3
  <2>2. ASSUME NEW j \in 1..n
        PROVE  w[j] = Append(w, o)[j] /\ j \in 1..(n + 1)
    BY <1>2, <1>3
  <2> QED BY <1>2, <1>3, <2>1, <2>2 DEF IdsOf
<1>6. IdsOf(Append(w, o)) \subseteq IdsOf(w) \union {o}
  BY <1>3, <1>4 DEF IdsOf
<1>7. IdsOf(Append(w, o)) = Cached \union {o}
  BY <1>1, <1>5, <1>6
<1> QED BY <1>7 DEF Promoted, w

\* What is evicted is cached no more, and nothing else is lost.
LEMMA TailIds ==
    ASSUME cache \in Seq(Objects), cache # << >>, Once(cache)
    PROVE  Head(cache) \in Cached /\ IdsOf(Tail(cache)) = Cached \ {Head(cache)}
<1>1. PICK n \in Nat : n = Len(cache) /\ n > 0
  OBVIOUS
<1>2. /\ Tail(cache) \in Seq(Objects) /\ Len(Tail(cache)) = n - 1
      /\ \A i \in 1..(n - 1) : Tail(cache)[i] = cache[i + 1]
      /\ Head(cache) = cache[1]
  BY <1>1, HeadTailProperties
<1>3. ASSUME NEW i \in 1..(n - 1)
      PROVE  cache[i + 1] \in Cached \ {cache[1]}
  <2>1. 1 \in 1..n /\ i + 1 \in 1..n /\ i + 1 # 1
    BY <1>1
  <2> QED BY <1>1, <2>1 DEF Cached, Once
<1>4. ASSUME NEW k \in 1..n, cache[k] # cache[1]
      PROVE  cache[k] \in IdsOf(Tail(cache))
  <2>1. k - 1 \in 1..(n - 1) /\ (k - 1) + 1 = k
    BY <1>1, <1>4
  <2>2. Tail(cache)[k - 1] = cache[k]
    BY <1>2, <2>1
  <2> QED BY <1>2, <2>1, <2>2 DEF IdsOf
<1>5. IdsOf(Tail(cache)) \subseteq Cached \ {cache[1]}
  BY <1>2, <1>3 DEF IdsOf
<1>6. Cached \ {cache[1]} \subseteq IdsOf(Tail(cache))
  BY <1>1, <1>4 DEF Cached
<1> QED BY <1>1, <1>2, <1>5, <1>6 DEF Cached

\* The cached bytes grow by those of a promoted id that was not cached.
LEMMA PromotedBytes ==
    ASSUME TypeOK, NEW o \in Objects, cache' = Promoted(o)
    PROVE  /\ Cached' = Cached \union {o}
           /\ SumOf(SizeOf, Cached') =
                SumOf(SizeOf, Cached) + (IF o \in Cached THEN 0 ELSE SizeOf[o])
<1>1. cache \in Seq(Objects)
  BY DEF TypeOK
<1>2. IsFiniteSet(Cached) /\ Cached \subseteq Objects
  BY <1>1, IdsFinite DEF Cached, IdsOf
<1>3. Cached' = Cached \union {o}
  BY <1>1, PromotedIds DEF Cached, IdsOf
<1>4. \A x \in Cached \union {o} : SizeOf[x] \in Nat
  BY <1>2, CacheAssumption
<1>5. SumOf(SizeOf, Cached) \in Nat
  BY <1>2, <1>4, SumNat
<1>6. CASE o \in Cached
  <2>1. Cached' = Cached
    BY <1>3, <1>6
  <2>2. SumOf(SizeOf, Cached') = SumOf(SizeOf, Cached)
    BY <2>1
  <2> QED BY <1>3, <1>5, <1>6, <2>2
<1>7. CASE o \notin Cached
  <2>1. SumOf(SizeOf, Cached \union {o}) = SizeOf[o] + SumOf(SizeOf, Cached)
    BY <1>2, <1>4, <1>7, SumWith
  <2> QED BY <1>3, <1>4, <1>5, <1>7, <2>1
<1> QED BY <1>6, <1>7

\* An eviction takes the bytes of its entry out of the cached ones.
LEMMA EvictedBytes ==
    ASSUME TypeOK, cache # << >>, cache' = Tail(cache)
    PROVE  /\ Head(cache) \in Cached /\ Cached' = Cached \ {Head(cache)}
           /\ SumOf(SizeOf, Cached) = SumOf(SizeOf, Cached') + SizeOf[Head(cache)]
<1> DEFINE h == Head(cache)
<1>1. cache \in Seq(Objects) /\ Once(cache)
  BY DEF TypeOK, Once
<1>2. IsFiniteSet(Cached) /\ Cached \subseteq Objects
  BY <1>1, IdsFinite DEF Cached, IdsOf
<1>3. h \in Cached /\ Cached' = Cached \ {h}
  BY <1>1, TailIds DEF Cached, IdsOf
<1> HIDE DEF h
<1>4. \A x \in Cached : SizeOf[x] \in Nat
  BY <1>2, CacheAssumption
<1>5. SumOf(SizeOf, Cached) = SizeOf[h] + SumOf(SizeOf, Cached')
  BY <1>2, <1>3, <1>4, SumWithout
<1>6. SumOf(SizeOf, Cached') \in Nat /\ SizeOf[h] \in Nat
  <2>1. IsFiniteSet(Cached') /\ \A x \in Cached' : SizeOf[x] \in Nat
    BY <1>2, <1>3, <1>4, FS_Subset
  <2> QED BY <1>3, <1>4, <2>1, SumNat
<1> QED BY <1>3, <1>5, <1>6 DEF h

\* The sums of one state: the cached bytes are those of readable objects, and no
\* thread has more than m bytes in flight.
Facts(m) ==
    /\ SumOf(SizeOf, Cached) \in Nat
    /\ SumOf(SizeOf, Cached) <= m * Cardinality(Readable)
    /\ \A w \in Workers : /\ Owed[w] \in Nat /\ freed[w] \in Nat
                          /\ Clamped[w] \in Nat /\ Pending[w] \in Nat
    /\ SumOf(Owed, Workers) \in Nat /\ SumOf(Owed, Workers) <= InFlight(m)
    /\ SumOf(freed, Workers) \in Nat /\ SumOf(freed, Workers) <= InFlight(m)
    /\ SumOf(Clamped, Workers) \in Nat /\ SumOf(Pending, Workers) \in Nat
    /\ SumOf(Pending, Workers) <= Cardinality(Workers)

LEMMA CounterFacts ==
    ASSUME NEW m, Room(m), TypeOK, FreedInv(m)
    PROVE  Facts(m)
<1>1. IsFiniteSet(Workers) /\ IsFiniteSet(Readable) /\ m \in Nat
  BY DEF Room
<1>2. SumOf(SizeOf, Cached) \in Nat /\ SumOf(SizeOf, Cached) <= m * Cardinality(Readable)
  <2>1. Cached \subseteq Readable
    BY DEF FreedInv
  <2>2. \A o \in Readable : SizeOf[o] \in Nat /\ SizeOf[o] <= m
    BY CacheAssumption DEF Readable, Room
  <2>3. IsFiniteSet(Cached)
    BY <1>1, <2>1, FS_Subset
  <2>4. SumOf(SizeOf, Cached) <= SumOf(SizeOf, Readable)
    BY <1>1, <2>1, <2>2, SumSubset
  <2>5. SumOf(SizeOf, Readable) <= m * Cardinality(Readable)
    BY <1>1, <2>2, SumBound
  <2>6. SumOf(SizeOf, Cached) \in Nat /\ SumOf(SizeOf, Readable) \in Nat
    BY <1>1, <2>1, <2>2, <2>3, SumNat
  <2>7. m * Cardinality(Readable) \in Nat
    BY <1>1, FS_CardinalityType
  <2> QED BY <2>4, <2>5, <2>6, <2>7
<1>3. ASSUME NEW w \in Workers
      PROVE  /\ Owed[w] \in Nat /\ Owed[w] <= m
             /\ freed[w] \in Nat /\ freed[w] <= m
             /\ Clamped[w] \in Nat /\ Pending[w] \in Nat /\ Pending[w] <= 1
  <2>1. Owed[w] \in Nat /\ Owed[w] <= m
    <3>1. CASE pc[w] = "add"
      <4>1. object[w] \in Readable
        BY <3>1 DEF TypeOK, FreedInv, Readable
      <4>2. SizeOf[object[w]] \in Nat /\ SizeOf[object[w]] <= m
        BY <4>1, CacheAssumption DEF Room, Readable
      <4> QED BY <3>1, <4>2 DEF Owed
    <3>2. CASE pc[w] # "add"
      BY <1>1, <3>2 DEF Owed
    <3> QED BY <3>1, <3>2
  <2>2. freed[w] \in Nat /\ freed[w] <= m
    BY DEF TypeOK, FreedInv
  <2>3. Clamped[w] \in Nat
    <3>1. current[w] \in Nat
      BY CacheAssumption DEF TypeOK
    <3> QED BY <2>2, <3>1 DEF Clamped
  <2>4. Pending[w] \in Nat /\ Pending[w] <= 1
    BY DEF Pending
  <2> QED BY <2>1, <2>2, <2>3, <2>4
<1>4. SumOf(Owed, Workers) \in Nat /\ SumOf(Owed, Workers) <= InFlight(m)
  BY <1>1, <1>3, SumNat, SumBound DEF InFlight
<1>5. SumOf(freed, Workers) \in Nat /\ SumOf(freed, Workers) <= InFlight(m)
  BY <1>1, <1>3, SumNat, SumBound DEF InFlight
<1>6. SumOf(Clamped, Workers) \in Nat
  BY <1>1, <1>3, SumNat
<1>7. SumOf(Pending, Workers) \in Nat /\ SumOf(Pending, Workers) <= Cardinality(Workers)
  <2>1. SumOf(Pending, Workers) <= 1 * Cardinality(Workers)
    BY <1>1, <1>3, SumBound
  <2> QED BY <1>1, <1>3, <2>1, SumNat, FS_CardinalityType
<1> QED BY <1>2, <1>3, <1>4, <1>5, <1>6, <1>7 DEF Facts

\* They are so of the next state, too.
LEMMA CounterFactsNext ==
    ASSUME NEW m, Room(m)
    PROVE  TypeOK' /\ FreedInv(m)' => Facts(m)'
<1>1. TypeOK /\ FreedInv(m) => Facts(m)
  BY CounterFacts
<1> QED BY <1>1, PTL

\* What the re-insertions add is bounded with their number.
LEMMA ReinsertedBytes ==
    ASSUME NEW m, Room(m), NEW r \in Nat, r <= MaxReinserted + Cardinality(Workers)
    PROVE  /\ InFlight(m) \in Nat /\ m * Cardinality(Readable) \in Nat
           /\ m * MaxReinserted \in Nat /\ m * r \in Nat
           /\ m * r <= m * MaxReinserted + InFlight(m)
<1>1. /\ m \in Nat /\ MaxReinserted \in Nat /\ Cardinality(Workers) \in Nat
      /\ Cardinality(Readable) \in Nat
  BY FS_CardinalityType, CacheAssumption DEF Room
<1>2. PICK k \in Nat : MaxReinserted + Cardinality(Workers) = r + k
  <2>1. /\ (MaxReinserted + Cardinality(Workers)) - r \in Nat
        /\ MaxReinserted + Cardinality(Workers)
             = r + ((MaxReinserted + Cardinality(Workers)) - r)
    BY <1>1
  <2> QED BY <2>1
<1>3. m * MaxReinserted + m * Cardinality(Workers) = m * r + m * k
  <2>1. m * (MaxReinserted + Cardinality(Workers)) = m * (r + k)
    BY <1>2
  <2>2. \A x, y \in Nat : m * (x + y) = m * x + m * y
    BY <1>1
  <2> QED BY <1>1, <2>1, <2>2
<1>4. /\ m * k \in Nat /\ m * r \in Nat /\ m * MaxReinserted \in Nat
      /\ m * Cardinality(Workers) \in Nat /\ m * Cardinality(Readable) \in Nat
  BY <1>1
<1> QED BY <1>3, <1>4 DEF InFlight

\* Modulo Word, a move that stays within half the range moves the level by as much.
LEMMA LevelMoves ==
    ASSUME TypeOK, NEW d \in Int, counter' = (counter + d) % Word,
           -Half <= Level + d, Level + d < Half
    PROVE  Level' = Level + d
<1>1. /\ counter \in Int /\ 0 <= counter /\ counter < Word /\ Word \in Nat \ {0}
      /\ Half \in Int /\ 2 * Half <= Word /\ Word <= 2 * Half + 1
  BY CacheAssumption DEF TypeOK, Half
<1>2. Level = counter \/ Level = counter - Word
  BY DEF Level
<1> DEFINE a == counter + d
<1>3. a \in Int /\ -Word <= a /\ a < 2 * Word
  BY <1>1, <1>2
<1>4. a % Word = IF a < 0 THEN a + Word ELSE IF a < Word THEN a ELSE a - Word
  <2> HIDE DEF a
  <2>1. CASE a < 0
    BY <1>1, <1>3, <2>1
  <2>2. CASE 0 <= a /\ a < Word
    BY <1>1, <1>3, <2>2
  <2>3. CASE Word <= a
    BY <1>1, <1>3, <2>3
  <2> QED BY <1>1, <1>3, <2>1, <2>2, <2>3
<1>5. counter' = IF a < 0 THEN a + Word ELSE IF a < Word THEN a ELSE a - Word
  BY <1>4
<1>6. Half' = Half
  BY DEF Half
<1> HIDE <1>4
<1> QED BY <1>1, <1>5, <1>6 DEF Level

\* One step of one thread changes the sums by what it changes for that thread.
LEMMA SumsChange ==
    ASSUME NEW m, Room(m), TypeOK, TypeOK', FreedInv(m), FreedInv(m)', NEW w \in Workers,
           \A v \in Workers \ {w} : /\ pc'[v] = pc[v] /\ object'[v] = object[v]
                                    /\ freed'[v] = freed[v] /\ current'[v] = current[v]
    PROVE  /\ SumOf(Owed', Workers) = SumOf(Owed, Workers) - Owed[w] + Owed'[w]
           /\ SumOf(freed', Workers) = SumOf(freed, Workers) - freed[w] + freed'[w]
           /\ SumOf(Clamped', Workers) = SumOf(Clamped, Workers) - Clamped[w] + Clamped'[w]
           /\ SumOf(Pending', Workers) = SumOf(Pending, Workers) - Pending[w] + Pending'[w]
<1>1. ASSUME NEW v \in Workers
      PROVE  /\ Owed[v] \in Nat /\ freed[v] \in Nat /\ Clamped[v] \in Nat /\ Pending[v] \in Nat
             /\ Owed'[v] \in Nat /\ freed'[v] \in Nat /\ Clamped'[v] \in Nat /\ Pending'[v] \in Nat
  <2>1. Owed[v] \in Nat /\ freed[v] \in Nat /\ Clamped[v] \in Nat /\ Pending[v] \in Nat
    BY CounterFacts DEF Facts
  <2>2. freed'[v] \in Nat /\ current'[v] \in Nat
    BY CacheAssumption DEF TypeOK
  <2>3. Owed'[v] \in Nat
    BY CacheAssumption DEF Owed, TypeOK
  <2>4. Clamped'[v] \in Nat /\ Pending'[v] \in Nat
    BY <2>2 DEF Clamped, Pending
  <2> QED BY <2>1, <2>2, <2>3, <2>4
<1>2. ASSUME NEW v \in Workers \ {w}
      PROVE  Owed'[v] = Owed[v] /\ Clamped'[v] = Clamped[v] /\ Pending'[v] = Pending[v]
  BY DEF Owed, Clamped, Pending
<1>3. IsFiniteSet(Workers)
  BY DEF Room
<1>4. SumOf(Owed', Workers) = SumOf(Owed, Workers) - Owed[w] + Owed'[w]
  BY <1>1, <1>2, <1>3, SumChange
<1>5. SumOf(freed', Workers) = SumOf(freed, Workers) - freed[w] + freed'[w]
  BY <1>1, <1>3, SumChange
<1>6. SumOf(Clamped', Workers) = SumOf(Clamped, Workers) - Clamped[w] + Clamped'[w]
  BY <1>1, <1>2, <1>3, SumChange
<1>7. SumOf(Pending', Workers) = SumOf(Pending, Workers) - Pending[w] + Pending'[w]
  BY <1>1, <1>2, <1>3, SumChange
<1> QED BY <1>4, <1>5, <1>6, <1>7

\* A step of one thread that moves the counter by d keeps the invariant if it
\* moves what is settled by no more, and the upper bound by no less, where e is
\* what it re-inserts; or if all that is clamped has just been read, when what is
\* freed bounds the counter.
LEMMA Balance ==
    ASSUME NEW m, Room(m), TypeOK, TypeOK', CounterInv(m), FreedInv(m)',
           NEW w \in Workers,
           \A v \in Workers \ {w} : /\ pc'[v] = pc[v] /\ object'[v] = object[v]
                                    /\ freed'[v] = freed[v] /\ current'[v] = current[v],
           NEW d \in Int, counter' = (counter + d) % Word,
           NEW t \in Int, SumOf(SizeOf, Cached') = SumOf(SizeOf, Cached) + t,
           NEW e \in Nat, m * reinserted' = m * reinserted + e,
           d >= t - freed[w] + freed'[w] + Owed[w] - Owed'[w],
           \/ d - Clamped[w] + Clamped'[w]
                <= t - freed[w] + freed'[w] + Owed[w] - Owed'[w] + e
           \/ Level + d + SumOf(Clamped', Workers) <= SumOf(freed', Workers),
           reinserted' + SumOf(Pending', Workers) <= MaxReinserted + Cardinality(Workers)
    PROVE  CounterInv(m)'
<1> DEFINE T == SumOf(SizeOf, Cached)  T1 == SumOf(SizeOf, Cached')
           G == SumOf(freed, Workers)  G1 == SumOf(freed', Workers)
           O == SumOf(Owed, Workers)   O1 == SumOf(Owed', Workers)
           C == SumOf(Clamped, Workers) C1 == SumOf(Clamped', Workers)
           F == InFlight(m)  R == m * Cardinality(Readable)  X == m * MaxReinserted
           M == m * reinserted  M1 == m * reinserted'
<1>1. FreedInv(m)
  BY DEF CounterInv
<1>2. /\ O1 = O - Owed[w] + Owed'[w]
      /\ G1 = G - freed[w] + freed'[w]
      /\ C1 = C - Clamped[w] + Clamped'[w]
  BY <1>1, SumsChange
<1>3. /\ T \in Nat /\ O \in Nat /\ G \in Nat /\ C \in Nat
      /\ Owed[w] \in Nat /\ freed[w] \in Nat /\ Clamped[w] \in Nat
  BY <1>1, CounterFacts DEF Facts
<1>4. /\ T1 \in Nat /\ T1 <= R /\ O1 \in Nat /\ O1 <= F /\ G1 \in Nat /\ G1 <= F
      /\ C1 \in Nat /\ SumOf(Pending', Workers) \in Nat
      /\ Owed'[w] \in Nat /\ freed'[w] \in Nat /\ Clamped'[w] \in Nat
  <2>1. Facts(m)'
    BY CounterFactsNext
  <2>2. R' = R /\ F' = F
    BY DEF InFlight, Readable
  <2> QED BY <2>1, <2>2 DEF Facts
<1>5. reinserted' \in Nat /\ reinserted' <= MaxReinserted + Cardinality(Workers)
  <2>1. reinserted' \in Nat /\ MaxReinserted \in Nat /\ Cardinality(Workers) \in Nat
    BY CacheAssumption, FS_CardinalityType DEF TypeOK, Room
  <2> QED BY <1>4, <2>1
<1>6. /\ F \in Nat /\ R \in Nat /\ X \in Nat /\ M1 \in Nat /\ M1 <= X + F
  BY <1>5, ReinsertedBytes
<1>7. /\ Level \in Int /\ Base \in Nat /\ M \in Int
      /\ Level >= Base + T + G - O
      /\ Level + C <= Base + T + G - O + F + M
      /\ Base + R + X + 4 * F < Half /\ Half \in Int
  <2>1. counter \in Int /\ Word \in Int /\ Half \in Int /\ Base \in Nat
    BY CacheAssumption DEF TypeOK, Half
  <2>2. Level \in Int
    BY <2>1 DEF Level
  <2>3. M \in Int
    BY DEF TypeOK, Room
  <2> QED BY <2>1, <2>2, <2>3 DEF CounterInv, Settled, Room
<1> HIDE DEF T, T1, G, G1, O, O1, C, C1, F, R, X, M, M1
<1>8. /\ T1 = T + t /\ M1 = M + e
      /\ d >= t - freed[w] + freed'[w] + Owed[w] - Owed'[w]
      /\ \/ d - Clamped[w] + Clamped'[w] <= t - freed[w] + freed'[w] + Owed[w] - Owed'[w] + e
         \/ Level + d + C1 <= G1
  BY DEF T, T1, M, M1, C1, G1
<1>9. Level + d >= Base + T1 + G1 - O1
  BY <1>2, <1>3, <1>4, <1>7, <1>8
<1>10. Level + d + C1 <= Base + T1 + G1 - O1 + F + M1
  BY <1>2, <1>3, <1>4, <1>6, <1>7, <1>8
<1>11. -Half <= Level + d /\ Level + d < Half
  BY <1>4, <1>6, <1>7, <1>9, <1>10
<1>12. Level' = Level + d
  BY <1>11, LevelMoves
<1>13. /\ Level' >= Base + T1 + G1 - O1
       /\ Level' + C1 <= Base + T1 + G1 - O1 + F + M1
  BY <1>9, <1>10, <1>12
<1>14. /\ Owed' = [v \in Workers |-> IF pc'[v] = "add" THEN SizeOf[object'[v]] ELSE 0]
       /\ InFlight(m)' = InFlight(m)
  BY DEF Owed, InFlight
<1> QED BY <1>13, <1>14 DEF CounterInv, Settled, T1, G1, O1, C1, F, M1

LEMMA CounterInit ==
    ASSUME NEW m, Room(m), Init
    PROVE  CounterInv(m)
<1>1. \A w \in Workers : Owed[w] = 0 /\ Clamped[w] = 0 /\ Pending[w] = 0 /\ freed[w] = 0
  BY DEF Init, Owed, Clamped, Pending
<1> DEFINE none == [w \in Workers |-> 0]
<1>2. SumOf(none, Workers) <= 0 * Cardinality(Workers) /\ SumOf(none, Workers) \in Nat
  BY SumBound, SumNat DEF Room
<1>3. SumOf(none, Workers) = 0 /\ Cardinality(Workers) \in Nat
  BY <1>2, FS_CardinalityType DEF Room
<1>4. /\ SumOf(Owed, Workers) = SumOf(none, Workers)
      /\ SumOf(Clamped, Workers) = SumOf(none, Workers)
      /\ SumOf(Pending, Workers) = SumOf(none, Workers)
      /\ SumOf(freed, Workers) = SumOf(none, Workers)
  BY <1>1, SumSame DEF Room
<1>5. SumOf(SizeOf, Cached) = 0
  <2>1. Cached = {}
    BY DEF Init, Cached
  <2> QED BY <2>1, SumEmpty
<1> HIDE DEF none
<1>6. Level = Base /\ Base \in Nat /\ Settled = Base
  <2>1. /\ InFlight(m) \in Nat /\ m * Cardinality(Readable) \in Nat
        /\ m * MaxReinserted \in Nat
    BY <1>3, CacheAssumption, ReinsertedBytes
  <2>2. Base < Half
    <3>1. Half \in Int /\ Base \in Nat
      BY CacheAssumption DEF Half
    <3> QED BY <2>1, <3>1 DEF Room
  <2>3. Level = Base
    BY <2>2 DEF Init, Level
  <2> QED BY <1>3, <1>4, <1>5, <2>3, CacheAssumption DEF Settled
<1>7. FreedInv(m)
  BY DEF Init, FreedInv, Room, Cached
<1>8. m * reinserted = 0 /\ InFlight(m) \in Nat /\ reinserted = 0
  BY <1>3 DEF Init, Room, InFlight
<1> QED BY <1>3, <1>4, <1>6, <1>7, <1>8, CacheAssumption DEF CounterInv

LEMMA FreedStep ==
    ASSUME NEW m, Room(m), TypeOK, TypeOK', FreedInv(m), [Next]_vars
    PROVE  FreedInv(m)'
<1> USE DEF Goto, Forget
<1>1. /\ pc \in [Workers -> Labels] /\ object \in [Workers -> Objects \union {NoObject}]
      /\ freed \in [Workers -> Nat] /\ m \in Nat
      /\ \A w \in Workers : pc[w] \in {"recheck", "insert", "add"} => object[w] \in Objects
  BY DEF TypeOK, Room
<1>2. /\ Cached \subseteq Readable
      /\ \A w \in Workers : /\ pc[w] \in {"insert", "add"} => object[w] \notin Unreadable
                            /\ pc[w] \notin {"read", "subtract"} => freed[w] = 0
                            /\ freed[w] <= m
  BY DEF FreedInv
<1>3. ASSUME NEW w \in Workers, NEW o \in Objects, Lookup(w, o)
      PROVE  FreedInv(m)'
  <2>1. Cached' = Cached
    <3>1. CASE o \in Cached /\ cache' = Promoted(o)
      BY <3>1, PromotedBytes
    <3>2. CASE cache' = cache
      BY <3>2 DEF Cached
    <3> QED BY <1>3, <3>1, <3>2 DEF Lookup
  <2>2. \A v \in Workers : \/ pc'[v] = pc[v] /\ object'[v] = object[v]
                           \/ pc'[v] = "recheck" /\ pc[v] = "idle"
    BY <1>1, <1>3 DEF Lookup
  <2> QED BY <1>2, <1>3, <2>1, <2>2 DEF Lookup, FreedInv
<1>4. ASSUME NEW w \in Workers, Recheck(w) \/ Insert(w)
      PROVE  FreedInv(m)'
  <2>1. object[w] \in Objects /\ pc[w] \in {"recheck", "insert"} /\ freed' = freed
    BY <1>1, <1>4 DEF Recheck, Insert
  <2>2. Cached' \subseteq Readable
    <3>1. CASE cache' = Promoted(object[w]) /\ object[w] \notin Unreadable
      BY <1>2, <2>1, <3>1, PromotedBytes DEF Readable
    <3>2. CASE cache' = cache
      BY <1>2, <3>2 DEF Cached
    <3> QED BY <1>2, <1>4, <3>1, <3>2 DEF Recheck, Insert
  <2>3. \A v \in Workers :
          \/ pc'[v] = pc[v] /\ object'[v] = object[v]
          \/ pc'[v] = "idle" /\ pc[v] = "recheck"
          \/ /\ pc'[v] \in {"insert", "add"} /\ object'[v] = object[v]
             /\ object[v] \notin Unreadable /\ pc[v] \in {"recheck", "insert"}
    BY <1>1, <1>2, <1>4 DEF Recheck, Insert
  <2> QED BY <1>2, <2>1, <2>2, <2>3 DEF FreedInv
<1>5. ASSUME NEW w \in Workers, Add(w) \/ CheckTrigger(w) \/ CheckTarget(w) \/ ReadCurrent(w)
      PROVE  FreedInv(m)'
  <2>1. Cached' = Cached /\ freed' = freed
    BY <1>5 DEF Add, CheckTrigger, CheckTarget, ReadCurrent, Cached
  <2>2. \A v \in Workers :
          \/ pc'[v] = pc[v] /\ object'[v] = object[v]
          \/ /\ pc'[v] \in {"trigger", "evict", "idle"}
             /\ pc[v] \in {"add", "trigger", "target"}
          \/ pc'[v] = "subtract" /\ pc[v] = "read"
    BY <1>1, <1>5 DEF Add, CheckTrigger, CheckTarget, ReadCurrent
  <2> QED BY <1>2, <2>1, <2>2 DEF FreedInv
<1>6. ASSUME NEW w \in Workers, Evict(w)
      PROVE  FreedInv(m)'
  <2>1. CASE cache = << >>
    <3>1. Cached' = Cached /\ freed' = freed /\ object' = object
      BY <1>6, <2>1 DEF Evict, Cached
    <3>2. \A v \in Workers : pc'[v] = pc[v] \/ (pc'[v] = "idle" /\ pc[v] = "evict")
      BY <1>1, <1>6, <2>1 DEF Evict
    <3> QED BY <1>2, <3>1, <3>2 DEF FreedInv
  <2>2. CASE cache # << >>
    <3>1. /\ cache' = Tail(cache) /\ object' = object
          /\ \A v \in Workers : \/ pc'[v] = pc[v] /\ freed'[v] = freed[v]
                                \/ pc'[v] = "read" /\ freed'[v] = SizeOf[Head(cache)]
      BY <1>1, <1>6, <2>2 DEF Evict
    <3>2. Head(cache) \in Readable /\ Cached' \subseteq Readable
      BY <1>2, <2>2, <3>1, EvictedBytes
    <3>3. SizeOf[Head(cache)] <= m
      BY <3>2 DEF Room
    <3> QED BY <1>2, <3>1, <3>2, <3>3 DEF FreedInv
  <2> QED BY <2>1, <2>2
<1>7. ASSUME NEW w \in Workers, Subtract(w)
      PROVE  FreedInv(m)'
  <2>1. Cached' = Cached /\ object' = object
    BY <1>7 DEF Subtract, Cached
  <2>2. \A v \in Workers : \/ pc'[v] = pc[v] /\ freed'[v] = freed[v]
                           \/ pc'[v] = "target" /\ freed'[v] = 0
    BY <1>1, <1>7 DEF Subtract
  <2> QED BY <1>1, <1>2, <2>1, <2>2 DEF FreedInv
<1>8. CASE UNCHANGED vars
  BY <1>2, <1>8 DEF vars, FreedInv, Cached
<1> QED BY <1>3, <1>4, <1>5, <1>6, <1>7, <1>8 DEF Next, Expanding

LEMMA CounterStep ==
    ASSUME NEW m, Room(m), TypeOK, TypeOK', CounterInv(m), [Next]_vars
    PROVE  CounterInv(m)'
<1> USE DEF Goto, Forget
<1> DEFINE n == Cardinality(Workers)
           pending == SumOf(Pending, Workers)
           Others(w) == \A v \in Workers \ {w} :
                           /\ pc'[v] = pc[v] /\ object'[v] = object[v]
                           /\ freed'[v] = freed[v] /\ current'[v] = current[v]
<1>1. FreedInv(m) /\ FreedInv(m)'
  BY FreedStep DEF CounterInv
<1>2. /\ pc \in [Workers -> Labels] /\ object \in [Workers -> Objects \union {NoObject}]
      /\ freed \in [Workers -> Nat] /\ current \in [Workers -> 0..(Word - 1)]
      /\ counter \in 0..(Word - 1) /\ reinserted \in Nat
      /\ \A w \in Workers : /\ pc[w] \in {"recheck", "insert", "add"} => object[w] \in Objects
                            /\ pc[w] \notin {"read", "subtract"} => freed[w] = 0
  BY <1>1 DEF TypeOK, FreedInv
<1>3. /\ n \in Nat /\ MaxReinserted \in Nat /\ m \in Nat /\ m * reinserted \in Int
      /\ pending \in Nat /\ reinserted + pending <= MaxReinserted + n
      /\ counter = (counter + 0) % Word
  <2>1. n \in Nat /\ MaxReinserted \in Nat /\ m \in Nat
    BY FS_CardinalityType, CacheAssumption DEF Room
  <2>2. pending \in Nat
    BY <1>1, CounterFacts DEF Facts
  <2>3. counter = (counter + 0) % Word
    <3>1. \A a \in 0..(Word - 1) : (a + 0) % Word = a
      BY CacheAssumption
    <3> QED BY <1>2, <3>1
  <2> QED BY <1>2, <2>1, <2>2, <2>3 DEF CounterInv
<1>4. SumOf(SizeOf, Cached) \in Nat
  BY <1>1, CounterFacts DEF Facts
<1>5. ASSUME NEW w \in Workers, NEW o \in Objects, Lookup(w, o)
      PROVE  CounterInv(m)'
  <2>1. CASE o \in Cached
    <3>1. Cached' = Cached
      BY <1>5, <2>1, PromotedBytes DEF Lookup
    <3>2. UNCHANGED <<counter, pc, object, freed, current, reinserted>>
      BY <1>5, <2>1 DEF Lookup
    <3> QED BY <1>1, <3>1, <3>2
          DEF CounterInv, Settled, Level, Owed, Clamped, Pending, InFlight
  <2>2. CASE o \notin Cached
    <3>1. /\ Others(w) /\ UNCHANGED <<cache, counter, freed, current, reinserted>>
          /\ pc[w] = "idle" /\ pc'[w] = "recheck" /\ reinserted < MaxReinserted
      BY <1>2, <1>5, <2>2 DEF Lookup
    <3>2. /\ Owed[w] = 0 /\ Owed'[w] = 0 /\ Clamped[w] = 0 /\ Clamped'[w] = 0
          /\ Cached' = Cached /\ freed'[w] = freed[w] /\ freed[w] \in Nat
      BY <1>2, <3>1 DEF Owed, Clamped, Cached
    <3>3. SumOf(Pending', Workers) <= n /\ SumOf(Pending', Workers) \in Nat
      BY <1>1, CounterFactsNext DEF Facts, Pending
    <3>4. reinserted' + SumOf(Pending', Workers) <= MaxReinserted + n
      BY <1>2, <1>3, <3>1, <3>3
    <3>5. SumOf(SizeOf, Cached') = SumOf(SizeOf, Cached) + 0
      BY <1>4, <3>2
    <3>6. m * reinserted' = m * reinserted + 0
      BY <1>3, <3>1
    <3> HIDE DEF n, pending
    <3> QED BY <1>1, <1>3, <3>1, <3>2, <3>4, <3>5, <3>6, Balance DEF n
  <2> QED BY <2>1, <2>2
<1>6. ASSUME NEW w \in Workers, Recheck(w)
      PROVE  CounterInv(m)'
  <2>1. Others(w) /\ UNCHANGED <<counter, freed, current, reinserted>>
        /\ pc[w] = "recheck" /\ pc'[w] \in {"idle", "insert"}
    BY <1>2, <1>6 DEF Recheck
  <2>2. SumOf(SizeOf, Cached') = SumOf(SizeOf, Cached) + 0
    <3>1. object[w] \in Objects
      BY <1>2, <2>1
    <3>2. Cached' = Cached
      <4>1. CASE object[w] \in Cached /\ cache' = Promoted(object[w])
        BY <3>1, <4>1, PromotedBytes
      <4>2. CASE cache' = cache
        BY <4>2 DEF Cached
      <4> QED BY <1>6, <4>1, <4>2 DEF Recheck
    <3> QED BY <1>4, <3>2
  <2>3. /\ Owed[w] = 0 /\ Owed'[w] = 0 /\ Clamped[w] = 0 /\ Clamped'[w] = 0
        /\ Pending[w] = 1 /\ Pending'[w] \in {0, 1}
        /\ freed'[w] = freed[w] /\ freed[w] \in Nat
    BY <1>2, <2>1 DEF Owed, Clamped, Pending
  <2>4. SumOf(Pending', Workers) = pending - Pending[w] + Pending'[w]
    BY <1>1, <2>1, SumsChange
  <2>5. reinserted' + SumOf(Pending', Workers) <= MaxReinserted + n
    BY <1>2, <1>3, <2>1, <2>3, <2>4
  <2>6. m * reinserted' = m * reinserted + 0
    BY <1>3, <2>1
  <2> HIDE DEF n, pending
  <2> QED BY <1>1, <1>3, <2>1, <2>2, <2>3, <2>5, <2>6, Balance DEF n
<1>7. ASSUME NEW w \in Workers, Insert(w)
      PROVE  CounterInv(m)'
  <2> DEFINE s == SizeOf[object[w]]
  <2>1. /\ Others(w) /\ UNCHANGED <<counter, object, freed, current>>
        /\ pc[w] = "insert" /\ pc'[w] = "add" /\ cache' = Promoted(object[w])
        /\ reinserted' = IF object[w] \in Cached THEN reinserted + 1 ELSE reinserted
    BY <1>2, <1>7 DEF Insert
  <2>2. object[w] \in Objects /\ s \in Nat /\ s <= m
    <3>1. object[w] \in Objects /\ object[w] \in Readable
      BY <1>1, <1>2, <2>1 DEF FreedInv, Readable
    <3> QED BY <3>1, CacheAssumption DEF Room
  <2>3. SumOf(SizeOf, Cached')
          = SumOf(SizeOf, Cached) + (IF object[w] \in Cached THEN 0 ELSE s)
    BY <2>1, <2>2, PromotedBytes
  <2>4. /\ Owed[w] = 0 /\ Owed'[w] = s /\ Clamped[w] = 0 /\ Clamped'[w] = 0
        /\ Pending[w] = 1 /\ Pending'[w] = 0
        /\ freed'[w] = freed[w] /\ freed[w] \in Nat
    BY <1>2, <2>1 DEF Owed, Clamped, Pending
  <2>5. SumOf(Pending', Workers) = pending - Pending[w] + Pending'[w]
    BY <1>1, <2>1, SumsChange
  <2>6. reinserted' + SumOf(Pending', Workers) <= MaxReinserted + n
    BY <1>2, <1>3, <2>1, <2>4, <2>5
  <2> HIDE DEF n, pending, s
  <2>7. CASE object[w] \in Cached
    <3>1. m * reinserted' = m * reinserted + m
      BY <1>2, <1>3, <2>1, <2>7
    <3>2. SumOf(SizeOf, Cached') = SumOf(SizeOf, Cached) + 0
      BY <2>3, <2>7
    <3>3. /\ 0 >= 0 - freed[w] + freed'[w] + Owed[w] - Owed'[w]
          /\ 0 - Clamped[w] + Clamped'[w]
               <= 0 - freed[w] + freed'[w] + Owed[w] - Owed'[w] + m
      BY <1>3, <2>2, <2>4
    <3> QED BY <1>1, <1>3, <2>1, <2>6, <3>1, <3>2, <3>3, Balance DEF n
  <2>8. CASE object[w] \notin Cached
    <3>1. m * reinserted' = m * reinserted + 0
      BY <1>3, <2>1, <2>8
    <3>2. SumOf(SizeOf, Cached') = SumOf(SizeOf, Cached) + s
      BY <2>3, <2>8
    <3>3. /\ 0 >= s - freed[w] + freed'[w] + Owed[w] - Owed'[w]
          /\ 0 - Clamped[w] + Clamped'[w]
               <= s - freed[w] + freed'[w] + Owed[w] - Owed'[w] + 0
      BY <2>2, <2>4
    <3> QED BY <1>1, <1>3, <2>1, <2>2, <2>6, <3>1, <3>2, <3>3, Balance DEF n
  <2> QED BY <2>7, <2>8
<1>8. ASSUME NEW w \in Workers, Add(w)
      PROVE  CounterInv(m)'
  <2> DEFINE s == SizeOf[object[w]]
  <2>1. /\ Others(w) /\ UNCHANGED <<cache, freed, current, reinserted>>
        /\ pc[w] = "add" /\ pc'[w] = "trigger" /\ counter' = (counter + s) % Word
    BY <1>2, <1>8 DEF Add
  <2>2. s \in Nat
    BY <1>2, <2>1, CacheAssumption
  <2>3. /\ Owed[w] = s /\ Owed'[w] = 0 /\ Clamped[w] = 0 /\ Clamped'[w] = 0
        /\ Pending[w] = 0 /\ Pending'[w] = 0 /\ Cached' = Cached
        /\ freed'[w] = freed[w] /\ freed[w] \in Nat
    BY <1>2, <2>1 DEF Owed, Clamped, Pending, Cached
  <2>4. SumOf(Pending', Workers) = pending - Pending[w] + Pending'[w]
    BY <1>1, <2>1, SumsChange
  <2>5. reinserted' + SumOf(Pending', Workers) <= MaxReinserted + n
    BY <1>2, <1>3, <2>1, <2>3, <2>4
  <2>6. m * reinserted' = m * reinserted + 0
    BY <1>3, <2>1
  <2>7. SumOf(SizeOf, Cached') = SumOf(SizeOf, Cached) + 0
    BY <1>4, <2>3
  <2> HIDE DEF n, pending, s
  <2>8. /\ s >= 0 - freed[w] + freed'[w] + Owed[w] - Owed'[w]
        /\ s - Clamped[w] + Clamped'[w]
             <= 0 - freed[w] + freed'[w] + Owed[w] - Owed'[w] + 0
    BY <2>2, <2>3
  <2> QED BY <1>1, <1>3, <2>1, <2>2, <2>5, <2>6, <2>7, <2>8, Balance DEF n
<1>9. ASSUME NEW w \in Workers, CheckTrigger(w) \/ CheckTarget(w)
      PROVE  CounterInv(m)'
  <2>1. /\ Others(w) /\ UNCHANGED <<cache, counter, object, freed, current, reinserted>>
        /\ pc[w] \in {"trigger", "target"} /\ pc'[w] \in {"evict", "idle", "trigger"}
    BY <1>2, <1>9 DEF CheckTrigger, CheckTarget
  <2>2. /\ Owed[w] = 0 /\ Owed'[w] = 0 /\ Clamped[w] = 0 /\ Clamped'[w] = 0
        /\ Pending[w] = 0 /\ Pending'[w] = 0 /\ Cached' = Cached
        /\ freed'[w] = freed[w] /\ freed[w] \in Nat
    BY <1>2, <2>1 DEF Owed, Clamped, Pending, Cached
  <2>3. SumOf(Pending', Workers) = pending - Pending[w] + Pending'[w]
    BY <1>1, <2>1, SumsChange
  <2>4. reinserted' + SumOf(Pending', Workers) <= MaxReinserted + n
    BY <1>2, <1>3, <2>1, <2>2, <2>3
  <2>5. m * reinserted' = m * reinserted + 0
    BY <1>3, <2>1
  <2>6. SumOf(SizeOf, Cached') = SumOf(SizeOf, Cached) + 0
    BY <1>4, <2>2
  <2> HIDE DEF n, pending
  <2> QED BY <1>1, <1>3, <2>1, <2>2, <2>4, <2>5, <2>6, Balance DEF n
<1>10. ASSUME NEW w \in Workers, ReadCurrent(w)
      PROVE  CounterInv(m)'
  <2>1. /\ Others(w) /\ UNCHANGED <<cache, counter, object, freed, reinserted>>
        /\ pc[w] = "read" /\ pc'[w] = "subtract" /\ current'[w] = counter
    BY <1>2, <1>10 DEF ReadCurrent
  <2>2. /\ Owed[w] = 0 /\ Owed'[w] = 0 /\ Clamped[w] = 0
        /\ Clamped'[w] = (IF freed[w] > counter THEN freed[w] - counter ELSE 0)
        /\ Pending[w] = 0 /\ Pending'[w] = 0 /\ Cached' = Cached
        /\ freed'[w] = freed[w] /\ freed[w] \in Nat
    BY <1>2, <2>1 DEF Owed, Clamped, Pending, Cached
  <2>3. /\ SumOf(Pending', Workers) = pending - Pending[w] + Pending'[w]
        /\ SumOf(Clamped', Workers) = SumOf(Clamped, Workers) - Clamped[w] + Clamped'[w]
        /\ SumOf(freed', Workers) = SumOf(freed, Workers) - freed[w] + freed'[w]
    BY <1>1, <2>1, SumsChange
  <2>4. reinserted' + SumOf(Pending', Workers) <= MaxReinserted + n
    BY <1>2, <1>3, <2>1, <2>2, <2>3
  <2>5. m * reinserted' = m * reinserted + 0
    BY <1>3, <2>1
  <2>6. SumOf(SizeOf, Cached') = SumOf(SizeOf, Cached) + 0
    BY <1>4, <2>2
  \* What the others clamp is no more than what they have freed.
  <2>7. SumOf(Clamped, Workers) <= SumOf(freed, Workers) - freed[w]
    <3> DEFINE rest == [freed EXCEPT ![w] = 0]
    <3>1. IsFiniteSet(Workers) /\ \A v \in Workers : freed[v] \in Int /\ rest[v] \in Int
      BY <1>2 DEF Room
    <3>2. SumOf(rest, Workers) = SumOf(freed, Workers) - freed[w] + rest[w]
      <4>1. \A v \in Workers \ {w} : freed[v] = rest[v]
        BY <1>2
      <4> HIDE DEF rest
      <4> QED BY <3>1, <4>1, SumChange
    <3>3. \A v \in Workers : Clamped[v] \in Int /\ Clamped[v] <= rest[v]
      BY <1>2, <2>2, CacheAssumption DEF Clamped
    <3>4. SumOf(Clamped, Workers) <= SumOf(rest, Workers)
      BY <3>1, <3>3, SumMonotonic
    <3>5. rest[w] = 0
      BY <1>2
    <3>6. SumOf(freed, Workers) \in Nat
      BY <1>1, CounterFacts DEF Facts
    <3> HIDE DEF rest
    <3> QED BY <2>2, <3>2, <3>4, <3>5, <3>6
  <2> HIDE DEF n, pending
  <2>8. CASE freed[w] <= counter
    <3>1. Clamped'[w] = 0
      BY <1>2, <2>2, <2>8, CacheAssumption
    <3> QED BY <1>1, <1>3, <2>1, <2>2, <2>4, <2>5, <2>6, <3>1, Balance DEF n
  <2>9. CASE freed[w] > counter
    <3>1. Level = counter
      <4>1. freed[w] <= m
        BY <1>1 DEF FreedInv
      <4>2. m <= InFlight(m) /\ InFlight(m) \in Nat
        <5>1. n # 0
          BY FS_EmptySet DEF Room, n
        <5>2. PICK k \in Nat : n = k + 1
          <6>1. n - 1 \in Nat /\ n = (n - 1) + 1
            BY <1>3, <5>1
          <6> QED BY <6>1
        <5>3. m * (k + 1) = m * k + m /\ m * k \in Nat
          BY <1>3
        <5> QED BY <1>3, <5>2, <5>3 DEF InFlight, n
      <4>3. InFlight(m) < Half
        <5>1. /\ m * Cardinality(Readable) \in Nat /\ m * MaxReinserted \in Nat
              /\ Half \in Int /\ Base \in Nat
          BY <1>3, CacheAssumption, ReinsertedBytes DEF Half, n
        <5> QED BY <4>2, <5>1 DEF Room
      <4> QED BY <1>2, <1>3, <2>2, <2>9, <4>1, <4>2, <4>3, CacheAssumption DEF Level, Half
    <3>2. Clamped'[w] = freed[w] - counter
      BY <2>2, <2>9
    <3>3. Level + 0 + SumOf(Clamped', Workers) <= SumOf(freed', Workers)
      <4>1. SumOf(Clamped, Workers) \in Nat /\ SumOf(freed, Workers) \in Nat /\ counter \in Int
        BY <1>1, <1>2, CounterFacts, CacheAssumption DEF Facts
      <4> QED BY <2>2, <2>3, <2>7, <3>1, <3>2, <4>1
    <3> QED BY <1>1, <1>3, <2>1, <2>2, <2>4, <2>5, <2>6, <3>3, Balance DEF n
  <2> QED BY <1>2, <2>2, <2>8, <2>9, CacheAssumption
<1>11. ASSUME NEW w \in Workers, Evict(w)
      PROVE  CounterInv(m)'
  <2>1. /\ Others(w) /\ UNCHANGED <<counter, object, current, reinserted>>
        /\ pc[w] = "evict" /\ pc'[w] \in {"idle", "read"}
    BY <1>2, <1>11 DEF Evict
  <2>2. freed[w] = 0
    BY <1>2, <2>1
  <2>3. freed'[w] \in Nat /\ SumOf(SizeOf, Cached') = SumOf(SizeOf, Cached) + (-freed'[w])
    <3>1. CASE cache = << >>
      <4>1. freed'[w] = 0 /\ Cached' = Cached
        BY <1>11, <2>2, <3>1 DEF Evict, Cached
      <4> QED BY <1>4, <4>1
    <3>2. CASE cache # << >>
      <4>1. cache' = Tail(cache) /\ freed'[w] = SizeOf[Head(cache)]
        BY <1>2, <1>11, <3>2 DEF Evict
      <4>2. /\ Head(cache) \in Cached
            /\ SumOf(SizeOf, Cached) = SumOf(SizeOf, Cached') + SizeOf[Head(cache)]
        BY <3>2, <4>1, EvictedBytes
      <4>3. SizeOf[Head(cache)] \in Nat
        BY <1>1, <4>2, CacheAssumption DEF FreedInv, Readable
      <4>4. SumOf(SizeOf, Cached') \in Nat
        BY <1>1, CounterFactsNext DEF Facts
      <4> QED BY <1>4, <4>1, <4>2, <4>3, <4>4
    <3> QED BY <3>1, <3>2
  <2>4. /\ Owed[w] = 0 /\ Owed'[w] = 0 /\ Clamped[w] = 0 /\ Clamped'[w] = 0
        /\ Pending[w] = 0 /\ Pending'[w] = 0
    BY <1>2, <2>1 DEF Owed, Clamped, Pending
  <2>5. SumOf(Pending', Workers) = pending - Pending[w] + Pending'[w]
    BY <1>1, <2>1, SumsChange
  <2>6. reinserted' + SumOf(Pending', Workers) <= MaxReinserted + n
    BY <1>2, <1>3, <2>1, <2>4, <2>5
  <2>7. m * reinserted' = m * reinserted + 0
    BY <1>3, <2>1
  <2> HIDE DEF n, pending
  <2>8. /\ -freed'[w] \in Int
        /\ 0 >= -freed'[w] - freed[w] + freed'[w] + Owed[w] - Owed'[w]
        /\ 0 - Clamped[w] + Clamped'[w]
             <= -freed'[w] - freed[w] + freed'[w] + Owed[w] - Owed'[w] + 0
    BY <2>2, <2>3, <2>4
  <2> QED BY <1>1, <1>3, <2>1, <2>3, <2>6, <2>7, <2>8, Balance DEF n
<1>12. ASSUME NEW w \in Workers, Subtract(w)
      PROVE  CounterInv(m)'
  <2> DEFINE bytes == IF freed[w] <= current[w] THEN freed[w] ELSE current[w]
  <2>1. /\ Others(w) /\ UNCHANGED <<cache, object, reinserted>>
        /\ pc[w] = "subtract" /\ pc'[w] = "target" /\ freed'[w] = 0
        /\ counter' = (counter - bytes) % Word
    BY <1>2, <1>12 DEF Subtract
  <2>2. /\ freed[w] \in Nat /\ bytes \in Nat /\ bytes <= freed[w]
        /\ Clamped[w] = freed[w] - bytes
    BY <1>2, <2>1, CacheAssumption DEF Clamped
  <2>3. /\ Owed[w] = 0 /\ Owed'[w] = 0 /\ Clamped'[w] = 0
        /\ Pending[w] = 0 /\ Pending'[w] = 0 /\ Cached' = Cached
    BY <1>2, <2>1 DEF Owed, Clamped, Pending, Cached
  <2>4. SumOf(Pending', Workers) = pending - Pending[w] + Pending'[w]
    BY <1>1, <2>1, SumsChange
  <2>5. reinserted' + SumOf(Pending', Workers) <= MaxReinserted + n
    BY <1>2, <1>3, <2>1, <2>3, <2>4
  <2>6. m * reinserted' = m * reinserted + 0
    BY <1>3, <2>1
  <2>7. SumOf(SizeOf, Cached') = SumOf(SizeOf, Cached) + 0
    BY <1>4, <2>3
  <2> HIDE DEF n, pending, bytes
  <2>8. /\ -bytes \in Int /\ counter' = (counter + (-bytes)) % Word
        /\ -bytes >= 0 - freed[w] + freed'[w] + Owed[w] - Owed'[w]
        /\ -bytes - Clamped[w] + Clamped'[w]
             <= 0 - freed[w] + freed'[w] + Owed[w] - Owed'[w] + 0
    <3>1. counter - bytes = counter + (-bytes)
      BY <1>2, <2>2, CacheAssumption
    <3> QED BY <2>1, <2>2, <2>3, <3>1
  <2> QED BY <1>1, <1>3, <2>1, <2>5, <2>6, <2>7, <2>8, Balance DEF n
<1>13. CASE UNCHANGED vars
  <2>1. UNCHANGED <<cache, counter, pc, object, freed, current, reinserted>>
    BY <1>13 DEF vars
  <2>2. Cached' = Cached
    BY <2>1 DEF Cached
  <2> QED BY <1>1, <2>1, <2>2
        DEF CounterInv, Settled, Level, Owed, Clamped, Pending, InFlight
<1> QED BY <1>5, <1>6, <1>7, <1>8, <1>9, <1>10, <1>11, <1>12, <1>13 DEF Next, Expanding

\* At rest nothing is owed, so that the counter covers the cache; and where the
\* static index outweighs what is owed the level is never negative.
LEMMA CounterEnough ==
    ASSUME NEW m, Room(m), TypeOK, CounterInv(m)
    PROVE  CounterCoversCache
<1> DEFINE T == SumOf(SizeOf, Cached)
           G == SumOf(freed, Workers)
           O == SumOf(Owed, Workers)
           C == SumOf(Clamped, Workers)
<1>1. FreedInv(m) /\ reinserted \in Nat
  BY DEF CounterInv, TypeOK
<1>2. /\ IsFiniteSet(Workers) /\ Cardinality(Workers) \in Nat
      /\ T \in Nat /\ T <= m * Cardinality(Readable) /\ G \in Nat /\ G <= InFlight(m)
      /\ O \in Nat /\ C \in Nat /\ SumOf(Pending, Workers) \in Nat
      /\ \A w \in Workers : Owed[w] \in Nat
  BY <1>1, CounterFacts, FS_CardinalityType DEF Facts, Room
<1>3. /\ InFlight(m) \in Nat /\ m * Cardinality(Readable) \in Nat
      /\ m * MaxReinserted \in Nat /\ m * reinserted \in Nat
      /\ m * reinserted <= m * MaxReinserted + InFlight(m)
  <2>1. reinserted <= MaxReinserted + Cardinality(Workers)
    BY <1>1, <1>2, CacheAssumption DEF CounterInv
  <2> QED BY <1>1, <2>1, ReinsertedBytes
<1>4. /\ counter \in 0..(Word - 1) /\ Word \in Nat /\ Half \in Int /\ Base \in Nat
      /\ 2 * Half <= Word
  BY CacheAssumption DEF TypeOK, Half
<1>5. /\ Level >= Base + T + G - O
      /\ Level + C <= Base + T + G - O + InFlight(m) + m * reinserted
      /\ Base + m * Cardinality(Readable) + m * MaxReinserted + 4 * InFlight(m) < Half
  BY DEF CounterInv, Settled, Room
<1> HIDE DEF T, G, O, C
<1>6. Level \in Int
  BY <1>4 DEF Level
<1>7. Level < Half
  BY <1>2, <1>3, <1>4, <1>5, <1>6
<1>8. Level >= 0 => counter = Level
  BY <1>4 DEF Level
<1>9. ASSUME AtRest
      PROVE  counter >= Base + TotalBytes
  <2>1. \A w \in Workers : Owed[w] \in Nat /\ Owed[w] <= 0
    BY <1>9 DEF AtRest, Owed
  <2>2. O <= 0 * Cardinality(Workers)
    BY <1>2, <2>1, SumBound DEF O
  <2>3. O = 0
    BY <1>2, <2>2
  <2>4. TotalBytes = T
    BY DEF TotalBytes, SumOf, T
  <2> QED BY <1>2, <1>4, <1>5, <1>6, <1>8, <2>3, <2>4
<1>10. ASSUME Outweighed
       PROVE  counter < Half
  <2>1. PICK k \in 0..Base : /\ \A o \in Objects \ Unreadable : SizeOf[o] <= k
                             /\ k * Cardinality(Workers) <= Base
    BY <1>10 DEF Outweighed
  <2>2. \A w \in Workers : Owed[w] <= k
    BY <1>1, <2>1 DEF Owed, FreedInv, TypeOK
  <2>3. O <= k * Cardinality(Workers)
    BY <1>2, <1>4, <2>1, <2>2, SumBound DEF O
  <2>4. k * Cardinality(Workers) \in Nat
    BY <1>2, <1>4, <2>1
  <2>5. O <= Base
    BY <1>2, <1>4, <2>1, <2>3, <2>4
  <2> QED BY <1>2, <1>4, <1>5, <1>6, <1>7, <1>8, <2>5
<1> QED BY <1>9, <1>10 DEF CounterCoversCache, Half

\* For every number of threads, every size of the objects and of the static index
\* and every race of re-insertions and clamped subtractions: at rest the counter
\* counts no less than the cache holds, however often it has underflowed before;
\* and it never underflows where the static index outweighs the objects in flight.
\* All that is asked is a counter whose range has room for what is counted.
THEOREM CounterCorrect ==
    ASSUME NEW m, Room(m)
    PROVE  Spec => []CounterCoversCache
<1>1. Init => CounterInv(m)
  BY CounterInit
<1>2. TypeOK /\ TypeOK' /\ CounterInv(m) /\ [Next]_vars => CounterInv(m)'
  BY CounterStep
<1>3. TypeOK /\ CounterInv(m) => CounterCoversCache
  BY CounterEnough
<1> QED BY <1>1, <1>2, <1>3, TypeCorrect, PTL DEF Spec
=============================================================================
