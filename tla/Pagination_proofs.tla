------------------------- MODULE Pagination_proofs -------------------------
(***************************************************************************)
(* Proofs about the pages of a collection and its skip-index.              *)
(***************************************************************************)
EXTENDS Pagination, Induction, SequenceTheorems

-----------------------------------------------------------------------------
(* Recursions                                                              *)

LEMMA UnboundedIs == Unbounded \in Nat
BY HeapAssumption, FS_CardinalityType DEF Unbounded

\* A walk comes to rest where its steps lead, and stays in every set that they
\* do not leave.
LEMMA MapWalkIs ==
    ASSUME NEW table, Len(table) \in Nat, NEW target, NEW V, NEW w \in V,
           \A v \in V : MapStep(table, v, target) \in V
    PROVE  \E walk \in [0..(Len(table) + Unbounded) -> V] :
              /\ walk[0] = w
              /\ \A n \in 1..(Len(table) + Unbounded) :
                    walk[n] = MapStep(table, walk[n - 1], target)
              /\ MapWalk(table, w, target) = walk[Len(table) + Unbounded]
<1> DEFINE N == Len(table) + Unbounded
           step == [n \in 1..N |-> [v \in V |-> MapStep(table, v, target)]]
           Is(g) == g = [n \in 0..N |-> IF n = 0 THEN w ELSE MapStep(table, g[n - 1], target)]
           f == CHOOSE g : Is(g)
<1>0. N \in Nat
  BY UnboundedIs
<1>1. PICK g \in [0..N -> V] : Follows(g, N, w, step)
  <2>1. step \in [1..N -> [V -> V]]
    OBVIOUS
  <2> HIDE DEF step, N
  <2> QED BY <1>0, <2>1, StepsExist
<1>2. Is(g)
  <2>1. ASSUME NEW n \in 1..N
        PROVE  g[n] = MapStep(table, g[n - 1], target)
    <3>1. n - 1 \in 0..N /\ g[n - 1] \in V
      BY <1>0, <1>1
    <3>2. g[n] = step[n][g[n - 1]]
      BY <1>1 DEF Follows
    <3> QED BY <3>1, <3>2
  <2>2. g[0] = w
    BY <1>1 DEF Follows
  <2> QED BY <1>0, <2>1, <2>2
<1>3. Is(f)
  <2> HIDE DEF Is
  <2> QED BY <1>2
<1>4. f[0] = w /\ \A n \in 1..N : f[n] = MapStep(table, f[n - 1], target)
  <2> HIDE DEF f
  <2> QED BY <1>0, <1>3
<1>5. 0..N \subseteq {n \in 0..N : f[n] \in V}
  <2> HIDE DEF f
  <2>1. 0 \in {n \in 0..N : f[n] \in V}
    BY <1>0, <1>4
  <2>2. \A n \in 0..(N - 1) : n \in {m \in 0..N : f[m] \in V}
                                 => n + 1 \in {m \in 0..N : f[m] \in V}
    BY <1>0, <1>4
  <2> HIDE DEF N
  <2> QED BY <1>0, <2>1, <2>2, StepInduction
<1>6. f \in [0..N -> V]
  <2> HIDE DEF f
  <2> QED BY <1>3, <1>5
<1>7. MapWalk(table, w, target) = f[N]
  BY DEF MapWalk
<1> QED BY <1>4, <1>6, <1>7

\* The steps of a walk of a list, and of one to a checkpoint.
ListWalkBy(walk, target, w, V) ==
    /\ walk \in [0..Unbounded -> V] /\ walk[0] = w
    /\ \A n \in 1..Unbounded : walk[n] = ListStep(walk[n - 1], target)
    /\ ListWalk(w, target) = walk[Unbounded]
ResumeBy(walk, w, node) ==
    /\ walk[0] = w
    /\ \A n \in 1..(Unbounded + 1) : walk[n] = ResumeStep(walk[n - 1], node)
    /\ Resume(w, node) = walk[Unbounded + 1]

\* The steps of a list's walk, of which a step's closure V holds all.
LEMMA ListWalkIs ==
    ASSUME NEW target, NEW V, NEW w \in V, \A v \in V : ListStep(v, target) \in V
    PROVE  \E walk : ListWalkBy(walk, target, w, V)
<1> DEFINE N == Unbounded
           step == [n \in 1..N |-> [v \in V |-> ListStep(v, target)]]
           Is(g) == g = [n \in 0..N |-> IF n = 0 THEN w ELSE ListStep(g[n - 1], target)]
           f == CHOOSE g : Is(g)
<1>0. N \in Nat
  BY UnboundedIs
<1>1. PICK g \in [0..N -> V] : Follows(g, N, w, step)
  <2>1. step \in [1..N -> [V -> V]]
    OBVIOUS
  <2> HIDE DEF step, N
  <2> QED BY <1>0, <2>1, StepsExist
<1>2. Is(g)
  <2>1. ASSUME NEW n \in 1..N
        PROVE  g[n] = ListStep(g[n - 1], target)
    <3>1. n - 1 \in 0..N /\ g[n - 1] \in V
      BY <1>0, <1>1
    <3>2. g[n] = step[n][g[n - 1]]
      BY <1>1 DEF Follows
    <3> QED BY <3>1, <3>2
  <2>2. g[0] = w
    BY <1>1 DEF Follows
  <2> QED BY <1>0, <2>1, <2>2
<1>3. Is(f)
  <2> HIDE DEF Is
  <2> QED BY <1>2
<1>4. f[0] = w /\ \A n \in 1..N : f[n] = ListStep(f[n - 1], target)
  <2> HIDE DEF f
  <2> QED BY <1>0, <1>3
<1>5. 0..N \subseteq {n \in 0..N : f[n] \in V}
  <2> HIDE DEF f
  <2>1. 0 \in {n \in 0..N : f[n] \in V}
    BY <1>0, <1>4
  <2>2. \A n \in 0..(N - 1) : n \in {m \in 0..N : f[m] \in V}
                                 => n + 1 \in {m \in 0..N : f[m] \in V}
    BY <1>0, <1>4
  <2> HIDE DEF N
  <2> QED BY <1>0, <2>1, <2>2, StepInduction
<1>6. f \in [0..N -> V]
  <2> HIDE DEF f
  <2> QED BY <1>3, <1>5
<1>7. ListWalk(w, target) = f[N]
  BY DEF ListWalk
<1> HIDE DEF f
<1> QED BY <1>4, <1>6, <1>7 DEF ListWalkBy

\* A walk that has come to rest stays.
LEMMA ListWalkStays ==
    ASSUME NEW target, NEW V, NEW w \in V, \A v \in V : ListStep(v, target) \in V
    PROVE  ListWalk(w, target) \in V
<1>1. PICK walk : ListWalkBy(walk, target, w, V)
  BY ListWalkIs
<1>2. Unbounded \in 0..Unbounded
  BY UnboundedIs
<1> QED BY <1>1, <1>2 DEF ListWalkBy

\* The steps of a search for a checkpoint's node.
LEMMA ResumeIs ==
    ASSUME NEW node, NEW V, NEW w \in V, \A v \in V : ResumeStep(v, node) \in V
    PROVE  \E walk : ResumeBy(walk, w, node)
<1> DEFINE N == Unbounded + 1
           step == [n \in 1..N |-> [v \in V |-> ResumeStep(v, node)]]
           Is(g) == g = [n \in 0..N |-> IF n = 0 THEN w ELSE ResumeStep(g[n - 1], node)]
           f == CHOOSE g : Is(g)
<1>0. N \in Nat
  BY UnboundedIs
<1>1. PICK g \in [0..N -> V] : Follows(g, N, w, step)
  <2>1. step \in [1..N -> [V -> V]]
    OBVIOUS
  <2> HIDE DEF step, N
  <2> QED BY <1>0, <2>1, StepsExist
<1>2. Is(g)
  <2>1. ASSUME NEW n \in 1..N
        PROVE  g[n] = ResumeStep(g[n - 1], node)
    <3>1. n - 1 \in 0..N /\ g[n - 1] \in V
      BY <1>0, <1>1
    <3>2. g[n] = step[n][g[n - 1]]
      BY <1>1 DEF Follows
    <3> QED BY <3>1, <3>2
  <2>2. g[0] = w
    BY <1>1 DEF Follows
  <2> QED BY <1>0, <2>1, <2>2
<1>3. Is(f)
  <2> HIDE DEF Is
  <2> QED BY <1>2
<1>4. f[0] = w /\ \A n \in 1..N : f[n] = ResumeStep(f[n - 1], node)
  <2> HIDE DEF f
  <2> QED BY <1>0, <1>3
<1>5. Resume(w, node) = f[N]
  BY DEF Resume
<1> HIDE DEF f
<1> QED BY <1>4, <1>5 DEF ResumeBy

\* The steps of recording the marks of a walk.
RecordAllBy(after, si, base, marks) ==
    /\ after[0] = si
    /\ \A n \in 1..Len(marks) : after[n] = SI!Record(after[n - 1], base + n - 1, marks[n])
    /\ RecordAll(si, base, marks) = after[Len(marks)]

\* The skip-index after each mark, up to the last.
LEMMA RecordAllIs ==
    ASSUME NEW si, NEW base, NEW marks, Len(marks) \in Nat, NEW V, si \in V,
           \A v \in V : \A m \in 1..Len(marks) : SI!Record(v, base + m - 1, marks[m]) \in V
    PROVE  \E after : RecordAllBy(after, si, base, marks)
<1> DEFINE N == Len(marks)
           step == [n \in 1..N |-> [v \in V |-> SI!Record(v, base + n - 1, marks[n])]]
           Is(g) == g = [n \in 0..N |-> IF n = 0 THEN si
                                        ELSE SI!Record(g[n - 1], base + n - 1, marks[n])]
           f == CHOOSE g : Is(g)
<1>0. N \in Nat
  OBVIOUS
<1>1. PICK g \in [0..N -> V] : Follows(g, N, si, step)
  <2>1. step \in [1..N -> [V -> V]]
    OBVIOUS
  <2> HIDE DEF step, N
  <2> QED BY <1>0, <2>1, StepsExist
<1>2. Is(g)
  <2>1. ASSUME NEW n \in 1..N
        PROVE  g[n] = SI!Record(g[n - 1], base + n - 1, marks[n])
    <3>1. n - 1 \in 0..N /\ g[n - 1] \in V
      <4> HIDE DEF step, N
      <4> QED BY <1>0, <1>1
    <3>2. g[n] = step[n][g[n - 1]]
      BY <1>1 DEF Follows
    <3> QED BY <3>1, <3>2
  <2>2. g[0] = si
    BY <1>1 DEF Follows
  <2> QED BY <2>1, <2>2
<1>3. Is(f)
  <2> HIDE DEF Is
  <2> QED BY <1>2
<1>4. f[0] = si /\ \A n \in 1..N : f[n] = SI!Record(f[n - 1], base + n - 1, marks[n])
  <2> HIDE DEF f
  <2> QED BY <1>3
<1>5. RecordAll(si, base, marks) = f[N]
  BY DEF RecordAll
<1> HIDE DEF f
<1> QED BY <1>4, <1>5 DEF RecordAllBy

-----------------------------------------------------------------------------
(* Fields                                                                  *)

Field == [name : STRING, type : STRING, value : Int]

LEMMA FieldsAre ==
    ASSUME NEW id \in Objects
    PROVE  /\ Len(Heap[id].fields) \in Nat
           /\ DOMAIN Heap[id].fields = 1..Len(Heap[id].fields)
           /\ \A i \in 1..Len(Heap[id].fields) : Heap[id].fields[i] \in Field
<1>1. Heap[id].fields \in Seq(Field)
  BY HeapAssumption DEF Field
<1> QED BY <1>1

\* A field read is a value, a missing one too.
LEMMA FieldCalledIs ==
    ASSUME NEW id \in Objects, NEW name
    PROVE  FieldCalled(id, name).value \in Int
<1> DEFINE I == {i \in 1..Len(Heap[id].fields) : Heap[id].fields[i].name = name}
           at == IF I = {} THEN 0 ELSE Min(I)
<1>1. I # {} => at \in I
  <2>1. I \subseteq Nat
    OBVIOUS
  <2> HIDE DEF I
  <2>2. ASSUME I # {} PROVE Min(I) \in I
    BY <2>1, <2>2, NatMinimum DEF Min
  <2> QED BY <2>2
<1>2. FieldCalled(id, name) = IF at = 0 THEN Null
          ELSE [type |-> Heap[id].fields[at].type, value |-> Heap[id].fields[at].value]
  BY DEF FieldCalled, SelectInSeq
<1>3. at # 0 => Heap[id].fields[at] \in Field
  BY <1>1, FieldsAre
<1>4. CASE at = 0
  BY <1>2, <1>4 DEF Null
<1>5. CASE at # 0
  <2> DEFINE g == Heap[id].fields[at]
  <2>1. g.value \in Int
    BY <1>3, <1>5 DEF Field
  <2> HIDE DEF at
  <2> QED BY <1>2, <1>5, <2>1
<1> QED BY <1>4, <1>5

\* The successor of a node is an id.
LEMMA NextOfIs ==
    ASSUME NEW id \in Objects
    PROVE  NextOf(id) \in Int
BY FieldCalledIs DEF NextOf, IdOf

-----------------------------------------------------------------------------
(* Where a walk stands                                                     *)

Place == Nat \X Objects

\* hop leads from h in k steps along `next` to x, over k different nodes of S.
Leads(h, k, hop, x, S) ==
    /\ hop \in [0..k -> Int] /\ hop[0] = h /\ hop[k] = x
    /\ \A j \in 0..(k - 1) : hop[j] \in S /\ hop[j + 1] = NextOf(hop[j])
    /\ \A i, j \in 0..(k - 1) : i # j => hop[i] # hop[j]

\* K, of at most n nodes, holds what a walk has before it comes to x in a slot:
\* the successors of its nodes and the heads of the slots before.
Covers(table, K, n, slot, x) ==
    /\ K \in SUBSET Objects /\ Cardinality(K) <= n
    /\ \A y \in K : NextOf(y) \in K \cup {x} \/ NextOf(y) \notin Objects
    /\ \A t \in 1..(slot - 1) : table[t] \in K \cup {x} \/ table[t] \notin Objects

\* A place that the chain of its slot leads to, with at most n nodes before it.
Reached(table, n, p) ==
    /\ p \in Place /\ p[1] \in 1..Len(table)
    /\ \E K : /\ Covers(table, K, n, p[1], p[2])
              /\ \E k \in Nat : \E hop : /\ Leads(table[p[1]], k, hop, p[2], K)
                                         /\ \A j \in 0..(k - 1) : hop[j] # p[2]

Walks(table) == [from : Int, slot : 1..(Len(table) + 1), node : Int,
                 marks : Seq(Place), seen : SUBSET Objects]

\* A walk that went on from entry b, before which the nodes of K lie.
Stands(table, b, K, w) ==
    /\ w \in Walks(table)
    /\ Covers(table, K \cup w.seen, b + Len(w.marks), w.slot, w.node)
    /\ w.slot <= Len(table) =>
          \E k \in Nat : \E hop : Leads(table[w.slot], k, hop, w.node, w.seen)
    /\ w.slot > Len(table) => w.node = 0
    /\ \A m \in 1..Len(w.marks) : Reached(table, b + m - 1, w.marks[m])

LEMMA ObjectsFinite ==
    /\ IsFiniteSet(Objects) /\ Cardinality(Objects) \in Nat
    /\ Cardinality(Objects) <= Unbounded
    /\ 0 \notin Objects
    /\ \A K \in SUBSET Objects : /\ IsFiniteSet(K) /\ Cardinality(K) \in Nat
                                 /\ Cardinality(K) <= Unbounded
<1>1. IsFiniteSet(DOMAIN Heap) /\ Objects \subseteq DOMAIN Heap /\ 0 \notin Objects
  BY HeapAssumption DEF Objects
<1>2. \A K \in SUBSET Objects : /\ IsFiniteSet(K) /\ Cardinality(K) \in Nat
                                /\ Cardinality(K) <= Unbounded
  BY <1>1, FS_Subset, FS_CardinalityType DEF Unbounded
<1> QED BY <1>1, <1>2

\* Each further object makes one more.
LEMMA OneMore ==
    ASSUME NEW K \in SUBSET Objects, NEW x \in Objects
    PROVE  /\ K \cup {x} \in SUBSET Objects
           /\ Cardinality(K \cup {x}) <= Cardinality(K) + 1
           /\ x \notin K => Cardinality(K \cup {x}) = Cardinality(K) + 1
<1>1. IsFiniteSet(K) /\ Cardinality(K) \in Nat
  BY ObjectsFinite
<1>2. Cardinality(K \cup {x}) = IF x \in K THEN Cardinality(K) ELSE Cardinality(K) + 1
  BY <1>1, FS_AddElement
<1> QED BY <1>1, <1>2

\* One step further along a chain.
LEMMA LeadsOn ==
    ASSUME NEW h, NEW k \in Nat, NEW hop, NEW x \in Objects, NEW S,
           Leads(h, k, hop, x, S), \A j \in 0..(k - 1) : hop[j] # x
    PROVE  \E on : Leads(h, k + 1, on, NextOf(x), S \cup {x})
<1> DEFINE on == [j \in 0..(k + 1) |-> IF j <= k THEN hop[j] ELSE NextOf(x)]
<1>1. /\ hop \in [0..k -> Int] /\ hop[0] = h /\ hop[k] = x
      /\ \A j \in 0..(k - 1) : hop[j] \in S /\ hop[j + 1] = NextOf(hop[j])
      /\ \A i, j \in 0..(k - 1) : i # j => hop[i] # hop[j]
  BY DEF Leads
<1>2. NextOf(x) \in Int
  BY NextOfIs
<1>3. on \in [0..(k + 1) -> Int] /\ on[k + 1] = NextOf(x) /\ \A j \in 0..k : on[j] = hop[j]
  BY <1>1, <1>2
<1> HIDE DEF on
<1>4. on[0] = h
  BY <1>1, <1>3
<1>5. ASSUME NEW j \in 0..k
      PROVE  on[j] \in S \cup {x} /\ on[j + 1] = NextOf(on[j])
  <2>1. CASE j = k
    BY <1>1, <1>3, <2>1
  <2>2. CASE j # k
    <3>1. j \in 0..(k - 1) /\ j + 1 \in 0..k
      BY <2>2
    <3> QED BY <1>1, <1>3, <3>1
  <2> QED BY <2>1, <2>2
<1>6. ASSUME NEW i \in 0..k, NEW j \in 0..k, i # j
      PROVE  on[i] # on[j]
  <2>1. on[i] = hop[i] /\ on[j] = hop[j]
    BY <1>3
  <2>2. CASE i = k
    <3>1. j \in 0..(k - 1)
      BY <1>6, <2>2
    <3> QED BY <1>1, <2>1, <2>2, <3>1
  <2>3. CASE j = k
    <3>1. i \in 0..(k - 1)
      BY <1>6, <2>3
    <3> QED BY <1>1, <2>1, <2>3, <3>1
  <2>4. CASE i # k /\ j # k
    <3>1. i \in 0..(k - 1) /\ j \in 0..(k - 1)
      BY <2>4
    <3> QED BY <1>1, <1>6, <2>1, <3>1
  <2> QED BY <2>2, <2>3, <2>4
<1>7. (k + 1) - 1 = k
  OBVIOUS
<1>8. Leads(h, k + 1, on, NextOf(x), S \cup {x})
  BY <1>3, <1>4, <1>5, <1>6, <1>7 DEF Leads
<1> QED BY <1>8

LEMMA LeadsIn ==
    ASSUME NEW h, NEW k \in Nat, NEW hop, NEW x, NEW S, NEW T, S \subseteq T,
           Leads(h, k, hop, x, S)
    PROVE  Leads(h, k, hop, x, T)
BY DEF Leads

\* A walk that takes an entry still stands.
LEMMA TakeStands ==
    ASSUME NEW table, Len(table) \in Nat, NEW b \in Nat, NEW K, NEW w,
           Stands(table, b, K, w), w.slot <= Len(table), ~Ends(w)
    PROVE  /\ Stands(table, b, K, Take(w))
           /\ Cardinality(Take(w).seen) = Cardinality(w.seen) + 1
           /\ Take(w).slot = w.slot
<1> DEFINE x == w.node
           L == K \cup w.seen
           n == b + Len(w.marks)
           v == Take(w)
<1>1. /\ x \in Objects /\ x \notin w.seen /\ w.slot \in 1..Len(table)
      /\ w.seen \in SUBSET Objects /\ w.marks \in Seq(Place)
      /\ Len(w.marks) \in Nat /\ NextOf(x) \in Int
  BY NextOfIs DEF Stands, Walks, Ends
<1>2. Covers(table, L, n, w.slot, x)
  BY DEF Stands
<1>3. PICK k \in Nat : \E hop : Leads(table[w.slot], k, hop, x, w.seen)
  BY <1>1 DEF Stands
<1>4. PICK hop : Leads(table[w.slot], k, hop, x, w.seen)
  BY <1>3
<1>5. \A j \in 0..(k - 1) : hop[j] # x
  BY <1>1, <1>4 DEF Leads
<1>6. /\ v.marks = Append(w.marks, <<w.slot, x>>) /\ v.seen = w.seen \cup {x}
      /\ v.node = NextOf(x) /\ v.slot = w.slot
  <2>1. w = [from |-> w.from, slot |-> w.slot, node |-> w.node, marks |-> w.marks,
             seen |-> w.seen]
    BY DEF Stands, Walks
  <2>2. v.marks = Append(w.marks, <<w.slot, x>>)
    BY <2>1 DEF Take, Mark
  <2>3. v.seen = w.seen \cup {x}
    BY <2>1 DEF Take, Mark
  <2>4. v.node = NextOf(x) /\ v.slot = w.slot
    BY <2>1 DEF Take, Mark
  <2> QED BY <2>2, <2>3, <2>4
<1> HIDE DEF v
<1>7. <<w.slot, x>> \in Place
  BY <1>1 DEF Place
<1>8. Len(v.marks) = Len(w.marks) + 1 /\ v.marks \in Seq(Place)
      /\ v.marks[Len(w.marks) + 1] = <<w.slot, x>>
      /\ \A m \in 1..Len(w.marks) : v.marks[m] = w.marks[m]
  BY <1>1, <1>6, <1>7
<1>9. v \in Walks(table)
  <2> DEFINE ms == Append(w.marks, Mark(w))
             sn == w.seen \cup {x}
             nx == NextOf(x)
  <2>1. ms \in Seq(Place) /\ sn \in SUBSET Objects /\ nx \in Int
    BY <1>1, <1>7 DEF Mark
  <2>2. v = [w EXCEPT !.marks = ms, !.seen = sn, !.node = nx]
    BY DEF v, Take
  <2> HIDE DEF ms, sn, nx
  <2> QED BY <2>1, <2>2 DEF Stands, Walks
<1>10. Reached(table, n, <<w.slot, x>>)
  <2>1. Leads(table[w.slot], k, hop, x, L)
    BY <1>4, LeadsIn
  <2> DEFINE p == <<w.slot, x>>
  <2>2. p[1] = w.slot /\ p[2] = x
    OBVIOUS
  <2> HIDE DEF x, L, n, p
  <2>3. \E i \in Nat : \E on : Leads(table[p[1]], i, on, p[2], L) /\ \A j \in 0..(i - 1) : on[j] # p[2]
    BY <1>5, <2>1, <2>2
  <2>4. Covers(table, L, n, p[1], p[2])
    BY <1>2, <2>2
  <2>5. p \in Place
    BY <1>7 DEF p
  <2>6. Reached(table, n, p)
    BY <1>1, <2>2, <2>3, <2>4, <2>5 DEF Reached
  <2> QED BY <2>6 DEF p
<1>11. Covers(table, K \cup v.seen, b + Len(v.marks), v.slot, v.node)
  <2>1. L \in SUBSET Objects /\ Cardinality(L) <= n /\ n \in Nat
    BY <1>1, <1>2 DEF Covers
  <2>2. K \cup v.seen = L \cup {x}
    BY <1>6
  <2>3. L \cup {x} \in SUBSET Objects /\ Cardinality(L \cup {x}) <= n + 1
    <3> HIDE DEF L, n, x
    <3>1. Cardinality(L) \in Nat /\ Cardinality(L \cup {x}) \in Nat
      BY <1>1, <2>1, OneMore, ObjectsFinite
    <3> QED BY <1>1, <2>1, <3>1, OneMore
  <2>4. b + Len(v.marks) = n + 1
    BY <1>1, <1>8
  <2>5. ASSUME NEW y \in L \cup {x}
        PROVE  NextOf(y) \in (L \cup {x}) \cup {NextOf(x)} \/ NextOf(y) \notin Objects
    BY <1>2 DEF Covers
  <2>6. \A t \in 1..(w.slot - 1) : table[t] \in (L \cup {x}) \/ table[t] \notin Objects
    BY <1>2 DEF Covers
  <2> HIDE DEF L, n, x
  <2> QED BY <1>6, <2>2, <2>3, <2>4, <2>5, <2>6 DEF Covers
<1>12. \E i \in Nat : \E on : Leads(table[v.slot], i, on, v.node, v.seen)
  <2> DEFINE h == table[w.slot]
             S == w.seen
  <2>1. \E on : Leads(h, k + 1, on, NextOf(x), S \cup {x})
    <3> HIDE DEF h, S, x
    <3>1. x \in Objects /\ Leads(h, k, hop, x, S) /\ \A j \in 0..(k - 1) : hop[j] # x
      BY <1>1, <1>4, <1>5 DEF h, S
    <3> QED BY <3>1, LeadsOn
  <2>2. k + 1 \in Nat
    OBVIOUS
  <2> QED BY <1>6, <2>1, <2>2
<1>13. ASSUME NEW m \in 1..Len(v.marks)
       PROVE  Reached(table, b + m - 1, v.marks[m])
  <2>1. CASE m = Len(w.marks) + 1
    <3>1. b + m - 1 = n
      BY <1>1, <2>1
    <3> QED BY <1>8, <1>10, <2>1, <3>1
  <2>2. CASE m # Len(w.marks) + 1
    <3>1. m \in 1..Len(w.marks)
      BY <1>1, <1>8, <2>2
    <3> QED BY <1>8, <3>1 DEF Stands
  <2> QED BY <2>1, <2>2
<1>14. v.slot <= Len(table) /\ ~(v.slot > Len(table))
  BY <1>1, <1>6
<1>15. Cardinality(v.seen) = Cardinality(w.seen) + 1
  BY <1>1, <1>6, OneMore
<1> QED BY <1>6, <1>9, <1>11, <1>12, <1>13, <1>14, <1>15 DEF Stands, v

\* A walk that leaves a slot still stands.
LEMMA NextSlotStands ==
    ASSUME NEW table \in Seq(Int), NEW b \in Nat, NEW K, NEW w,
           Stands(table, b, K, w), w.slot <= Len(table), Ends(w)
    PROVE  /\ Stands(table, b, K, NextSlot(table, w))
           /\ NextSlot(table, w).slot = w.slot + 1
           /\ NextSlot(table, w).seen = w.seen
<1> DEFINE v == NextSlot(table, w)
           L == K \cup w.seen
           n == b + Len(w.marks)
           x == IF w.slot + 1 > Len(table) THEN 0 ELSE table[w.slot + 1]
<1>1. /\ w.slot \in 1..Len(table) /\ w.seen \in SUBSET Objects /\ w.marks \in Seq(Place)
      /\ w.from \in Int /\ Len(table) \in Nat /\ Len(w.marks) \in Nat /\ x \in Int
  BY DEF Stands, Walks
<1>2. /\ v \in Walks(table) /\ v.slot = w.slot + 1 /\ v.node = x /\ v.marks = w.marks
      /\ v.seen = w.seen
  <2> DEFINE s == StartAt(table, w.slot + 1)
  <2>1. s \in Walks(table) /\ s.slot = w.slot + 1 /\ s.node = x
    <3>1. s = [from |-> w.slot + 1, slot |-> w.slot + 1, node |-> x, marks |-> <<>>, seen |-> {}]
      BY DEF StartAt
    <3> HIDE DEF x, s
    <3>2. w.slot + 1 \in 1..(Len(table) + 1) /\ w.slot + 1 \in Int /\ <<>> \in Seq(Place)
      BY <1>1
    <3> QED BY <1>1, <3>1, <3>2 DEF Walks
  <2>2. v = [s EXCEPT !.from = w.from, !.marks = w.marks, !.seen = w.seen]
    BY DEF NextSlot
  <2> HIDE DEF s, v, x
  <2> QED BY <1>1, <2>1, <2>2 DEF Walks
<1> HIDE DEF v, x
<1>5. w.node \in L \/ w.node \notin Objects
  BY ObjectsFinite DEF Ends
<1>6. PICK k \in Nat : \E hop : Leads(table[w.slot], k, hop, w.node, w.seen)
  BY <1>1 DEF Stands
<1>7. PICK hop : Leads(table[w.slot], k, hop, w.node, w.seen)
  BY <1>6
<1>8. table[w.slot] \in L \/ table[w.slot] \notin Objects
  <2>1. CASE k = 0
    BY <1>5, <1>7, <2>1 DEF Leads
  <2>2. CASE k # 0
    <3>1. 0 \in 0..(k - 1)
      BY <2>2
    <3> QED BY <1>7, <3>1 DEF Leads
  <2> QED BY <2>1, <2>2
<1>9. Covers(table, L, n, w.slot, w.node)
  BY DEF Stands
<1>10. Covers(table, L, n, w.slot + 1, x)
  <2>1. \A y \in L : NextOf(y) \in L \cup {x} \/ NextOf(y) \notin Objects
    BY <1>5, <1>9 DEF Covers
  <2>2. ASSUME NEW t \in 1..((w.slot + 1) - 1)
        PROVE  table[t] \in L \cup {x} \/ table[t] \notin Objects
    <3>1. CASE t = w.slot
      BY <1>8, <3>1
    <3>2. CASE t # w.slot
      <4>1. t \in 1..(w.slot - 1)
        BY <1>1, <3>2
      <4>2. table[t] \in L \cup {w.node} \/ table[t] \notin Objects
        BY <1>9, <4>1 DEF Covers
      <4> QED BY <1>5, <4>2
    <3> QED BY <3>1, <3>2
  <2> HIDE DEF L, n
  <2> QED BY <1>9, <2>1, <2>2 DEF Covers
<1>11. \E i \in Nat : \E on : w.slot + 1 <= Len(table) => Leads(table[w.slot + 1], i, on, x, w.seen)
  <2>1. ASSUME w.slot + 1 <= Len(table)
        PROVE  Leads(table[w.slot + 1], 0, [j \in 0..0 |-> x], x, w.seen)
    BY <1>1, <2>1 DEF Leads, x
  <2> QED BY <2>1
<1>12. w.slot + 1 > Len(table) => x = 0
  BY DEF x
<1>13. \A m \in 1..Len(w.marks) : Reached(table, b + m - 1, w.marks[m])
  BY DEF Stands
<1>14. Stands(table, b, K, v)
  BY <1>2, <1>10, <1>11, <1>12, <1>13 DEF Stands
<1> QED BY <1>2, <1>14 DEF v

\* A walk stays on its feet, and one that took less than it was asked for came
\* to the end of the table.
LEMMA WalkStands ==
    ASSUME NEW table \in Seq(Int), NEW b \in Nat, NEW K, NEW w, NEW target \in Int,
           Stands(table, b, K, w)
    PROVE  LET v == MapWalk(table, w, target)
           IN  /\ Stands(table, b, K, v)
               /\ Len(v.marks) < target => v.slot > Len(table)
<1> DEFINE N == Len(table) + Unbounded
           V == {v \in Walks(table) : Stands(table, b, K, v)}
           Rests(v) == Len(v.marks) >= target \/ v.slot > Len(table)
<1>1. Len(table) \in Nat /\ Unbounded \in Nat /\ N \in Nat
  BY UnboundedIs
<1>2. ASSUME NEW v \in V
      PROVE  /\ MapStep(table, v, target) \in V
             /\ Rests(v) => MapStep(table, v, target) = v
             /\ ~Rests(v) => LET s == MapStep(table, v, target)
                             IN  s.slot + Cardinality(s.seen) = v.slot + Cardinality(v.seen) + 1
  <2>0. /\ v.slot \in Nat /\ Len(v.marks) \in Nat /\ v.seen \in SUBSET Objects
        /\ Cardinality(v.seen) \in Nat
    BY ObjectsFinite DEF Walks
  <2>1. CASE Rests(v)
    BY <2>1 DEF MapStep
  <2>2. CASE ~Rests(v) /\ Ends(v)
    <3>1. MapStep(table, v, target) = NextSlot(table, v)
      BY <2>2 DEF MapStep
    <3>2. v.slot <= Len(table)
      BY <1>1, <2>0, <2>2
    <3>3. /\ Stands(table, b, K, NextSlot(table, v)) /\ NextSlot(table, v).slot = v.slot + 1
          /\ NextSlot(table, v).seen = v.seen
      BY <2>2, <3>2, NextSlotStands
    <3>4. NextSlot(table, v) \in V
      BY <3>3 DEF Stands
    <3> QED BY <2>0, <2>2, <3>1, <3>3, <3>4
  <2>3. CASE ~Rests(v) /\ ~Ends(v)
    <3>1. MapStep(table, v, target) = Take(v)
      BY <2>3 DEF MapStep
    <3>2. v.slot <= Len(table)
      BY <1>1, <2>0, <2>3
    <3>3. /\ Stands(table, b, K, Take(v)) /\ Take(v).slot = v.slot
          /\ Cardinality(Take(v).seen) = Cardinality(v.seen) + 1
      BY <1>1, <2>3, <3>2, TakeStands
    <3>4. Take(v) \in V
      BY <3>3 DEF Stands
    <3> QED BY <2>0, <2>3, <3>1, <3>3, <3>4
  <2> QED BY <2>1, <2>2, <2>3
<1>3. w \in V
  BY DEF Stands
<1>4. PICK f \in [0..N -> V] : /\ f[0] = w
                               /\ \A n \in 1..N : f[n] = MapStep(table, f[n - 1], target)
                               /\ MapWalk(table, w, target) = f[N]
  <2>1. \A v \in V : MapStep(table, v, target) \in V
    BY <1>2
  <2> HIDE DEF V
  <2> QED BY <1>1, <1>3, <2>1, MapWalkIs
<1> DEFINE Far(n) == Rests(f[n]) \/ f[n].slot + Cardinality(f[n].seen) >= n + 1
           M == {n \in 0..N : Far(n)}
<1>5. \A n \in 0..N : /\ f[n] \in V /\ f[n].slot \in 1..(Len(table) + 1)
                      /\ Cardinality(f[n].seen) \in Nat /\ Cardinality(f[n].seen) <= Unbounded
                      /\ Len(f[n].marks) \in Nat
  BY <1>4, ObjectsFinite DEF Walks
<1>6. 0 \in M
  BY <1>1, <1>5
<1>7. ASSUME NEW n \in 0..(N - 1), n \in M
      PROVE  n + 1 \in M
  <2>1. n \in 0..N /\ n + 1 \in 1..N /\ n + 1 \in 0..N /\ (n + 1) - 1 = n
    BY <1>1
  <2>2. f[n + 1] = MapStep(table, f[n], target) /\ f[n] \in V
    BY <1>4, <2>1
  <2>3. CASE Rests(f[n])
    <3>1. f[n + 1] = f[n]
      BY <1>2, <2>2, <2>3
    <3> QED BY <2>1, <2>3, <3>1
  <2>4. CASE ~Rests(f[n])
    <3>1. f[n + 1].slot + Cardinality(f[n + 1].seen) = f[n].slot + Cardinality(f[n].seen) + 1
      BY <1>2, <2>2, <2>4
    <3>2. f[n].slot + Cardinality(f[n].seen) >= n + 1
      BY <1>7, <2>4
    <3>3. f[n].slot \in Nat /\ Cardinality(f[n].seen) \in Nat
      BY <1>1, <1>5, <2>1
    <3>4. f[n + 1].slot + Cardinality(f[n + 1].seen) >= (n + 1) + 1
      BY <3>1, <3>2, <3>3
    <3> QED BY <2>1, <3>4
  <2> QED BY <2>3, <2>4
<1>8. N \in M
  <2> HIDE DEF M, N
  <2>1. 0..N \subseteq M
    BY <1>1, <1>6, <1>7, StepInduction
  <2> QED BY <1>1, <2>1
<1>9. N \in 0..N
  BY <1>1
<1>10. Rests(f[N])
  <2>1. /\ f[N].slot \in 1..(Len(table) + 1) /\ Cardinality(f[N].seen) \in Nat
        /\ Cardinality(f[N].seen) <= Unbounded
    BY <1>5, <1>9
  <2>2. Rests(f[N]) \/ f[N].slot + Cardinality(f[N].seen) >= N + 1
    BY <1>8
  <2> QED BY <1>1, <2>1, <2>2
<1>11. f[N] \in V
  BY <1>4, <1>9
<1>12. Stands(table, b, K, f[N]) /\ Len(f[N].marks) \in Nat
  BY <1>5, <1>9, <1>11
<1> QED BY <1>4, <1>10, <1>12

\* At the head nothing lies before.
LEMMA HeadStands ==
    ASSUME NEW table \in Seq(Int)
    PROVE  Stands(table, 0, {}, StartAt(table, 1))
<1> DEFINE x == IF 1 > Len(table) THEN 0 ELSE table[1]
           w == StartAt(table, 1)
<1>1. w = [from |-> 1, slot |-> 1, node |-> x, marks |-> <<>>, seen |-> {}]
  BY DEF StartAt
<1>2. x \in Int /\ Len(table) \in Nat /\ <<>> \in Seq(Place)
  OBVIOUS
<1>3. w \in Walks(table)
  <2> HIDE DEF x, w
  <2> QED BY <1>1, <1>2 DEF Walks
<1>4. {} \cup w.seen = {} /\ 0 + Len(w.marks) = 0 /\ w.slot = 1 /\ w.node = x /\ w.seen = {}
  BY <1>1
<1>5. Covers(table, {}, 0, 1, x)
  BY FS_EmptySet DEF Covers
<1>6. 1 <= Len(table) => Leads(table[1], 0, [j \in 0..0 |-> x], x, {})
  BY <1>2 DEF Leads
<1>7. \E i \in Nat : \E on : 1 <= Len(table) => Leads(table[1], i, on, x, {})
  BY <1>6
<1>8. \A m \in 1..Len(w.marks) : Reached(table, 0 + m - 1, w.marks[m])
  BY <1>1
<1>9. 1 > Len(table) => x = 0
  OBVIOUS
<1> HIDE DEF x, w
<1>10. Stands(table, 0, {}, w)
  BY <1>3, <1>4, <1>5, <1>7, <1>8, <1>9 DEF Stands
<1> QED BY <1>10 DEF w

\* A chain over different nodes is no longer than there are objects.
LEMMA LeadsShort ==
    ASSUME NEW h, NEW k \in Nat, NEW hop, NEW x, NEW K \in SUBSET Objects, Leads(h, k, hop, x, K)
    PROVE  k <= Unbounded
<1> DEFINE f == [i \in 1..k |-> hop[i - 1]]
<1>1. ASSUME NEW i \in 1..k
      PROVE  i - 1 \in 0..(k - 1) /\ hop[i - 1] \in K
  <2>1. i - 1 \in 0..(k - 1)
    OBVIOUS
  <2> QED BY <2>1 DEF Leads
<1>2. f \in [1..k -> K]
  BY <1>1
<1>3. \A i, j \in 1..k : f[i] = f[j] => i = j
  BY <1>1 DEF Leads
<1>4. f \in Injection(1..k, K)
  <2> HIDE DEF f
  <2> QED BY <1>2, <1>3 DEF Injection, IsInjective
<1>5. IsFiniteSet(1..k) /\ Cardinality(1..k) = k
  BY FS_Interval
<1>6. IsFiniteSet(K) /\ Cardinality(K) <= Unbounded /\ Cardinality(K) \in Nat
  BY ObjectsFinite
<1>7. Cardinality(1..k) <= Cardinality(K)
  <2> HIDE DEF f
  <2> QED BY <1>4, <1>5, <1>6, FS_Injection
<1> QED BY <1>5, <1>6, <1>7, UnboundedIs

\* From the head of its slot a place is found again, and the walk stands there
\* as the one did that came from the head of the table.
LEMMA ResumeStands ==
    ASSUME NEW table \in Seq(Int), NEW n \in Nat, NEW p, Reached(table, n, p)
    PROVE  LET r == Resume(StartAt(table, p[1]), p[2])
           IN  r.node = p[2] /\ \E K : Stands(table, n, K, r)
<1> DEFINE s == p[1]
           x == p[2]
           h == table[s]
           start == StartAt(table, s)
           U == Unbounded + 1
<1>1. s \in 1..Len(table) /\ x \in Objects /\ s \in Nat /\ Len(table) \in Nat /\ h \in Int /\ p \in Place
  BY DEF Reached, Place
<1>2. PICK K : /\ Covers(table, K, n, s, x)
               /\ \E k \in Nat : \E hop : Leads(h, k, hop, x, K) /\ \A j \in 0..(k - 1) : hop[j] # x
  BY DEF Reached
<1>3. PICK k \in Nat : \E hop : Leads(h, k, hop, x, K) /\ \A j \in 0..(k - 1) : hop[j] # x
  BY <1>2
<1>4. PICK hop : Leads(h, k, hop, x, K) /\ \A j \in 0..(k - 1) : hop[j] # x
  BY <1>3
<1>5. K \in SUBSET Objects
  BY <1>2 DEF Covers
<1>6. k <= Unbounded /\ Unbounded \in Nat /\ U \in Nat /\ k \in 0..U
  <2>1. k <= Unbounded
    <3> HIDE DEF h, x
    <3> QED BY <1>4, <1>5, LeadsShort
  <2> QED BY <2>1, UnboundedIs
<1>7. start = [from |-> s, slot |-> s, node |-> h, marks |-> <<>>, seen |-> {}]
  <2>1. ~(p[1] > Len(table))
    BY <1>1
  <2> QED BY <2>1 DEF StartAt
<1> HIDE DEF s, x, h, start
<1> DEFINE V == [from : {s}, slot : {s}, node : Int, marks : {<<>>}, seen : SUBSET Int]
<1>8. start \in V
  BY <1>1, <1>7
<1>9. \A v \in V : ResumeStep(v, x) \in V
  <2> SUFFICES ASSUME NEW v \in V PROVE ResumeStep(v, x) \in V
    OBVIOUS
  <2> DEFINE y == IF v.node \in Objects THEN NextOf(v.node) ELSE 0
             S == v.seen \cup {v.node}
  <2>1. y \in Int /\ S \in SUBSET Int
    BY NextOfIs
  <2>2. ResumeStep(v, x) = v \/ ResumeStep(v, x) = [v EXCEPT !.seen = S, !.node = y]
    BY DEF ResumeStep
  <2> HIDE DEF y, S
  <2> QED BY <2>1, <2>2
<1>19. PICK f : ResumeBy(f, start, x)
  <2> HIDE DEF V
  <2> QED BY <1>8, <1>9, ResumeIs
<1>10. /\ f[0] = start
       /\ \A m \in 1..U : f[m] = ResumeStep(f[m - 1], x)
       /\ Resume(start, x) = f[U]
  BY <1>19 DEF ResumeBy
<1> DEFINE Before(m) == {hop[j] : j \in 0..(m - 1)}
           At(v, m) == v \in V /\ v.node = hop[m] /\ v.seen = Before(m)
           M == {m \in 0..U : At(f[m], IF m <= k THEN m ELSE k)}
<1>11. /\ hop \in [0..k -> Int] /\ hop[0] = h /\ hop[k] = x
       /\ \A j \in 0..(k - 1) : hop[j] \in K /\ hop[j + 1] = NextOf(hop[j]) /\ hop[j] # x
       /\ \A i, j \in 0..(k - 1) : i # j => hop[i] # hop[j]
  BY <1>4 DEF Leads
<1>12. 0 \in M
  <2>1. Before(0) = {}
    OBVIOUS
  <2>2. f[0] \in V /\ f[0].node = h /\ f[0].seen = {}
    BY <1>7, <1>8, <1>10
  <2> QED BY <1>6, <1>11, <2>1, <2>2
<1>13. ASSUME NEW m \in 0..(U - 1), m \in M
       PROVE  m + 1 \in M
  <2>1. m \in 0..U /\ m + 1 \in 1..U /\ m + 1 \in 0..U /\ (m + 1) - 1 = m
    BY <1>6
  <2>2. f[m + 1] = ResumeStep(f[m], x)
    BY <1>10, <2>1
  <2>3. CASE m < k
    <3>1. m \in 0..(k - 1) /\ m + 1 <= k /\ m <= k
      BY <2>1, <2>3
    <3>2. At(f[m], m)
      BY <1>13, <3>1
    <3>3. hop[m] \in Objects /\ hop[m] # x /\ hop[m + 1] = NextOf(hop[m]) /\ hop[m] # 0
      BY <1>5, <1>11, <3>1, ObjectsFinite
    <3>4. hop[m] \notin Before(m)
      <4> SUFFICES ASSUME NEW j \in 0..(m - 1), hop[j] = hop[m] PROVE FALSE
        OBVIOUS
      <4>1. j \in 0..(k - 1) /\ j # m
        BY <3>1
      <4> QED BY <1>11, <3>1, <4>1
    <3>5. Before(m + 1) = Before(m) \cup {hop[m]}
      <4>1. 0..((m + 1) - 1) = 0..(m - 1) \cup {m}
        BY <3>1
      <4> QED BY <4>1
    <3> HIDE DEF Before
    <3> DEFINE v == f[m]
    <3>6. v \in V /\ v.node = hop[m] /\ v.seen = Before(m)
      BY <3>2
    <3>7. ResumeStep(v, x) \in V
      BY <1>9, <3>6
    <3>8. ResumeStep(v, x) = [v EXCEPT !.seen = @ \cup {v.node},
                                       !.node = IF @ \in Objects THEN NextOf(@) ELSE 0]
      <4>1. v.node \notin {0, x} \cup v.seen
        BY <3>3, <3>4, <3>6
      <4> HIDE DEF v
      <4> QED BY <4>1 DEF ResumeStep
    <3>9. ResumeStep(v, x).node = hop[m + 1] /\ ResumeStep(v, x).seen = Before(m + 1)
      <4> HIDE DEF v
      <4> QED BY <3>3, <3>5, <3>6, <3>8
    <3>10. At(f[m + 1], m + 1)
      BY <2>2, <3>7, <3>9
    <3> QED BY <2>1, <3>1, <3>10
  <2>4. CASE ~(m < k)
    <3>1. At(f[m], k)
      <4>1. m = k \/ m > k
        BY <2>1, <2>4
      <4> QED BY <1>13, <4>1
    <3>2. f[m].node = x
      BY <1>11, <3>1
    <3>3. ResumeStep(f[m], x) = f[m]
      BY <3>2 DEF ResumeStep
    <3>4. ~(m + 1 <= k)
      BY <2>1, <2>4
    <3> QED BY <2>1, <2>2, <3>1, <3>3, <3>4
  <2> QED BY <2>3, <2>4
<1>14. U \in M
  <2> HIDE DEF M, U
  <2>1. 0..U \subseteq M
    BY <1>6, <1>12, <1>13, StepInduction
  <2> QED BY <1>6, <2>1
<1> DEFINE r == f[U]
<1>15. r \in V /\ r.node = x /\ r.seen = Before(k)
  <2>1. ~(U <= k)
    BY <1>6
  <2> QED BY <1>11, <1>14, <2>1
<1>16. /\ r.from = s /\ r.slot = s /\ r.marks = <<>> /\ r.node = x /\ r.seen \in SUBSET K
       /\ r \in Walks(table)
  <2>1. r.seen \in SUBSET K
    BY <1>11, <1>15
  <2> HIDE DEF r, Before
  <2>2. <<>> \in Seq(Place) /\ s \in 1..(Len(table) + 1) /\ x \in Int /\ s \in Int
    BY <1>1, <1>11
  <2> QED BY <1>5, <1>15, <2>1, <2>2 DEF Walks
<1>17. Leads(h, k, hop, x, r.seen)
  <2>1. \A j \in 0..(k - 1) : hop[j] \in Before(k)
    OBVIOUS
  <2> HIDE DEF r, Before
  <2> QED BY <1>11, <1>15, <2>1 DEF Leads
<1>18. Stands(table, n, K, r)
  <2>1. K \cup r.seen = K /\ n + Len(r.marks) = n
    BY <1>16
  <2>2. ~(s > Len(table)) /\ table[s] = h
    BY <1>1 DEF h
  <2>3. \A m \in 1..Len(r.marks) : Reached(table, n + m - 1, r.marks[m])
    BY <1>16
  <2> HIDE DEF r
  <2> QED BY <1>2, <1>16, <1>17, <2>1, <2>2, <2>3 DEF Stands
<1> QED BY <1>10, <1>15, <1>18 DEF start, s, x

\* A walk from the head takes no more than lies within a set that its steps do
\* not leave.
LEMMA WalkWithin ==
    ASSUME NEW table \in Seq(Int), NEW target, NEW K \in SUBSET Objects,
           \A y \in K : NextOf(y) \in K \/ NextOf(y) \notin Objects,
           \A t \in 1..Len(table) : table[t] \in K \/ table[t] \notin Objects
    PROVE  /\ MapWalk(table, StartAt(table, 1), target).marks \in Seq(Place)
           /\ Len(MapWalk(table, StartAt(table, 1), target).marks) <= Cardinality(K)
<1> DEFINE V == {w \in Walks(table) : /\ w.seen \subseteq K
                                      /\ Len(w.marks) = Cardinality(w.seen)
                                      /\ w.node \in K \/ w.node \notin Objects}
<1>1. StartAt(table, 1) \in V
  <2> DEFINE w == StartAt(table, 1)
  <2>1. w \in Walks(table)
    BY HeadStands DEF Stands
  <2>2. w.seen = {} /\ w.marks = <<>> /\ w.node = IF 1 > Len(table) THEN 0 ELSE table[1]
    BY DEF StartAt
  <2>3. w.node \in K \/ w.node \notin Objects
    BY <2>2, ObjectsFinite
  <2> HIDE DEF w
  <2>4. Len(w.marks) = Cardinality(w.seen) /\ w.seen \subseteq K
    BY <2>2, FS_EmptySet
  <2> QED BY <2>1, <2>3, <2>4 DEF w
<1>2. ASSUME NEW w \in V
      PROVE  MapStep(table, w, target) \in V
  <2>0. /\ w.slot \in 1..(Len(table) + 1) /\ w.marks \in Seq(Place) /\ w.seen \in SUBSET Objects
        /\ Len(table) \in Nat /\ w.from \in Int /\ w.node \in Int
    BY DEF Walks
  <2>1. CASE w.slot > Len(table) \/ Len(w.marks) >= target
    BY <2>1 DEF MapStep
  <2>2. CASE w.slot <= Len(table) /\ ~(Len(w.marks) >= target) /\ Ends(w)
    <3> DEFINE v == NextSlot(table, w)
               s == StartAt(table, w.slot + 1)
    <3>1. MapStep(table, w, target) = v
      BY <2>0, <2>2 DEF MapStep
    <3>2. /\ s \in Walks(table)
          /\ s.node = IF w.slot + 1 > Len(table) THEN 0 ELSE table[w.slot + 1]
      <4>1. w.slot + 1 \in 1..(Len(table) + 1) /\ w.slot + 1 \in Int /\ <<>> \in Seq(Place)
        BY <2>0, <2>2
      <4> DEFINE x == IF w.slot + 1 > Len(table) THEN 0 ELSE table[w.slot + 1]
      <4>2. x \in Int
        BY <2>0, <4>1
      <4>3. s = [from |-> w.slot + 1, slot |-> w.slot + 1, node |-> x, marks |-> <<>>, seen |-> {}]
        BY DEF StartAt
      <4> HIDE DEF s, x
      <4>4. s \in Walks(table) /\ s.node = x
        BY <4>1, <4>2, <4>3 DEF Walks
      <4> QED BY <4>4 DEF x
    <3>3. s.node \in K \/ s.node \notin Objects
      <4>1. CASE w.slot + 1 > Len(table)
        BY <3>2, <4>1, ObjectsFinite
      <4>2. CASE ~(w.slot + 1 > Len(table))
        <5>1. w.slot + 1 \in 1..Len(table)
          BY <2>0, <4>2
        <5> QED BY <3>2, <4>2, <5>1
      <4> QED BY <4>1, <4>2
    <3>4. v = [s EXCEPT !.from = w.from, !.marks = w.marks, !.seen = w.seen]
      BY DEF NextSlot
    <3> HIDE DEF s, v
    <3>5. v \in Walks(table) /\ v.seen = w.seen /\ v.marks = w.marks /\ v.node = s.node
      BY <2>0, <3>2, <3>4 DEF Walks
    <3> QED BY <3>1, <3>3, <3>5
  <2>3. CASE w.slot <= Len(table) /\ ~(Len(w.marks) >= target) /\ ~Ends(w)
    <3> DEFINE v == Take(w)
               x == w.node
               ms == Append(w.marks, Mark(w))
               sn == w.seen \cup {x}
               nx == NextOf(x)
    <3>1. MapStep(table, w, target) = v
      BY <2>0, <2>3 DEF MapStep
    <3>2. x \in Objects /\ x \notin w.seen /\ x \in K
      BY <2>3 DEF Ends
    <3>3. ms \in Seq(Place) /\ Len(ms) = Len(w.marks) + 1
      BY <2>0, <2>3, <3>2 DEF Mark, Place
    <3>4. sn \in SUBSET Objects /\ sn \subseteq K /\ Cardinality(sn) = Cardinality(w.seen) + 1
      BY <2>0, <3>2, OneMore
    <3>5. nx \in Int /\ (nx \in K \/ nx \notin Objects)
      BY <3>2, NextOfIs
    <3>6. v = [w EXCEPT !.marks = ms, !.seen = sn, !.node = nx]
      BY DEF Take
    <3> HIDE DEF ms, sn, nx, v
    <3>7. v \in Walks(table) /\ v.seen = sn /\ v.marks = ms /\ v.node = nx
      BY <3>3, <3>4, <3>5, <3>6 DEF Walks
    <3> QED BY <3>1, <3>3, <3>4, <3>5, <3>7
  <2> QED BY <2>0, <2>1, <2>2, <2>3
<1>3. Len(table) \in Nat
  OBVIOUS
<1>4. MapWalk(table, StartAt(table, 1), target) \in V
  <2> DEFINE w == StartAt(table, 1)
             N == Len(table) + Unbounded
  <2>0. w \in V /\ \A v \in V : MapStep(table, v, target) \in V
    BY <1>1, <1>2
  <2> HIDE DEF V, w
  <2>1. PICK f \in [0..N -> V] : MapWalk(table, w, target) = f[N]
    BY <1>3, <2>0, MapWalkIs
  <2>2. N \in 0..N
    BY <1>3, UnboundedIs
  <2> QED BY <2>1, <2>2 DEF w
<1> DEFINE u == MapWalk(table, StartAt(table, 1), target)
<1>5. u.marks \in Seq(Place) /\ Len(u.marks) = Cardinality(u.seen) /\ u.seen \subseteq K
  BY <1>4 DEF Walks
<1>6. Cardinality(u.seen) <= Cardinality(K)
  <2> HIDE DEF u
  <2> QED BY <1>5, ObjectsFinite, FS_Subset
<1> QED BY <1>5, <1>6

-----------------------------------------------------------------------------
(* Skip-indexes                                                            *)

Indexes == [checkpoints : Seq(Place), complete : BOOLEAN]
TableOf(c) == The(TablesOf(c))

\* Checkpoint i is where a walk comes with at most (i - 1) * SkipInterval nodes
\* before it.
Fits(c, si) ==
    /\ si \in Indexes
    /\ TablesOf(c) # {} =>
          \A i \in 1..Len(si.checkpoints) :
             Reached(TableOf(c), (i - 1) * SkipInterval, si.checkpoints[i])

MarksFit(c, base, marks) ==
    /\ marks \in Seq(Place)
    /\ TablesOf(c) # {} => \A m \in 1..Len(marks) : Reached(TableOf(c), base + m - 1, marks[m])

\* What is recorded fits, and reaches as far as the marks do.
LEMMA RecordAllFits ==
    ASSUME NEW c, NEW si, Fits(c, si), NEW base \in Nat,
           base <= SkipInterval * Len(si.checkpoints), NEW marks, MarksFit(c, base, marks)
    PROVE  LET u == RecordAll(si, base, marks)
           IN  /\ Fits(c, u) /\ u.complete = si.complete
               /\ Len(u.checkpoints) >= Len(si.checkpoints)
               /\ SkipInterval * Len(u.checkpoints) >= base + Len(marks)
<1> DEFINE I == SkipInterval
           N == Len(marks)
           Upto(m, u) == /\ Fits(c, u) /\ u.complete = si.complete
                         /\ Len(u.checkpoints) >= Len(si.checkpoints)
                         /\ I * Len(u.checkpoints) >= base + m
<1>1. I \in Nat \ {0} /\ N \in Nat /\ marks \in Seq(Place) /\ \A m \in 1..N : marks[m] \in Place
  BY PagingAssumption DEF MarksFit
<1>2. \A v \in Indexes : \A m \in 1..N : SI!Record(v, base + m - 1, marks[m]) \in Indexes
  <2> SUFFICES ASSUME NEW v \in Indexes, NEW m \in 1..N
               PROVE  SI!Record(v, base + m - 1, marks[m]) \in Indexes
    OBVIOUS
  <2> DEFINE cps == Append(v.checkpoints, marks[m])
  <2>1. cps \in Seq(Place)
    BY <1>1 DEF Indexes
  <2>2. \/ SI!Record(v, base + m - 1, marks[m]) = v
        \/ SI!Record(v, base + m - 1, marks[m]) = [v EXCEPT !.checkpoints = cps]
    BY DEF SI!Record
  <2> HIDE DEF cps
  <2> QED BY <2>1, <2>2 DEF Indexes
<1>3. si \in Indexes
  BY DEF Fits
<1>8. PICK f : RecordAllBy(f, si, base, marks)
  <2>1. /\ Len(marks) \in Nat
        /\ \A v \in Indexes : \A m \in 1..Len(marks) : SI!Record(v, base + m - 1, marks[m]) \in Indexes
    BY <1>1, <1>2
  <2> QED BY <1>3, <2>1, RecordAllIs
<1>4. /\ f[0] = si
      /\ \A m \in 1..N : f[m] = SI!Record(f[m - 1], base + m - 1, marks[m])
      /\ RecordAll(si, base, marks) = f[N]
  BY <1>8 DEF RecordAllBy
<1> DEFINE M == {m \in 0..N : Upto(m, f[m])}
<1>5. 0 \in M
  <2>1. Len(si.checkpoints) \in Nat
    BY <1>3 DEF Indexes
  <2>2. base + 0 = base
    OBVIOUS
  <2>3. Upto(0, si)
    BY <2>1, <2>2
  <2> HIDE DEF Upto
  <2> QED BY <1>1, <1>4, <2>3
<1>6. ASSUME NEW m \in 0..(N - 1), m \in M
      PROVE  m + 1 \in M
  <2> DEFINE u == f[m]
             e == base + m
             p == marks[m + 1]
             L == Len(u.checkpoints)
             v == SI!Record(u, e, p)
  <2>1. m \in Nat /\ m + 1 \in 1..N /\ m + 1 \in 0..N /\ base + (m + 1) - 1 = e /\ (m + 1) - 1 = m
        /\ e \in Nat
    BY <1>1
  <2>2. f[m + 1] = v
    BY <1>4, <2>1
  <2>3. Upto(m, u)
    BY <1>6
  <2>4. u \in Indexes /\ L \in Nat /\ I * L \in Nat /\ I * L >= e
    BY <1>1, <2>3 DEF Fits, Indexes
  <2>5. p \in Place /\ (TablesOf(c) # {} => Reached(TableOf(c), e, p))
    <3>1. TablesOf(c) # {} => Reached(TableOf(c), base + (m + 1) - 1, p)
      BY <2>1 DEF MarksFit
    <3> QED BY <1>1, <2>1, <3>1
  <2> HIDE DEF u, e, p
  <2>6. CASE e = L * I
    <3>1. v = [u EXCEPT !.checkpoints = Append(@, p)]
      BY <2>6 DEF SI!Record
    <3>2. /\ v \in Indexes /\ v.complete = u.complete
          /\ v.checkpoints = Append(u.checkpoints, p)
      <4> DEFINE cps == Append(u.checkpoints, p)
      <4>1. cps \in Seq(Place)
        BY <2>4, <2>5 DEF Indexes
      <4>2. v = [u EXCEPT !.checkpoints = cps]
        BY <3>1
      <4> HIDE DEF cps, v
      <4>3. v \in Indexes /\ v.complete = u.complete /\ v.checkpoints = cps
        BY <2>4, <4>1, <4>2 DEF Indexes
      <4> QED BY <4>3 DEF cps
    <3>3. /\ Len(v.checkpoints) = L + 1 /\ v.checkpoints[L + 1] = p
          /\ \A i \in 1..L : v.checkpoints[i] = u.checkpoints[i]
      BY <2>4, <2>5, <3>2 DEF Indexes
    <3> HIDE DEF v
    <3>4. ASSUME TablesOf(c) # {}, NEW i \in 1..(L + 1)
          PROVE  Reached(TableOf(c), (i - 1) * I, v.checkpoints[i])
      <4>1. CASE i = L + 1
        <5>1. (i - 1) * I = e
          BY <2>4, <2>6, <4>1
        <5> QED BY <2>5, <3>3, <3>4, <4>1, <5>1
      <4>2. CASE i # L + 1
        <5>1. i \in 1..L
          BY <2>4, <4>2
        <5> QED BY <2>3, <3>3, <3>4, <5>1 DEF Fits
      <4> QED BY <4>1, <4>2
    <3>5. I * (L + 1) >= e + 1
      <4>1. I * (L + 1) = I * L + I
        BY <1>1, <2>4
      <4> HIDE DEF L, I
      <4> QED BY <1>1, <2>1, <2>4, <4>1
    <3>6. L + 1 >= Len(si.checkpoints)
      <4>1. Len(si.checkpoints) \in Nat
        BY <1>3 DEF Indexes
      <4> QED BY <2>3, <2>4, <4>1
    <3>7. Upto(m + 1, v)
      <4>1. base + (m + 1) = e + 1
        BY <2>1 DEF e
      <4>2. Fits(c, v)
        BY <3>2, <3>3, <3>4 DEF Fits
      <4> QED BY <2>3, <3>2, <3>3, <3>5, <3>6, <4>1, <4>2
    <3> QED BY <2>1, <2>2, <3>7
  <2>7. CASE e # L * I
    <3>1. v = u
      BY <2>7 DEF SI!Record
    <3>2. I * L >= e + 1
      <4>1. I * L = L * I
        BY <1>1, <2>4
      <4> QED BY <2>1, <2>4, <2>7, <4>1
    <3>3. base + (m + 1) = e + 1
      BY <2>1 DEF e
    <3> QED BY <2>1, <2>2, <2>3, <3>1, <3>2, <3>3
  <2> QED BY <2>6, <2>7
<1>7. N \in M
  <2> HIDE DEF M, N
  <2>1. 0..N \subseteq M
    BY <1>1, <1>5, <1>6, StepInduction
  <2> QED BY <1>1, <2>1
<1> QED BY <1>4, <1>7

\* A skip-index marked complete reaches as far as a walk from the head.
Full(c, si) ==
    si.complete /\ TablesOf(c) # {} => SkipInterval * Len(si.checkpoints) >= Len(Walked(c))

Good(c, si) == Fits(c, si) /\ Full(c, si)

\* What a request has of a skip-index: one that is good, or none.
GoodIndex(c, index) == (\A si \in index : Good(c, si)) /\ (\A si, sj \in index : si = sj)

LEMMA TimesMore ==
    ASSUME NEW i \in Nat, NEW m \in Nat, NEW n \in Nat, m <= n
    PROVE  i * m <= i * n
<1>1. n = m + (n - m) /\ n - m \in Nat
  OBVIOUS
<1>2. i * (m + (n - m)) = i * m + i * (n - m)
  OBVIOUS
<1>3. i * (n - m) \in Nat /\ i * m \in Nat
  BY <1>1
<1>4. i * n = i * m + i * (n - m)
  BY <1>1, <1>2
<1> QED BY <1>3, <1>4

\* A reply's marks leave the skip-index good.
LEMMA RecordedGood ==
    ASSUME NEW c, NEW index, GoodIndex(c, index), NEW base \in Nat,
           \A si \in index : base <= SkipInterval * Len(si.checkpoints),
           NEW marks, MarksFit(c, base, marks), NEW done,
           TablesOf(c) # {} => Len(Walked(c)) \in Nat,
           done /\ TablesOf(c) # {} => Len(Walked(c)) <= base + Len(marks)
    PROVE  GoodIndex(c, Finished(Recorded(index, base, marks), done))
<1> DEFINE I == SkipInterval
           Rec(si) == RecordAll(si, base, marks)
<1>1. ASSUME NEW si \in index
      PROVE  /\ Fits(c, Rec(si)) /\ Rec(si).complete = si.complete
             /\ Len(Rec(si).checkpoints) >= Len(si.checkpoints)
             /\ I * Len(Rec(si).checkpoints) >= base + Len(marks)
  <2>1. Fits(c, si)
    BY DEF GoodIndex, Good
  <2> QED BY <2>1, RecordAllFits
<1>2. ASSUME NEW si \in index
      PROVE  /\ Good(c, Rec(si))
             /\ done => Good(c, SI!MarkComplete(Rec(si)))
  <2> DEFINE u == Rec(si)
             L == Len(u.checkpoints)
  <2>1. L \in Nat /\ Len(si.checkpoints) \in Nat /\ I \in Nat /\ u \in Indexes /\ Len(marks) \in Nat
    BY <1>1, PagingAssumption DEF GoodIndex, Good, Fits, Indexes, MarksFit
  <2>2. I * Len(si.checkpoints) <= I * L /\ I * Len(si.checkpoints) \in Nat /\ I * L \in Nat
    BY <1>1, <2>1, TimesMore
  <2>3. Full(c, si)
    BY DEF GoodIndex, Good
  <2>4. u.complete = si.complete /\ Fits(c, u) /\ I * L >= base + Len(marks)
    BY <1>1
  <2> HIDE DEF u
  <2>5. Full(c, u)
    BY <2>2, <2>3, <2>4 DEF Full
  <2>6. ASSUME done PROVE Good(c, SI!MarkComplete(u))
    <3> DEFINE v == SI!MarkComplete(u)
    <3>1. v = [u EXCEPT !.complete = TRUE]
      BY DEF SI!MarkComplete
    <3> HIDE DEF v
    <3>2. v \in Indexes /\ v.checkpoints = u.checkpoints
      BY <2>1, <3>1 DEF Indexes
    <3>3. Fits(c, v)
      BY <2>4, <3>2 DEF Fits
    <3>4. Full(c, v)
      BY <2>1, <2>2, <2>4, <2>6, <3>2 DEF Full
    <3> QED BY <3>3, <3>4 DEF Good, v
  <2> QED BY <2>4, <2>5, <2>6 DEF u, Good
<1>3. \A si, sj \in index : si = sj
  BY DEF GoodIndex
<1>4. CASE done
  <2>1. Finished(Recorded(index, base, marks), done) = {SI!MarkComplete(Rec(si)) : si \in index}
    BY <1>4 DEF Finished, Recorded
  <2> HIDE DEF Rec
  <2> QED BY <1>2, <1>3, <1>4, <2>1 DEF GoodIndex
<1>5. CASE ~done
  <2>1. Finished(Recorded(index, base, marks), done) = {Rec(si) : si \in index}
    BY <1>5 DEF Finished, Recorded
  <2> HIDE DEF Rec
  <2> QED BY <1>2, <1>3, <2>1 DEF GoodIndex
<1> QED BY <1>4, <1>5

-----------------------------------------------------------------------------
(* Pages                                                                   *)

ShownBy(page) == [i \in DOMAIN page.entries |-> page.entries[i].entry]

Lists(page, visible) ==
    /\ "entries" \in DOMAIN page /\ DOMAIN page.entries = DOMAIN visible
    /\ \A i \in DOMAIN visible : /\ "entry" \in DOMAIN page.entries[i]
                                 /\ page.entries[i].entry = visible[i]
IsPage(page) == \E visible : Lists(page, visible)

\* A reply leaves the skip-index good and the places of what it shows in the cache.
Sane(c, reply) ==
    /\ GoodIndex(c, reply.index) /\ {"page", "index", "reads"} \subseteq DOMAIN reply
    /\ \A page \in reply.page : /\ IsPage(page)
                                /\ Objects \cap Refs(ShownBy(page)) \subseteq reply.reads

LEMMA PageShows ==
    ASSUME NEW p, NEW visible, Lists(p, visible)
    PROVE  Refs(ShownBy(p)) = Refs(visible)
<1>1. ToSet(ShownBy(p)) = ToSet(visible)
  BY DEF Lists, ShownBy, ToSet
<1> QED BY <1>1 DEF Refs

LEMMA PageLists ==
    ASSUME NEW visible, NEW total, NEW offset
    PROVE  /\ Lists(Page(visible, total, offset), visible)
           /\ IsPage(Page(visible, total, offset))
           /\ Refs(ShownBy(Page(visible, total, offset))) = Refs(visible)
<1>1. Lists(Page(visible, total, offset), visible)
  BY DEF Page, Lists
<1> QED BY <1>1, PageShows DEF IsPage

\* Behind the end of what there is a window shows nothing.
LEMMA WindowAt ==
    ASSUME NEW all, Len(all) \in Nat, NEW from \in Int, NEW limit \in Nat, NEW bound \in Int,
           Len(all) <= bound
    PROVE  \/ Lesser(from, bound) = from
           \/ ToSet(Window(all, Lesser(from, bound), limit)) = {}
<1>1. CASE from < bound
  BY <1>1 DEF Lesser
<1>2. CASE ~(from < bound)
  <2>1. Lesser(from, bound) = bound
    BY <1>2 DEF Lesser
  <2>2. Lesser(bound + limit, Len(all)) \in Int /\ Lesser(bound + limit, Len(all)) <= Len(all)
    BY DEF Lesser
  <2>3. DOMAIN Window(all, bound, limit) = {}
    <3> DEFINE m == Lesser(bound + limit, Len(all))
    <3> HIDE DEF m
    <3>1. DOMAIN SubSeq(all, bound + 1, m) = 1..(1 + m - (bound + 1))
      OBVIOUS
    <3>2. 1 + m - (bound + 1) <= 0 /\ 1 + m - (bound + 1) \in Int
      BY <2>2 DEF m
    <3> QED BY <3>1, <3>2 DEF Window, m
  <2> QED BY <2>1, <2>3 DEF ToSet
<1> QED BY <1>1, <1>2

\* A reply of a walk that stands is sane.
LEMMA ReplySane ==
    ASSUME NEW c, NEW index, GoodIndex(c, index), NEW base \in Nat,
           \A si \in index : base <= SkipInterval * Len(si.checkpoints),
           NEW walk, MarksFit(c, base, walk.marks), NEW done,
           TablesOf(c) # {} => Len(Walked(c)) \in Nat,
           done /\ TablesOf(c) # {} => Len(Walked(c)) <= base + Len(walk.marks),
           NEW all, Len(all) \in Nat, NEW bound \in Int, Len(all) <= bound,
           NEW r \in Ranges, NEW total, NEW batched
    PROVE  Sane(c, Reply(walk, all, base, Lesser(r.offset - base, bound), total, r, index, done,
                         batched))
<1> DEFINE from == Lesser(r.offset - base, bound)
           visible == Window(all, from, r.limit)
           reply == Reply(walk, all, base, from, total, r, index, done, batched)
<1>1. /\ reply.page = {Page(visible, total, base + from)}
      /\ reply.index = Finished(Recorded(index, base, walk.marks), done)
      /\ reply.reads = batched \cup (Objects \cap walk.seen) \cup Prefetched(all, base, r)
  BY DEF Reply
<1>2. GoodIndex(c, reply.index)
  <2> DEFINE marks == walk.marks
  <2> HIDE DEF marks, reply
  <2>1. GoodIndex(c, Finished(Recorded(index, base, marks), done))
    BY RecordedGood DEF marks
  <2> QED BY <1>1, <2>1 DEF marks
<1>3. r.offset - base \in Int /\ r.limit \in Nat
  BY PagingAssumption
<1>4. from = r.offset - base \/ ToSet(visible) = {}
  BY <1>3, WindowAt
<1>5. Objects \cap Refs(visible) \subseteq Prefetched(all, base, r)
  <2>1. CASE from = r.offset - base
    BY <2>1 DEF Prefetched
  <2>2. CASE ToSet(visible) = {}
    BY <2>2 DEF Refs
  <2> QED BY <1>4, <2>1, <2>2
<1>6. \A page \in reply.page : /\ IsPage(page)
                                /\ Objects \cap Refs(ShownBy(page)) \subseteq reply.reads
  <2> DEFINE p == Page(visible, total, base + from)
  <2>1. Refs(ShownBy(p)) = Refs(visible) /\ IsPage(p)
    BY PageLists
  <2> HIDE DEF p, visible, reply
  <2> QED BY <1>1, <1>5, <2>1 DEF p
<1>7. {"page", "index", "reads"} \subseteq DOMAIN reply
  BY DEF Reply
<1> HIDE DEF reply
<1> QED BY <1>2, <1>6, <1>7 DEF Sane, reply

-----------------------------------------------------------------------------
(* Maps, sets, lists and arrays                                            *)

\* No second field of these names leads elsewhere.
LEMMA OneBehind ==
    ASSUME NEW id \in Holders, NEW name \in {"map", "table", "elementData"}, NEW kind,
           NEW x \in Behind(id, name, kind)
    PROVE  Behind(id, name, kind) = {x}
<1>1. PICK f \in Fields(id) : f.name = name /\ f.type = "ref" /\ f.value = x
  BY DEF Behind, Fields
<1>2. ASSUME NEW y \in Behind(id, name, kind)
      PROVE  y = x
  <2>1. PICK g \in Fields(id) : g.name = name /\ g.type = "ref" /\ g.value = y
    BY DEF Behind, Fields
  <2> QED BY <1>1, <2>1, HeapAssumption
<1> QED BY <1>2

LEMMA TheOne == ASSUME NEW x PROVE The({x}) = x
BY DEF The

\* The table of a collection that is walked by its slots.
LEMMA TablesAre ==
    ASSUME NEW c, TablesOf(c) # {}
    PROVE  /\ c \in Objects /\ Heap[c].class \in Chained \cup Sets
           /\ TablesOf(c) = {TableOf(c)} /\ TableOf(c) \in Seq(Int)
           /\ \A m \in MapBehind(c), t \in ObjectArrays :
                 t \in Behind(m, "table", ObjectArrays) => Heap[t].elements = TableOf(c)
<1>1. c \in Objects /\ Heap[c].class \in Chained \cup Sets
  BY DEF TablesOf
<1>2. TablesOf(c) = {Heap[t].elements : t \in UNION {Behind(m, "table", ObjectArrays) : m \in MapBehind(c)}}
  BY <1>1 DEF TablesOf
<1>3. PICK m \in MapBehind(c) : \E t : t \in Behind(m, "table", ObjectArrays)
  BY <1>2
<1>0. c \in Holders
  BY <1>1 DEF Holders, Counted
<1>4. MapBehind(c) = {m} /\ m \in Objects /\ m \in Holders
  <2>1. CASE Heap[c].class \in Sets
    <3>1. MapBehind(c) = Behind(c, "map", Objects)
      BY <1>1, <2>1 DEF MapBehind
    <3>2. Behind(c, "map", Objects) = {m}
      BY <1>0, <1>3, <3>1, OneBehind
    <3>3. m \in Objects
      BY <3>2 DEF Behind
    <3>4. m \in Holders
      BY <1>1, <2>1, <3>2 DEF Holders
    <3> QED BY <3>1, <3>2, <3>3, <3>4
  <2>2. CASE Heap[c].class \notin Sets
    BY <1>0, <1>1, <1>3, <2>2 DEF MapBehind
  <2> QED BY <2>1, <2>2
<1> PICK t : t \in Behind(m, "table", ObjectArrays)
  BY <1>3
<1>5. Behind(m, "table", ObjectArrays) = {t} /\ t \in ObjectArrays
  <2>1. Behind(m, "table", ObjectArrays) = {t}
    BY <1>4, OneBehind
  <2> QED BY <2>1 DEF Behind
<1>6. TablesOf(c) = {Heap[t].elements}
  BY <1>2, <1>4, <1>5
<1>7. TableOf(c) = Heap[t].elements
  BY <1>6, TheOne DEF TableOf
<1>8. Heap[t].elements \in Seq(Int)
  BY <1>5, HeapAssumption
<1> QED BY <1>1, <1>4, <1>5, <1>6, <1>7, <1>8

\* A walker's marks fit, from the first entry on.
LEMMA WalkedIs ==
    ASSUME NEW c, TablesOf(c) # {}
    PROVE  /\ Walked(c) = MapWalk(TableOf(c), StartAt(TableOf(c), 1), Unbounded).marks
           /\ MarksFit(c, 0, Walked(c)) /\ Len(Walked(c)) \in Nat
<1>1. Walked(c) = MapWalk(TableOf(c), StartAt(TableOf(c), 1), Unbounded).marks
  <2>1. Heap[c].class # "LinkedList"
    BY TablesAre DEF Chained, Sets
  <2> QED BY <2>1 DEF Walked, TableOf
<1>2. TableOf(c) \in Seq(Int) /\ Unbounded \in Int
  BY TablesAre, UnboundedIs
<1> DEFINE T == TableOf(c)
           v == MapWalk(T, StartAt(T, 1), Unbounded)
<1>3. Stands(T, 0, {}, StartAt(T, 1))
  BY <1>2, HeadStands
<1>4. Stands(T, 0, {}, v)
  <2> HIDE DEF T
  <2> QED BY <1>2, <1>3, WalkStands DEF T
<1>5. /\ v.marks \in Seq(Place)
      /\ \A m \in 1..Len(v.marks) : Reached(T, 0 + m - 1, v.marks[m])
  BY <1>4 DEF Stands, Walks
<1> HIDE DEF v
<1>6. MarksFit(c, 0, v.marks) /\ Len(v.marks) \in Nat
  BY <1>5 DEF MarksFit
<1> QED BY <1>1, <1>6 DEF v

\* A page of a walk that stands at an entry.
LEMMA PageFromSane ==
    ASSUME NEW c, TablesOf(c) # {}, NEW index, GoodIndex(c, index), NEW base \in Nat,
           \A si \in index : base <= SkipInterval * Len(si.checkpoints),
           NEW K, NEW start, Stands(TableOf(c), base, K, start),
           NEW target \in Int, NEW total, NEW valueName, NEW r \in Ranges, NEW batched
    PROVE  Sane(c, PageFrom(start, base, target, TableOf(c), total, valueName, r, index, batched))
<1> DEFINE T == TableOf(c)
           walk == MapWalk(T, start, target)
           all == [i \in DOMAIN walk.marks |-> Pair(walk.marks[i], valueName)]
           done == Exhausted(walk, target)
           N == Len(walk.marks)
<1>1. T \in Seq(Int) /\ Len(T) \in Nat
  BY TablesAre
<1>2. Stands(T, base, K, walk) /\ (done => walk.slot > Len(T))
  <2> HIDE DEF T
  <2>1. Stands(T, base, K, start)
    BY DEF T
  <2> QED BY <1>1, <2>1, WalkStands DEF Exhausted
<1>3. walk.marks \in Seq(Place) /\ N \in Nat /\ DOMAIN walk.marks = 1..N
  BY <1>2 DEF Stands, Walks
<1>4. MarksFit(c, base, walk.marks)
  <2> HIDE DEF walk
  <2> QED BY <1>2, <1>3 DEF Stands, MarksFit
<1>5. Len(Walked(c)) \in Nat
  BY WalkedIs
<1>6. ASSUME done
      PROVE  Len(Walked(c)) <= base + N
  <2> DEFINE L == K \cup walk.seen
  <2>1. Covers(T, L, base + N, walk.slot, walk.node) /\ walk.node = 0 /\ walk.slot = Len(T) + 1
    <3> HIDE DEF walk, T
    <3> QED BY <1>1, <1>2, <1>6 DEF Stands, Walks
  <2>2. L \in SUBSET Objects /\ Cardinality(L) <= base + N
    BY <2>1 DEF Covers
  <2>3. \A y \in L : NextOf(y) \in L \/ NextOf(y) \notin Objects
    <3> HIDE DEF walk, L
    <3> QED BY <2>1, ObjectsFinite DEF Covers
  <2>4. \A t \in 1..Len(T) : T[t] \in L \/ T[t] \notin Objects
    <3> HIDE DEF walk, L, T
    <3>1. (Len(T) + 1) - 1 = Len(T)
      BY <1>1
    <3> QED BY <2>1, <3>1, ObjectsFinite DEF Covers
  <2>5. Len(MapWalk(T, StartAt(T, 1), Unbounded).marks) <= Cardinality(L)
    <3> HIDE DEF walk, L, T
    <3> QED BY <1>1, <2>2, <2>3, <2>4, WalkWithin
  <2>6. Len(Walked(c)) <= Cardinality(L) /\ Cardinality(L) \in Nat
    <3> HIDE DEF L
    <3> QED BY <2>2, <2>5, WalkedIs, ObjectsFinite
  <2> HIDE DEF L, N
  <2> QED BY <1>3, <1>5, <2>2, <2>6
<1>7. Len(all) = N
  BY <1>3
<1>8. PageFrom(start, base, target, T, total, valueName, r, index, batched)
        = Reply(walk, all, base, Lesser(r.offset - base, N), total, r, index, done, batched)
  BY DEF PageFrom, PageOfWalk
<1>9. Sane(c, Reply(walk, all, base, Lesser(r.offset - base, N), total, r, index, done, batched))
  <2>1. Len(all) \in Nat /\ N \in Int /\ Len(all) <= N
    BY <1>3, <1>7
  <2>2. done /\ TablesOf(c) # {} => Len(Walked(c)) <= base + Len(walk.marks)
    BY <1>6
  <2> HIDE DEF walk, all, done
  <2> QED BY <1>4, <1>5, <2>1, <2>2, ReplySane
<1> QED BY <1>8, <1>9

\* The nearest checkpoint is one of the skip-index, before the range.
LEMMA NearestIs ==
    ASSUME NEW c, NEW index, GoodIndex(c, index), NEW r \in Ranges, NEW cp \in Nearest(index, r)
    PROVE  /\ cp.index \in Nat /\ cp.node \in Place
           /\ \A si \in index : cp.index <= SkipInterval * Len(si.checkpoints)
           /\ TablesOf(c) # {} => Reached(TableOf(c), cp.index, cp.node)
<1>1. PICK si \in index : si.checkpoints # <<>> /\ cp = SI!NearestBefore(si, r.offset)
  BY DEF Nearest
<1> DEFINE i == SI!NearestPosition(si, r.offset)
           L == Len(si.checkpoints)
           I == SkipInterval
<1>2. r.offset \in Nat /\ I \in Nat \ {0} /\ Fits(c, si) /\ si.checkpoints \in Seq(Place)
      /\ L \in Nat \ {0}
  <2>1. r.offset \in Nat /\ I \in Nat \ {0} /\ Fits(c, si) /\ si.checkpoints \in Seq(Place)
    BY PagingAssumption DEF GoodIndex, Good, Fits, Indexes
  <2> QED BY <1>1, <2>1
<1>3. i \in 0..(L - 1)
  <2>1. r.offset \div I \in Nat
    BY <1>2
  <2> QED BY <1>2, <2>1 DEF SI!NearestPosition
<1>4. cp = [index |-> i * I, node |-> si.checkpoints[i + 1]]
  BY <1>1 DEF SI!NearestBefore
<1> HIDE DEF i
<1>5. i + 1 \in 1..L /\ ((i + 1) - 1) * I = i * I /\ i \in Nat /\ i <= L
  BY <1>2, <1>3
<1>6. cp.index \in Nat /\ cp.index = i * I /\ cp.node = si.checkpoints[i + 1]
  BY <1>2, <1>4, <1>5
<1>7. cp.node \in Place
  BY <1>2, <1>5, <1>6
<1>8. cp.index <= I * L
  <2>1. I * i <= I * L
    BY <1>2, <1>5, TimesMore
  <2>2. I * i = i * I
    BY <1>2, <1>5
  <2> QED BY <1>6, <2>1, <2>2
<1>9. TablesOf(c) # {} => Reached(TableOf(c), cp.index, cp.node)
  BY <1>2, <1>5, <1>6 DEF Fits
<1>10. \A sj \in index : sj = si
  BY DEF GoodIndex
<1> QED BY <1>6, <1>7, <1>8, <1>9, <1>10

LEMMA PageFromHeadSane ==
    ASSUME NEW c, TablesOf(c) # {}, NEW index, GoodIndex(c, index),
           NEW total, NEW valueName, NEW r \in Ranges, NEW known, NEW batched
    PROVE  Sane(c, PageFromHead(TableOf(c), total, valueName, r, index, known, batched))
<1> DEFINE T == TableOf(c)
           b == batched \cup Heads(T, 1, known \cup batched)
<1>1. r.offset + r.limit \in Int
  BY PagingAssumption
<1>2. Stands(T, 0, {}, StartAt(T, 1))
  BY TablesAre, HeadStands
<1>3. \A si \in index : 0 <= SkipInterval * Len(si.checkpoints)
  BY PagingAssumption DEF GoodIndex, Good, Fits, Indexes
<1>4. Sane(c, PageFrom(StartAt(T, 1), 0, r.offset + r.limit, T, total, valueName, r, index, b))
  <2> HIDE DEF b
  <2> QED BY <1>1, <1>2, <1>3, PageFromSane
<1> QED BY <1>4 DEF PageFromHead

LEMMA PageOfTableSane ==
    ASSUME NEW c, TablesOf(c) # {}, NEW index, GoodIndex(c, index),
           NEW total, NEW valueName, NEW r \in Ranges, NEW known
    PROVE  Sane(c, PageOfTable(Nearest(index, r), TableOf(c), total, valueName, r, index, known))
<1> DEFINE T == TableOf(c)
           cp == The(Nearest(index, r))
<1>1. CASE Nearest(index, r) = {}
  BY <1>1, PageFromHeadSane DEF PageOfTable
<1>2. CASE Nearest(index, r) # {}
  <2>1. cp \in Nearest(index, r)
    BY <1>2 DEF The
  <2> DEFINE start == Resume(StartAt(T, cp.node[1]), cp.node[2])
             heads == Heads(T, cp.node[1], known)
  <2>2. PageOfTable(Nearest(index, r), T, total, valueName, r, index, known)
          = PageResumed(cp, start, heads, T, total, valueName, r, index, known)
    BY <1>2 DEF PageOfTable
  <2> HIDE DEF cp
  <2>3. /\ cp.index \in Nat /\ Reached(T, cp.index, cp.node)
        /\ \A si \in index : cp.index <= SkipInterval * Len(si.checkpoints)
    BY <2>1, NearestIs
  <2>4. start.node = cp.node[2] /\ \E K : Stands(T, cp.index, K, start)
    <3>1. T \in Seq(Int)
      BY TablesAre
    <3> HIDE DEF T
    <3> QED BY <2>3, <3>1, ResumeStands
  <2>5. start.node # 0
    BY <2>3, <2>4, ObjectsFinite DEF Reached, Place
  <2>6. PageResumed(cp, start, heads, T, total, valueName, r, index, known)
          = PageFrom(start, cp.index, r.offset - cp.index + r.limit, T, total, valueName, r, index,
                     heads)
    <3> HIDE DEF start, heads
    <3> QED BY <2>5 DEF PageResumed
  <2>7. r.offset - cp.index + r.limit \in Int
    BY <2>3, PagingAssumption
  <2>8. Sane(c, PageFrom(start, cp.index, r.offset - cp.index + r.limit, T, total, valueName, r,
                         index, heads))
    <3> HIDE DEF start, heads
    <3> QED BY <2>3, <2>4, <2>7, PageFromSane
  <2> QED BY <2>2, <2>6, <2>8
<1> QED BY <1>1, <1>2

LEMMA NoPageSane ==
    ASSUME NEW c, NEW index, GoodIndex(c, index)
    PROVE  Sane(c, NoPage(index))
BY DEF Sane, NoPage

\* A page of the map m that a collection is, or has behind it.
LEMMA PageOfMapSane ==
    ASSUME NEW c, c \in Objects, Heap[c].class \in Chained \cup Sets, NEW m \in MapBehind(c),
           NEW index, GoodIndex(c, index), NEW valueName, NEW r \in Ranges, NEW known
    PROVE  Sane(c, PageOfMap(m, valueName, r, index, known))
<1> DEFINE size == IntCalled(m, Counts)
           table == Behind(m, "table", ObjectArrays)
<1>1. CASE size = {} \/ table = {}
  BY <1>1, NoPageSane DEF PageOfMap
<1>2. CASE ~(size = {} \/ table = {})
  <2>1. The(table) \in table /\ The(table) \in ObjectArrays
    BY <1>2 DEF The, Behind
  <2>2. TablesOf(c) # {}
    <3> HIDE DEF table
    <3>1. Heap[The(table)].elements \in TablesOf(c)
      BY <2>1 DEF TablesOf, table
    <3> QED BY <3>1
  <2>3. Heap[The(table)].elements = TableOf(c)
    BY <2>1, <2>2, TablesAre
  <2>4. PageOfMap(m, valueName, r, index, known)
          = PageOfTable(Nearest(index, r), TableOf(c), The(size), valueName, r, index, known)
    BY <1>2, <2>3 DEF PageOfMap
  <2> QED BY <2>2, <2>4, PageOfTableSane
<1> QED BY <1>1, <1>2

LEMMA KeysShow ==
    ASSUME NEW page, IsPage(page)
    PROVE  /\ IsPage(Keys(page))
           /\ Objects \cap Refs(ShownBy(Keys(page))) \subseteq Refs(ShownBy(page))
<1> PICK visible : Lists(page, visible)
  BY DEF IsPage
<1> DEFINE keys == [i \in DOMAIN visible |-> Single(visible[i].key)]
           es == page.entries
           ks == [i \in DOMAIN es |-> KeyOnly(es[i])]
<1>1. /\ "entries" \in DOMAIN page /\ DOMAIN es = DOMAIN visible
      /\ \A i \in DOMAIN visible : "entry" \in DOMAIN es[i] /\ es[i].entry = visible[i]
  BY DEF Lists
<1>2. Keys(page) = [page EXCEPT !.entries = ks]
  BY DEF Keys
<1>3. Lists(Keys(page), keys)
  <2> HIDE DEF es
  <2>1. DOMAIN ks = DOMAIN keys
    BY <1>1
  <2>2. ASSUME NEW i \in DOMAIN visible
        PROVE  "entry" \in DOMAIN ks[i] /\ ks[i].entry = keys[i]
    BY <1>1 DEF KeyOnly
  <2> HIDE DEF ks
  <2>3. "entries" \in DOMAIN Keys(page) /\ Keys(page).entries = ks
    BY <1>1, <1>2
  <2> QED BY <2>1, <2>2, <2>3 DEF Lists
<1>4. Refs(ShownBy(Keys(page))) = Refs(keys) /\ Refs(ShownBy(page)) = Refs(visible)
  <2> HIDE DEF keys
  <2> QED BY <1>3, PageShows
<1>5. Objects \cap Refs(keys) \subseteq Refs(visible)
  <2>1. ASSUME NEW x \in Refs(keys), x \in Objects
        PROVE  x \in Refs(visible)
    <3>1. PICK i \in DOMAIN visible : x = IdOf(Null) \/ x = IdOf(visible[i].key)
      BY <2>1 DEF Refs, ToSet, Single
    <3>2. x # IdOf(Null)
      BY <2>1, ObjectsFinite DEF IdOf, Null
    <3> QED BY <3>1, <3>2 DEF Refs, ToSet
  <2> QED BY <2>1
<1> QED BY <1>3, <1>4, <1>5 DEF IsPage

LEMMA PageOfSetSane ==
    ASSUME NEW c \in Objects, Heap[c].class \in Sets,
           NEW index, GoodIndex(c, index), NEW r \in Ranges, NEW known
    PROVE  Sane(c, PageOfSet(c, r, index, known))
<1> DEFINE maps == Behind(c, "map", Objects)
           m == The(maps)
           inner == PageOfMap(m, "value", r, index, known)
<1>1. CASE maps = {}
  BY <1>1, NoPageSane DEF PageOfSet
<1>2. CASE maps # {}
  <2>1. m \in MapBehind(c)
    BY <1>2 DEF The, MapBehind
  <2>2. Sane(c, inner)
    <3> HIDE DEF m
    <3> QED BY <2>1, PageOfMapSane
  <2>3. PageOfSet(c, r, index, known)
          = [inner EXCEPT !.page = {Keys(p) : p \in @}, !.reads = @ \cup maps]
    BY <1>2 DEF PageOfSet
  <2> HIDE DEF inner, maps
  <2> DEFINE reply == [inner EXCEPT !.page = {Keys(p) : p \in @}, !.reads = @ \cup maps]
  <2>4. /\ reply.page = {Keys(p) : p \in inner.page} /\ reply.reads = inner.reads \cup maps
        /\ reply.index = inner.index /\ {"page", "index", "reads"} \subseteq DOMAIN reply
    BY <2>2 DEF Sane
  <2> HIDE DEF reply
  <2>5. ASSUME NEW p \in inner.page
        PROVE  IsPage(Keys(p)) /\ Objects \cap Refs(ShownBy(Keys(p))) \subseteq reply.reads
    <3>1. IsPage(p) /\ Objects \cap Refs(ShownBy(p)) \subseteq inner.reads
      BY <2>2 DEF Sane
    <3> QED BY <2>4, <3>1, KeysShow
  <2>6. Sane(c, reply)
    BY <2>2, <2>4, <2>5 DEF Sane
  <2> QED BY <2>3, <2>6 DEF reply
<1> QED BY <1>1, <1>2

\* A declared size is a natural number.
LEMMA IntCalledIs ==
    ASSUME NEW id \in Objects, NEW names
    PROVE  IntCalled(id, names) \subseteq Nat
<1> DEFINE I == {i \in 1..Len(Heap[id].fields) : /\ Heap[id].fields[i].name \in names
                                                 /\ Heap[id].fields[i].type = "int"}
           at == IF I = {} THEN 0 ELSE Max(I)
<1>1. I # {} => at \in I
  <2>1. I \subseteq 1..Len(Heap[id].fields) /\ Len(Heap[id].fields) \in Nat
    BY FieldsAre
  <2> HIDE DEF I
  <2>2. ASSUME I # {} PROVE Max(I) \in I
    BY <2>1, <2>2, IntervalMaximum
  <2> QED BY <2>2
<1>2. IntCalled(id, names) = IF at = 0 THEN {}
          ELSE {IF Heap[id].fields[at].value < 0 THEN 0 ELSE Heap[id].fields[at].value}
  BY DEF IntCalled, SelectLastInSeq
<1>3. at # 0 => Heap[id].fields[at].value \in Int
  BY <1>1, FieldsAre DEF Field
<1> HIDE DEF at
<1> QED BY <1>2, <1>3

\* A walk of a list takes at most what it is asked for.
LEMMA ListWalkWithin ==
    ASSUME NEW node \in Int, NEW target \in Int, NEW bound \in Nat, target <= bound
    PROVE  LET w == ListWalk([StartAt(<<>>, 1) EXCEPT !.node = node], target)
           IN  w.marks \in Seq(Place) /\ Len(w.marks) <= bound
<1> DEFINE start == [StartAt(<<>>, 1) EXCEPT !.node = node]
           V == {w \in [from : {1}, slot : {1}, node : Int, marks : Seq(Place),
                        seen : SUBSET Objects] : Len(w.marks) <= bound}
<1>1. start \in V
  <2> DEFINE s == StartAt(<<>>, 1)
  <2>1. s.marks = <<>> /\ s \in [from : {1}, slot : {1}, node : Int, marks : Seq(Place), seen : SUBSET Objects]
    BY DEF StartAt
  <2> HIDE DEF s
  <2>2. [s EXCEPT !.node = node] \in V
    BY <2>1
  <2> QED BY <2>2 DEF s
<1>2. ASSUME NEW w \in V
      PROVE  ListStep(w, target) \in V
  <2>1. CASE Len(w.marks) >= target \/ Ends(w)
    BY <2>1 DEF ListStep
  <2>2. CASE ~(Len(w.marks) >= target \/ Ends(w))
    <3> DEFINE x == w.node
               ms == Append(w.marks, Mark(w))
               sn == w.seen \cup {x}
               nx == NextOf(x)
    <3>1. ListStep(w, target) = [w EXCEPT !.marks = ms, !.seen = sn, !.node = nx]
      BY <2>2 DEF ListStep, Take
    <3>2. x \in Objects
      BY <2>2 DEF Ends
    <3>3. ms \in Seq(Place) /\ Len(ms) = Len(w.marks) + 1
      BY <3>2 DEF Mark, Place
    <3>4. Len(ms) <= bound
      BY <2>2, <3>3
    <3>5. sn \in SUBSET Objects /\ nx \in Int
      BY <3>2, NextOfIs
    <3> HIDE DEF ms, sn, nx
    <3> QED BY <3>1, <3>3, <3>4, <3>5
  <2> QED BY <2>1, <2>2
<1>3. ListWalk(start, target) \in V
  <2>0. \A w \in V : ListStep(w, target) \in V
    BY <1>2
  <2> HIDE DEF V, start
  <2> QED BY <1>1, <2>0, ListWalkStays
<1> QED BY <1>3

LEMMA PageOfLinkedListSane ==
    ASSUME NEW c \in Objects, Heap[c].class = "LinkedList",
           NEW index, GoodIndex(c, index), NEW r \in Ranges
    PROVE  Sane(c, PageOfLinkedList(c, r, index))
<1> DEFINE size == IntCalled(c, {"size"})
           total == The(size)
           first == [index |-> 0, node |-> <<1, IdOf(FieldCalled(c, "first"))>>]
           near == Nearest(index, r)
           cp == IF near = {} THEN first ELSE The(near)
<1>1. CASE size = {}
  BY <1>1, NoPageSane DEF PageOfLinkedList
<1>2. CASE size # {}
  <2>1. total \in Nat
    BY <1>2, IntCalledIs DEF The
  <2>2. TablesOf(c) = {}
    BY DEF TablesOf, Chained, Sets
  <2>3. /\ cp.index \in Nat /\ cp.node[2] \in Int
        /\ \A si \in index : cp.index <= SkipInterval * Len(si.checkpoints)
    <3>1. CASE near = {}
      <4>1. cp.index = 0 /\ cp.node[2] = IdOf(FieldCalled(c, "first"))
        BY <3>1
      <4>2. IdOf(FieldCalled(c, "first")) \in Int
        BY FieldCalledIs DEF IdOf
      <4>3. \A si \in index : SkipInterval * Len(si.checkpoints) \in Nat
        BY PagingAssumption DEF GoodIndex, Good, Fits, Indexes
      <4> QED BY <4>1, <4>2, <4>3
    <3>2. CASE near # {}
      <4>1. cp \in near
        BY <3>2 DEF The
      <4>2. /\ cp.index \in Nat /\ cp.node \in Place
            /\ \A si \in index : cp.index <= SkipInterval * Len(si.checkpoints)
        <5> HIDE DEF cp
        <5> QED BY <4>1, NearestIs
      <4> HIDE DEF cp
      <4>3. cp.node[2] \in DOMAIN Heap
        BY <4>2 DEF Place, Objects
      <4> QED BY <4>2, <4>3, HeapAssumption
    <3> QED BY <3>1, <3>2
  <2>4. PageOfLinkedList(c, r, index) = PageOfChain(cp, total, r, index)
    BY <1>2 DEF PageOfLinkedList
  <2> HIDE DEF cp, total
  <2> DEFINE target == Lesser(r.offset - cp.index + r.limit,
                              IF total > cp.index THEN total - cp.index ELSE 0)
             walk == ListWalk([StartAt(<<>>, 1) EXCEPT !.node = cp.node[2]], target)
             all == [i \in DOMAIN walk.marks |-> Single(FieldCalled(walk.marks[i][2], "item"))]
  <2>5. PageOfChain(cp, total, r, index)
          = Reply(walk, all, cp.index, Lesser(r.offset - cp.index, total), total, r, index,
                  walk.node = 0, {})
    BY DEF PageOfChain, PageOfItems
  <2>6. target \in Int /\ target <= total
    BY <2>1, <2>3, PagingAssumption DEF Lesser
  <2>7. walk.marks \in Seq(Place) /\ Len(walk.marks) <= total
    <3> HIDE DEF target
    <3> QED BY <2>1, <2>3, <2>6, ListWalkWithin
  <2>8. Len(all) = Len(walk.marks) /\ Len(all) \in Nat
    BY <2>7
  <2>9. MarksFit(c, cp.index, walk.marks)
    BY <2>2, <2>7 DEF MarksFit
  <2>10. Sane(c, Reply(walk, all, cp.index, Lesser(r.offset - cp.index, total), total, r, index,
                       walk.node = 0, {}))
    <3> DEFINE done == walk.node = 0
    <3>1. Len(all) <= total /\ total \in Int
      BY <2>1, <2>7, <2>8
    <3> HIDE DEF walk, all, done
    <3>2. Sane(c, Reply(walk, all, cp.index, Lesser(r.offset - cp.index, total), total, r, index,
                       done, {}))
      BY <2>2, <2>3, <2>8, <2>9, <3>1, ReplySane
    <3> QED BY <3>2 DEF done
  <2> QED BY <2>4, <2>5, <2>10
<1> QED BY <1>1, <1>2

LEMMA IdOfDescribed ==
    ASSUME NEW id
    PROVE  IdOf(Described(id)) = id
<1>1. CASE id = 0
  <2>1. id \notin Objects /\ id \notin ObjectArrays /\ id \notin PrimArrays
    BY <1>1, HeapAssumption DEF Objects, ObjectArrays, PrimArrays
  <2> QED BY <1>1, <2>1 DEF Described, IdOf, Null
<1>2. CASE id # 0
  <2>1. \E class, count : Described(id) = Reference(id, class, count)
    BY <1>2 DEF Described
  <2> QED BY <2>1 DEF Reference, IdOf
<1> QED BY <1>1, <1>2

LEMMA PageOfArraySane ==
    ASSUME NEW c, NEW array, NEW total, NEW index, GoodIndex(c, index), NEW r \in Ranges
    PROVE  Sane(c, PageOfArray(array, total, r, index))
<1> DEFINE ids == SubSeq(Heap[array].elements, 1, total)
           from == Lesser(r.offset, total)
           visible == Window(ids, from, r.limit)
           entries == [i \in DOMAIN visible |-> Single(Described(visible[i]))]
           reply == PageOfArray(array, total, r, index)
<1>1. reply = [page |-> {Page(entries, total, from)}, index |-> index,
               reads |-> Objects \cap ToSet(visible)]
  BY DEF PageOfArray
<1> HIDE DEF visible, reply
<1>2. Objects \cap Refs(entries) \subseteq Objects \cap ToSet(visible)
  <2>1. ASSUME NEW x \in Refs(entries), x \in Objects
        PROVE  x \in ToSet(visible)
    <3>1. PICK i \in DOMAIN visible : x = IdOf(Null) \/ x = IdOf(Described(visible[i]))
      BY <2>1 DEF Refs, ToSet, Single
    <3>2. x # IdOf(Null)
      BY <2>1, ObjectsFinite DEF IdOf, Null
    <3> QED BY <3>1, <3>2, IdOfDescribed DEF ToSet
  <2> QED BY <2>1
<1> HIDE DEF entries, from
<1> QED BY <1>1, <1>2, PageLists DEF Sane, reply

LEMMA PageOfBytesSane ==
    ASSUME NEW c, NEW array \in PrimArrays, NEW index, GoodIndex(c, index), NEW r \in Ranges
    PROVE  Sane(c, PageOfBytes(array, r, index))
<1> DEFINE size == Heap[array].size
           total == Elements(array)
           all == [i \in 1..total |-> Single(Primitive(array, i))]
           from == Lesser(r.offset, total)
           visible == Window(all, from, r.limit)
           reply == PageOfBytes(array, r, index)
<1>1. reply = [page |-> {Page(visible, total, from)}, index |-> index, reads |-> {}]
  BY DEF PageOfBytes
<1>2. total \in Nat /\ r.offset \in Nat /\ r.limit \in Nat
  <2>1. size \in Nat /\ Len(Heap[array].bytes) \in Nat
    BY HeapAssumption
  <2>2. size # 0 => Len(Heap[array].bytes) \div size \in Nat
    BY <2>1
  <2> QED BY <2>1, <2>2, PagingAssumption DEF Elements
<1>3. Len(all) = total
  BY <1>2
<1>4. from \in Nat /\ Lesser(from + r.limit, total) \in Nat /\ Lesser(from + r.limit, total) <= total
  BY <1>2 DEF Lesser
<1>5. ASSUME NEW e \in ToSet(visible)
      PROVE  e.key = Null /\ e.value.type = "prim"
  <2> DEFINE n == Lesser(from + r.limit, total)
  <2>1. visible = SubSeq(all, from + 1, n)
    BY <1>3 DEF Window
  <2> HIDE DEF total, from, n, all
  <2> DEFINE s == SubSeq(all, from + 1, n)
  <2>5. /\ DOMAIN s = 1..(1 + n - (from + 1))
        /\ \A i \in 1..(1 + n - (from + 1)) : s[i] = all[i + (from + 1) - 1]
    <3>1. n \in Int /\ from + 1 \in Int
      BY <1>4 DEF n
    <3> QED BY <3>1
  <2> HIDE DEF s
  <2>2. PICK i \in 1..(1 + n - (from + 1)) : e = all[i + (from + 1) - 1]
    BY <2>1, <2>5 DEF ToSet, s
  <2>3. i + (from + 1) - 1 \in 1..total
    BY <1>2, <1>4, <2>2 DEF n
  <2>4. \A j \in 1..total : all[j].key = Null /\ all[j].value.type = "prim"
    BY DEF all, Single, Primitive
  <2> QED BY <2>2, <2>3, <2>4
<1> HIDE DEF visible, reply, from, total
<1>6. Objects \cap Refs(visible) \subseteq {}
  BY <1>5, ObjectsFinite DEF Refs, IdOf, Null
<1> QED BY <1>1, <1>6, PageLists DEF Sane, reply

\* Every reply is sane.
LEMMA ExtractSane ==
    ASSUME NEW c, NEW index, GoodIndex(c, index), NEW r \in Ranges, NEW known
    PROVE  Sane(c, Extract(c, r, index, known))
<1>1. CASE c \in ObjectArrays
  <2>1. c \notin Objects /\ c \notin PrimArrays
    BY <1>1 DEF Objects, ObjectArrays, PrimArrays
  <2>2. Extract(c, r, index, known) = PageOfArray(c, Len(Heap[c].elements), r, index)
    BY <1>1, <2>1 DEF Extract
  <2> QED BY <2>2, PageOfArraySane
<1>2. CASE c \in PrimArrays
  <2>1. c \notin Objects /\ c \notin ObjectArrays
    BY <1>2 DEF Objects, ObjectArrays, PrimArrays
  <2>2. Extract(c, r, index, known) = PageOfBytes(c, r, index)
    BY <1>2, <2>1 DEF Extract
  <2> QED BY <1>2, <2>2, PageOfBytesSane
<1>3. CASE c \in Objects
  <2> DEFINE class == Heap[c].class
             reply == PageOfInstance(c, class, r, index, known)
  <2>1. Extract(c, r, index, known) = reply
    <3>1. c \notin ObjectArrays /\ c \notin PrimArrays
      BY <1>3 DEF Objects, ObjectArrays, PrimArrays
    <3> QED BY <1>3, <3>1 DEF Extract
  <2>2. CASE class \in ArrayLists
    <3>1. reply = PageOfArrayList(c, r, index)
      BY <2>2 DEF PageOfInstance, ArrayLists, Sets
    <3>2. reply = NoPage(index) \/ \E array, total : reply = PageOfArray(array, total, r, index)
      BY <3>1 DEF PageOfArrayList
    <3> QED BY <2>1, <3>2, NoPageSane, PageOfArraySane
  <2>3. CASE class \in Chained
    <3>1. \E valueName : reply = PageOfMap(c, valueName, r, index, known)
      BY <2>3 DEF PageOfInstance, ArrayLists, Sets, Chained
    <3>2. c \in MapBehind(c)
      BY <2>3 DEF MapBehind, Chained, Sets
    <3> QED BY <1>3, <2>1, <2>3, <3>1, <3>2, PageOfMapSane
  <2>4. CASE class \in Sets
    <3>1. reply = PageOfSet(c, r, index, known)
      BY <2>4 DEF PageOfInstance, ArrayLists, Sets
    <3> QED BY <1>3, <2>1, <2>4, <3>1, PageOfSetSane
  <2>5. CASE class = "LinkedList"
    <3>1. reply = PageOfLinkedList(c, r, index)
      BY <2>5 DEF PageOfInstance, ArrayLists, Sets
    <3> QED BY <1>3, <2>1, <2>5, <3>1, PageOfLinkedListSane
  <2>6. CASE class \notin ArrayLists \cup Chained \cup Sets \cup {"LinkedList"}
    <3>1. reply = NoPage(index)
      BY <2>6 DEF PageOfInstance, Chained
    <3> QED BY <2>1, <3>1, NoPageSane
  <2> QED BY <2>2, <2>3, <2>4, <2>5, <2>6
<1>4. CASE c \notin Objects \cup ObjectArrays \cup PrimArrays
  <2>1. Extract(c, r, index, known) = NoPage(index)
    BY <1>4 DEF Extract
  <2> QED BY <2>1, NoPageSane
<1> QED BY <1>1, <1>2, <1>3, <1>4

-----------------------------------------------------------------------------
(* The session                                                             *)

\* Every skip-index leads where it says, and what was shown is in the cache.
PagesInv ==
    /\ \A c \in DOMAIN skip : Good(c, skip[c])
    /\ VisibleIsCached

LEMMA IndexGood ==
    ASSUME NEW c, \A d \in DOMAIN skip : Good(d, skip[d])
    PROVE  GoodIndex(c, IndexOf(c))
BY DEF GoodIndex, IndexOf

\* A new skip-index is good.
LEMMA NewGood ==
    ASSUME NEW c
    PROVE  GoodIndex(c, {SI!NewIndex}) /\ SI!NewIndex.checkpoints = <<>>
<1> DEFINE si == SI!NewIndex
<1>1. si = [checkpoints |-> <<>>, complete |-> FALSE]
  BY DEF SI!NewIndex
<1> HIDE DEF si
<1>2. si \in Indexes /\ Len(si.checkpoints) = 0 /\ ~si.complete /\ si.checkpoints = <<>>
  BY <1>1 DEF Indexes
<1> QED BY <1>2 DEF GoodIndex, Good, Fits, Full, si

LEMMA StoreGood ==
    ASSUME NEW c, NEW index, GoodIndex(c, index), \A d \in DOMAIN skip : Good(d, skip[d]),
           skip' = Store(c, index)
    PROVE  \A d \in DOMAIN skip' : Good(d, skip'[d])
<1>1. CASE index = {}
  BY <1>1 DEF Store
<1>2. CASE index # {}
  <2>1. Good(c, The(index))
    BY <1>2 DEF The, GoodIndex
  <2>2. skip' = [d \in DOMAIN skip \cup {c} |-> IF d = c THEN The(index) ELSE skip[d]]
    BY <1>2 DEF Store
  <2> QED BY <2>1, <2>2
<1> QED BY <1>1, <1>2

\* A request keeps the skip-indexes good and caches what it shows.
LEMMA GetPageKeeps ==
    ASSUME PagesInv, NEW c, NEW r \in Ranges, GetPage(c, r)
    PROVE  PagesInv'
<1> DEFINE index == IF IndexOf(c) = {} /\ r.offset > 0 THEN {SI!NewIndex} ELSE IndexOf(c)
           reply == Extract(c, r, index, cached \cup (Objects \cap {c}))
<1>1. GoodIndex(c, index)
  BY IndexGood, NewGood DEF PagesInv
<1>2. Sane(c, reply)
  <2> HIDE DEF index
  <2> QED BY <1>1, ExtractSane
<1>3. Answer(c, r, reply)
  BY DEF GetPage
<1> HIDE DEF reply
<1>4. \A d \in DOMAIN skip' : Good(d, skip'[d])
  BY <1>2, <1>3, StoreGood DEF Sane, Answer, PagesInv
<1>5. VisibleIsCached'
  <2>1. served'.page = reply.page /\ reply.reads \subseteq cached'
    BY <1>3 DEF Answer
  <2> QED BY <1>2, <2>1 DEF VisibleIsCached, Sane, ShownBy
<1> QED BY <1>4, <1>5 DEF PagesInv

\* A walker keeps the skip-indexes good.
LEMMA WalkKeeps ==
    ASSUME PagesInv, NEW c, WalkSome(c, Walked(c))
    PROVE  PagesInv'
<1>1. Walked(c) \in Seq(Place) /\ MarksFit(c, 0, Walked(c)) /\ Len(Walked(c)) \in Nat
  <2>1. CASE TablesOf(c) # {}
    BY <2>1, WalkedIs DEF MarksFit
  <2>2. CASE TablesOf(c) = {}
    <3>1. Walked(c) \in Seq(Place)
      <4>1. CASE c \in Objects /\ Heap[c].class = "LinkedList"
        <5> DEFINE node == IdOf(FieldCalled(c, "first"))
        <5>1. node \in Int
          BY <4>1, FieldCalledIs DEF IdOf
        <5>2. Walked(c) = ListWalk([StartAt(<<>>, 1) EXCEPT !.node = node], Unbounded).marks
          BY <4>1 DEF Walked
        <5> HIDE DEF node
        <5> QED BY <5>1, <5>2, UnboundedIs, ListWalkWithin
      <4>2. CASE ~(c \in Objects /\ Heap[c].class = "LinkedList")
        BY <2>2, <4>2 DEF Walked
      <4> QED BY <4>1, <4>2
    <3> QED BY <2>2, <3>1 DEF MarksFit
  <2> QED BY <2>1, <2>2
<1>2. ASSUME NEW marks, MarksFit(c, 0, marks), NEW done, Walk(c, marks, done),
             done => Len(Walked(c)) <= Len(marks)
      PROVE  PagesInv'
  <2> DEFINE index == IF marks # <<>> /\ IndexOf(c) = {} THEN {SI!NewIndex} ELSE IndexOf(c)
  <2>1. GoodIndex(c, index)
    BY IndexGood, NewGood DEF PagesInv
  <2>2. \A si \in index : 0 <= SkipInterval * Len(si.checkpoints)
    <3> HIDE DEF index
    <3> QED BY <2>1, PagingAssumption DEF GoodIndex, Good, Fits, Indexes
  <2>3. Len(marks) \in Nat /\ 0 + Len(marks) = Len(marks)
    BY <1>2 DEF MarksFit
  <2>4. GoodIndex(c, Finished(Recorded(index, 0, marks), done))
    <3> HIDE DEF index
    <3> QED BY <1>1, <1>2, <2>1, <2>2, <2>3, RecordedGood
  <2>5. skip' = Store(c, Finished(Recorded(index, 0, marks), done))
    BY <1>2 DEF Walk
  <2>6. cached \subseteq cached' /\ served' = served
    BY <1>2 DEF Walk
  <2>7. VisibleIsCached'
    BY <2>6 DEF PagesInv, VisibleIsCached
  <2> HIDE DEF index
  <2>8. \A d \in DOMAIN skip' : Good(d, skip'[d])
    BY <2>4, <2>5, StoreGood DEF PagesInv
  <2> QED BY <2>7, <2>8 DEF PagesInv
<1>3. CASE Walk(c, Walked(c), TRUE)
  <2> DEFINE w == Walked(c)
  <2>1. MarksFit(c, 0, w) /\ Len(w) \in Nat
    BY <1>1
  <2>3. Walk(c, w, TRUE)
    BY <1>3, Zenon
  <2>2. \A marks, done : /\ MarksFit(c, 0, marks) /\ Walk(c, marks, done)
                         /\ done => Len(w) <= Len(marks)
                         => PagesInv'
    BY <1>2
  <2> HIDE DEF w
  <2>4. Len(w) <= Len(w)
    BY <2>1
  <2> QED BY <2>1, <2>2, <2>3, <2>4, Zenon
<1>4. ASSUME NEW n \in 0..Len(Walked(c)), Walk(c, SubSeq(Walked(c), 1, n), FALSE)
      PROVE  PagesInv'
  <2> DEFINE all == Walked(c)
             marks == SubSeq(all, 1, n)
  <2> HIDE DEF all
  <2>1. /\ marks \in Seq(Place) /\ Len(marks) = n
        /\ \A m \in 1..n : m \in 1..Len(all) /\ marks[m] = all[m]
    BY <1>1, <1>4 DEF all
  <2>2. MarksFit(c, 0, marks)
    <3> HIDE DEF marks
    <3> QED BY <1>1, <2>1 DEF MarksFit, all
  <2> QED BY <1>2, <1>4, <2>2 DEF all
<1> QED BY <1>3, <1>4 DEF WalkSome

\* Every place a skip-index keeps leads back to its node, a complete one reaches
\* as far as the collection does, and what a page shows is in the cache.
THEOREM PagesSound == Spec => []PagesInv
<1>1. Init => PagesInv
  BY DEF Init, PagesInv, VisibleIsCached, Nothing
<1>2. PagesInv /\ [Next]_vars => PagesInv'
  <2> SUFFICES ASSUME PagesInv, [Next]_vars PROVE PagesInv'
    OBVIOUS
  <2>1. CASE Next
    BY <2>1, GetPageKeeps, WalkKeeps DEF Next
  <2>2. CASE UNCHANGED vars
    BY <2>2 DEF vars, PagesInv, VisibleIsCached
  <2> QED BY <2>1, <2>2
<1> QED BY <1>1, <1>2, PTL DEF Spec

LEMMA PagesInvFinds == PagesInv => ResumeFindsNode
<1> SUFFICES ASSUME PagesInv, NEW c \in DOMAIN skip, NEW i \in DOMAIN skip[c].checkpoints,
                    TablesOf(c) # {}
             PROVE  LET place == skip[c].checkpoints[i]
                    IN  /\ place[1] \in DOMAIN TableOf(c)
                        /\ Resume(StartAt(TableOf(c), place[1]), place[2]).node = place[2]
  BY DEF ResumeFindsNode, TableOf
<1> DEFINE p == skip[c].checkpoints[i]
           T == TableOf(c)
           n == (i - 1) * SkipInterval
<1>1. skip[c].checkpoints \in Seq(Place) /\ i \in 1..Len(skip[c].checkpoints)
  BY DEF PagesInv, Good, Fits, Indexes
<1>2. Reached(T, n, p)
  BY <1>1 DEF PagesInv, Good, Fits
<1>3. n \in Nat /\ T \in Seq(Int)
  BY <1>1, PagingAssumption, TablesAre
<1> HIDE DEF p, T, n
<1>4. p[1] \in DOMAIN T
  BY <1>2, <1>3 DEF Reached
<1>5. Resume(StartAt(T, p[1]), p[2]).node = p[2]
  BY <1>2, <1>3, ResumeStands
<1> QED BY <1>4, <1>5 DEF p, T

\* Whatever pages were asked for and whatever walks ran, and also where chains
\* run in circles or share nodes, a checkpoint of a map leads back to its node
\* (extract_hash_map, mod.rs:290-330).
THEOREM CheckpointsLeadBack == Spec => []ResumeFindsNode
BY PagesSound, PagesInvFinds, PTL

\* A skip-index marked complete has its checkpoint for every SKIP_INTERVAL-th
\* entry a walk from the head comes to (mark_complete, spawn_walker).
THEOREM CompleteMeansAll == Spec => []CompleteHasAll
<1>1. PagesInv => CompleteHasAll
  BY DEF PagesInv, Good, Full, CompleteHasAll
<1> QED BY <1>1, PagesSound, PTL

\* Every object a page shows has its place in the cache (the batch look-ups of
\* the visible window, mod.rs:400-421, 684-705, 780-786).
THEOREM ShownIsCached == Spec => []VisibleIsCached
<1>1. PagesInv => VisibleIsCached
  BY DEF PagesInv
<1> QED BY <1>1, PagesSound, PTL

-----------------------------------------------------------------------------
(* The order of a tidy collection                                          *)

\* Where the nodes of a chain lead, one after the other.
LEMMA PathIs ==
    ASSUME NEW n \in Int
    PROVE  LET p == Path(n)
           IN  /\ p \in Seq(Int) /\ Len(p) \in Nat \ {0} /\ p[1] = n
               /\ \A i \in 1..(Len(p) - 1) : p[i] \in Objects /\ p[i + 1] = NextOf(p[i])
<1> DEFINE N == Unbounded
           Leads0(p) == /\ Len(p) # 0 /\ p[1] = n
                        /\ \A i \in 1..(Len(p) - 1) : p[i] \in Objects /\ p[i + 1] = NextOf(p[i])
           V == {p \in Seq(Int) : Leads0(p)}
           step == [m \in 1..N |-> [v \in V |-> PathStep(v)]]
           Is(g) == g = [m \in 0..N |-> IF m = 0 THEN <<n>> ELSE PathStep(g[m - 1])]
           f == CHOOSE g : Is(g)
<1>0. N \in Nat
  BY UnboundedIs
<1>1. ASSUME NEW v \in V
      PROVE  PathStep(v) \in V
  <2>1. v \in Seq(Int) /\ Len(v) \in Nat \ {0} /\ Leads0(v) /\ Last(v) = v[Len(v)]
    BY DEF Last
  <2>2. CASE Last(v) \notin Objects \/ Last(v) \in ToSet(Front(v))
    BY <2>2 DEF PathStep
  <2>3. CASE ~(Last(v) \notin Objects \/ Last(v) \in ToSet(Front(v)))
    <3> DEFINE x == NextOf(Last(v))
               u == Append(v, x)
    <3>1. PathStep(v) = u
      BY <2>3 DEF PathStep
    <3>2. x \in Int /\ v[Len(v)] \in Objects
      BY <2>1, <2>3, NextOfIs
    <3>3. x = NextOf(v[Len(v)])
      BY <2>1
    <3> HIDE DEF x
    <3>4. u \in Seq(Int) /\ Len(u) = Len(v) + 1 /\ u[Len(v) + 1] = x
          /\ \A i \in 1..Len(v) : u[i] = v[i]
      BY <2>1, <3>2
    <3> HIDE DEF u
    <3>5. ASSUME NEW i \in 1..(Len(u) - 1)
          PROVE  u[i] \in Objects /\ u[i + 1] = NextOf(u[i])
      <4>1. CASE i = Len(v)
        BY <2>1, <3>2, <3>3, <3>4, <4>1
      <4>2. CASE i # Len(v)
        <5>1. i \in 1..(Len(v) - 1) /\ i \in 1..Len(v) /\ i + 1 \in 1..Len(v)
          BY <2>1, <3>4, <4>2
        <5> QED BY <2>1, <3>4, <5>1
      <4> QED BY <4>1, <4>2
    <3>6. u[1] = n /\ Len(u) # 0
      BY <2>1, <3>4
    <3> QED BY <3>1, <3>4, <3>5, <3>6
  <2> QED BY <2>2, <2>3
<1>2. <<n>> \in V
  OBVIOUS
<1>3. PICK g \in [0..N -> V] : Follows(g, N, <<n>>, step)
  <2>1. step \in [1..N -> [V -> V]]
    BY <1>1
  <2> HIDE DEF step, N, V
  <2> QED BY <1>0, <1>2, <2>1, StepsExist
<1>4. Is(g)
  <2>1. ASSUME NEW m \in 1..N
        PROVE  g[m] = PathStep(g[m - 1])
    <3>1. m - 1 \in 0..N /\ g[m - 1] \in V
      BY <1>0, <1>3
    <3>2. g[m] = step[m][g[m - 1]]
      BY <1>3 DEF Follows
    <3> HIDE DEF V
    <3> QED BY <3>1, <3>2
  <2>2. g[0] = <<n>>
    BY <1>3 DEF Follows
  <2> HIDE DEF V
  <2> QED BY <1>0, <1>3, <2>1, <2>2
<1>5. Is(f)
  <2> HIDE DEF Is
  <2> QED BY <1>4
<1>6. f[0] = <<n>> /\ \A m \in 1..N : f[m] = PathStep(f[m - 1])
  <2>1. 0 \in 0..N /\ \A m \in 1..N : m \in 0..N /\ m # 0
    BY <1>0
  <2> HIDE DEF f, N
  <2> QED BY <1>5, <2>1
<1>7. 0..N \subseteq {m \in 0..N : f[m] \in V}
  <2> HIDE DEF f, V
  <2>1. 0 \in {m \in 0..N : f[m] \in V}
    BY <1>0, <1>2, <1>6
  <2>2. \A m \in 0..(N - 1) : m \in {k \in 0..N : f[k] \in V}
                                 => m + 1 \in {k \in 0..N : f[k] \in V}
    BY <1>0, <1>1, <1>6
  <2> HIDE DEF N
  <2> QED BY <1>0, <2>1, <2>2, StepInduction
<1>8. Path(n) = f[N]
  BY DEF Path
<1>9. Path(n) \in V
  <2> HIDE DEF f, V
  <2> QED BY <1>0, <1>7, <1>8
<1> QED BY <1>9

\* Sequences laid end to end: pre[s] elements lie before what follows the s-th.
LaidOut(seqs, all, pre) ==
    /\ pre \in [0..Len(seqs) -> 0..Len(all)] /\ pre[0] = 0 /\ pre[Len(seqs)] = Len(all)
    /\ \A s \in 1..Len(seqs) :
          /\ pre[s] = pre[s - 1] + Len(seqs[s])
          /\ \A j \in 1..Len(seqs[s]) : all[pre[s - 1] + j] = seqs[s][j]

\* Sequences laid out one after the other.
LEMMA FlattenIs ==
    ASSUME NEW V, NEW seqs \in Seq(Seq(V))
    PROVE  /\ FlattenSeq(seqs) \in Seq(V)
           /\ \E pre : LaidOut(seqs, FlattenSeq(seqs), pre)
<1> DEFINE n == Len(seqs)
           all == FlattenSeq(seqs)
<1>0. n \in Nat /\ \A s \in 1..n : seqs[s] \in Seq(V) /\ Len(seqs[s]) \in Nat
  OBVIOUS
<1>1. CASE n = 0
  <2>1. all = <<>>
    BY <1>1 DEF FlattenSeq
  <2>2. LaidOut(seqs, all, [s \in 0..0 |-> 0])
    <3> HIDE DEF all
    <3> QED BY <1>1, <2>1 DEF LaidOut
  <2> QED BY <2>1, <2>2
<1>2. CASE n # 0
  <2> DEFINE Is(g) == g = [i \in 1..n |-> IF i = 1 THEN seqs[1] ELSE g[i - 1] \o seqs[i]]
             f == CHOOSE g : Is(g)
             step == [i \in 1..n |-> [v \in Seq(V) |-> v \o seqs[i]]]
  <2>1. PICK h \in [0..n -> Seq(V)] : Follows(h, n, <<>>, step)
    <3>1. step \in [1..n -> [Seq(V) -> Seq(V)]] /\ <<>> \in Seq(V)
      BY <1>0
    <3> HIDE DEF step, n
    <3> QED BY <1>0, <3>1, StepsExist
  <2>2. Is([i \in 1..n |-> h[i]])
    <3>1. ASSUME NEW i \in 1..n
          PROVE  h[i] = IF i = 1 THEN seqs[1] ELSE h[i - 1] \o seqs[i]
      <4> HIDE DEF n
      <4>1. i - 1 \in 0..n /\ h[i - 1] \in Seq(V)
        BY <1>0, <2>1
      <4>2. h[i] = h[i - 1] \o seqs[i]
        BY <2>1, <4>1 DEF Follows
      <4>3. CASE i = 1
        <5>1. h[0] = <<>> /\ seqs[1] \in Seq(V) /\ i - 1 = 0
          BY <1>0, <2>1, <4>3 DEF Follows
        <5>2. <<>> \o seqs[1] = seqs[1]
          BY <5>1
        <5> QED BY <4>2, <4>3, <5>1, <5>2
      <4> QED BY <4>2, <4>3
    <3>2. \A i \in 1..n : i # 1 => i - 1 \in 1..n
      BY <1>0
    <3> HIDE DEF n
    <3> QED BY <3>1, <3>2
  <2>3. Is(f)
    <3> HIDE DEF Is
    <3> QED BY <2>2
  <2>4. f[1] = seqs[1] /\ \A i \in 2..n : f[i] = f[i - 1] \o seqs[i]
    <3> HIDE DEF f
    <3>1. 1 \in 1..n /\ \A i \in 2..n : i \in 1..n /\ i # 1
      BY <1>0, <1>2
    <3> HIDE DEF n
    <3> QED BY <2>3, <3>1
  <2>5. all = f[n]
    BY <1>2, <2>4 DEF FlattenSeq
  <2> HIDE DEF f, all
  <2> DEFINE pre == [s \in 0..n |-> IF s = 0 THEN 0 ELSE Len(f[s])]
             Upto(k) == /\ f[k] \in Seq(V)
                        /\ \A s \in 0..k : pre[s] \in 0..Len(f[k])
                        /\ \A s \in 1..k :
                             /\ pre[s] = pre[s - 1] + Len(seqs[s])
                             /\ \A j \in 1..Len(seqs[s]) : f[k][pre[s - 1] + j] = seqs[s][j]
             M == {k \in 0..n : k = 0 \/ Upto(k)}
  <2>6. pre[0] = 0 /\ \A s \in 1..n : pre[s] = Len(f[s])
    BY <1>0
  <2>7. ASSUME NEW k \in 0..(n - 1), k \in M
        PROVE  k + 1 \in M
    <3>0. k + 1 \in 1..n /\ k + 1 \in 0..n
      BY <1>0
    <3>1. CASE k = 0
      <4>1. f[1] \in Seq(V) /\ Len(f[1]) = Len(seqs[1]) /\ pre[1] = Len(f[1]) /\ Len(f[1]) \in Nat
        BY <1>0, <2>4, <2>6, <3>0, <3>1
      <4>2. Upto(1)
        <5> HIDE DEF pre
        <5>1. \A s \in 0..1 : pre[s] \in 0..Len(f[1])
          <6>1. \A s \in 0..1 : s = 0 \/ s = 1
            OBVIOUS
          <6> QED BY <2>6, <4>1, <6>1
        <5>2. ASSUME NEW s \in 1..1
              PROVE  /\ pre[s] = pre[s - 1] + Len(seqs[s])
                     /\ \A j \in 1..Len(seqs[s]) : f[1][pre[s - 1] + j] = seqs[s][j]
          <6>1. s = 1 /\ s - 1 = 0
            OBVIOUS
          <6> QED BY <2>4, <2>6, <4>1, <6>1
        <5>3. f[1] \in Seq(V)
          BY <4>1
        <5>4. \A s \in 1..1 : /\ pre[s] = pre[s - 1] + Len(seqs[s])
                              /\ \A j \in 1..Len(seqs[s]) : f[1][pre[s - 1] + j] = seqs[s][j]
          BY <5>2, Zenon
        <5> QED BY <5>1, <5>3, <5>4, Zenon
      <4> HIDE DEF Upto
      <4>3. k + 1 = 1
        BY <3>1
      <4> QED BY <3>0, <4>2, <4>3
    <3>2. CASE k # 0
      <4> DEFINE a == f[k]
                 b == seqs[k + 1]
                 u == f[k + 1]
      <4>0. Upto(k) /\ k \in 1..n
        <5> HIDE DEF Upto, n
        <5> QED BY <1>0, <2>7, <3>2
      <4>1. a \in Seq(V) /\ b \in Seq(V) /\ u = a \o b
        <5>1. k + 1 \in 2..n /\ (k + 1) - 1 = k
          BY <3>0, <3>2
        <5> QED BY <1>0, <2>4, <3>0, <4>0, <5>1
      <4>2. /\ u \in Seq(V) /\ Len(u) = Len(a) + Len(b) /\ Len(a) \in Nat /\ Len(b) \in Nat
            /\ \A i \in 1..Len(a) : u[i] = a[i]
            /\ \A i \in 1..Len(b) : u[Len(a) + i] = b[i]
        <5> HIDE DEF a, b, u
        <5> QED BY <4>1
      <4>3. pre[k] = Len(a) /\ pre[k + 1] = Len(u)
        BY <2>6, <3>0, <4>0
      <4>4. /\ \A s \in 0..k : pre[s] \in 0..Len(a)
            /\ \A s \in 1..k :
                 /\ pre[s] = pre[s - 1] + Len(seqs[s])
                 /\ \A j \in 1..Len(seqs[s]) : a[pre[s - 1] + j] = seqs[s][j]
        BY <4>0
      <4> HIDE DEF a, u, pre
      <4>5. \A s \in 0..(k + 1) : pre[s] \in 0..Len(u)
        <5>1. ASSUME NEW s \in 0..(k + 1) PROVE pre[s] \in 0..Len(u)
          <6>1. CASE s = k + 1
            BY <4>2, <4>3, <6>1
          <6>2. CASE s # k + 1
            <7>1. s \in 0..k
              BY <6>2
            <7> QED BY <4>2, <4>4, <7>1
          <6> QED BY <6>1, <6>2
        <5> QED BY <5>1
      <4>6. ASSUME NEW s \in 1..(k + 1)
            PROVE  /\ pre[s] = pre[s - 1] + Len(seqs[s])
                   /\ \A j \in 1..Len(seqs[s]) : u[pre[s - 1] + j] = seqs[s][j]
        <5>1. CASE s = k + 1
          <6>1. s - 1 = k
            BY <5>1
          <6> QED BY <4>2, <4>3, <5>1, <6>1
        <5>2. CASE s # k + 1
          <6>1. s \in 1..k /\ s \in 0..k /\ s - 1 \in 0..k /\ Len(seqs[s]) \in Nat
            BY <1>0, <4>0, <5>2
          <6>2. pre[s] = pre[s - 1] + Len(seqs[s]) /\ pre[s] \in 0..Len(a) /\ pre[s - 1] \in 0..Len(a)
            BY <4>4, <6>1
          <6>3. ASSUME NEW j \in 1..Len(seqs[s])
                PROVE  u[pre[s - 1] + j] = seqs[s][j]
            <7>0. Len(a) \in Nat /\ pre[s - 1] \in Nat /\ pre[s] \in Nat /\ pre[s] <= Len(a)
              BY <4>2, <6>2
            <7>1. pre[s - 1] + j \in 1..Len(a)
              BY <6>1, <6>2, <7>0
            <7> QED BY <4>2, <4>4, <6>1, <7>1
          <6> QED BY <6>2, <6>3
        <5> QED BY <5>1, <5>2
      <4>7. Upto(k + 1)
        BY <4>2, <4>5, <4>6 DEF u
      <4> QED BY <3>0, <4>7
    <3> QED BY <3>1, <3>2
  <2>8. n \in M
    <3>1. 0 \in M
      BY <1>0
    <3> HIDE DEF M, n
    <3>2. 0..n \subseteq M
      BY <1>0, <2>7, <3>1, StepInduction
    <3> QED BY <1>0, <3>2
  <2>9. Upto(n)
    BY <1>2, <2>8
  <2>10. pre[n] = Len(f[n])
    BY <1>0, <1>2, <2>6
  <2>11. pre \in [0..n -> 0..Len(all)]
    BY <2>5, <2>9
  <2> HIDE DEF pre
  <2>12. LaidOut(seqs, all, pre)
    BY <2>5, <2>6, <2>9, <2>10, <2>11 DEF LaidOut
  <2> QED BY <2>5, <2>9, <2>12 DEF all
<1> QED BY <1>1, <1>2

\* The node that a walk stands at in slot s when k nodes lie before it.
Here(N, pre, s, k, x) == IF k < pre[s] THEN x = N[k + 1] ELSE x \notin Objects

\* The nodes N behind the heads T, each once, pre[s] of them up to slot s.
Neat(T, N, pre) ==
    /\ T \in Seq(Int) /\ N \in Seq(Objects)
    /\ pre \in [0..Len(T) -> 0..Len(N)] /\ pre[0] = 0 /\ pre[Len(T)] = Len(N)
    /\ \A s \in 1..Len(T) :
          /\ pre[s - 1] <= pre[s] /\ Here(N, pre, s, pre[s - 1], T[s])
          /\ \A k \in (pre[s - 1] + 1)..pre[s] : Here(N, pre, s, k, NextOf(N[k]))
    /\ \A i, j \in 1..Len(N) : N[i] = N[j] => i = j

LEMMA HeadsAre ==
    ASSUME NEW c, Tidy(c)
    PROVE  HeadsOf(c) \in Seq(Int)
<1>1. CASE Heap[c].class = "LinkedList"
  <2>1. FieldCalled(c, "first").value \in Int
    BY FieldCalledIs DEF Tidy
  <2>2. IdOf(FieldCalled(c, "first")) \in Int
    BY <2>1 DEF IdOf
  <2> QED BY <1>1, <2>2 DEF HeadsOf
<1>2. CASE Heap[c].class # "LinkedList"
  <2>1. TableOf(c) \in Seq(Int)
    BY <1>2, TablesAre DEF Tidy
  <2> QED BY <1>2, <2>1 DEF HeadsOf, TableOf
<1> QED BY <1>1, <1>2

\* The chains of a tidy collection, laid out.
LEMMA TidyIsNeat ==
    ASSUME NEW c, Tidy(c)
    PROVE  \E pre : Neat(HeadsOf(c), NodesOf(c), pre)
<1> DEFINE T == HeadsOf(c)
           N == NodesOf(c)
           seqs == [i \in DOMAIN T |-> Chain(T[i])]
<1>1. T \in Seq(Int) /\ DOMAIN T = 1..Len(T) /\ Len(T) \in Nat
  BY HeadsAre
<1>2. N = FlattenSeq(seqs)
  BY DEF NodesOf
<1>3. /\ \A i, j \in DOMAIN N : N[i] = N[j] => i = j
      /\ \A s \in 1..Len(T) : Ended(T[s])
  <2>1. \A s \in 1..Len(T) : T[s] \in ToSet(T)
    BY <1>1 DEF ToSet
  <2> HIDE DEF T, N
  <2>2. (\A n \in ToSet(T) : Ended(n)) /\ IsInjective(N)
    BY DEF Tidy, T, N
  <2> QED BY <2>1, <2>2 DEF IsInjective
<1> HIDE DEF T, N
<1>4. ASSUME NEW s \in 1..Len(T)
      PROVE  LET p == Path(T[s])
             IN  /\ p \in Seq(Int) /\ Len(p) \in Nat \ {0} /\ p[1] = T[s]
                 /\ \A i \in 1..(Len(p) - 1) : p[i] \in Objects /\ p[i + 1] = NextOf(p[i])
                 /\ p[Len(p)] \notin Objects
                 /\ seqs[s] \in Seq(Objects) /\ Len(seqs[s]) = Len(p) - 1
                 /\ \A i \in 1..(Len(p) - 1) : seqs[s][i] = p[i]
  <2> DEFINE p == Path(T[s])
  <2>1. /\ p \in Seq(Int) /\ Len(p) \in Nat \ {0} /\ p[1] = T[s]
        /\ \A i \in 1..(Len(p) - 1) : p[i] \in Objects /\ p[i + 1] = NextOf(p[i])
    <3>1. T[s] \in Int
      BY <1>1
    <3> HIDE DEF seqs
    <3> QED BY <3>1, PathIs
  <2>2. p[Len(p)] \notin Objects
    BY <1>3 DEF Ended, Last
  <2>3. seqs[s] = SubSeq(p, 1, Len(p) - 1)
    BY <1>1 DEF Chain, Front
  <2> HIDE DEF p
  <2> HIDE DEF seqs
  <2>4. /\ SubSeq(p, 1, Len(p) - 1) \in Seq(Objects)
        /\ Len(SubSeq(p, 1, Len(p) - 1)) = Len(p) - 1
        /\ \A i \in 1..(Len(p) - 1) : SubSeq(p, 1, Len(p) - 1)[i] = p[i]
    <3> DEFINE n == Len(p) - 1
    <3>1. n \in Nat /\ \A i \in 1..n : p[i] \in Objects
      BY <2>1
    <3> HIDE DEF n
    <3>2. /\ SubSeq(p, 1, n) \in Seq(Objects)
          /\ Len(SubSeq(p, 1, n)) = IF 1 <= n THEN n - 1 + 1 ELSE 0
          /\ \A i \in 1..(n - 1 + 1) : SubSeq(p, 1, n)[i] = p[1 + i - 1]
      BY <3>1, SubSeqProperties
    <3>3. Len(SubSeq(p, 1, n)) = n
      BY <3>1, <3>2
    <3>4. \A i \in 1..n : i \in 1..(n - 1 + 1) /\ 1 + i - 1 = i
      BY <3>1
    <3> QED BY <3>2, <3>3, <3>4 DEF n
  <2> QED BY <2>1, <2>2, <2>3, <2>4 DEF p
<1>5. seqs \in Seq(Seq(Objects)) /\ Len(seqs) = Len(T)
  BY <1>1, <1>4
<1> HIDE DEF seqs
<1>6. N \in Seq(Objects)
  BY <1>2, <1>5, FlattenIs
<1>7. PICK pre : LaidOut(seqs, N, pre)
  BY <1>2, <1>5, FlattenIs
<1>8. /\ pre \in [0..Len(T) -> 0..Len(N)] /\ pre[0] = 0 /\ pre[Len(T)] = Len(N)
      /\ \A s \in 1..Len(T) :
            /\ pre[s] = pre[s - 1] + Len(seqs[s])
            /\ \A j \in 1..Len(seqs[s]) : N[pre[s - 1] + j] = seqs[s][j]
  BY <1>5, <1>7 DEF LaidOut
<1>9. ASSUME NEW s \in 1..Len(T)
      PROVE  /\ pre[s - 1] <= pre[s] /\ Here(N, pre, s, pre[s - 1], T[s])
             /\ \A k \in (pre[s - 1] + 1)..pre[s] : Here(N, pre, s, k, NextOf(N[k]))
  <2> DEFINE p == Path(T[s])
             a == pre[s - 1]
             n == Len(p) - 1
  <2>1. /\ n \in Nat /\ p[1] = T[s] /\ p[n + 1] \notin Objects
        /\ \A i \in 1..n : p[i + 1] = NextOf(p[i]) /\ seqs[s][i] = p[i]
        /\ Len(seqs[s]) = n
    BY <1>4
  <2>2. a \in Nat /\ pre[s] = a + n /\ \A j \in 1..n : N[a + j] = p[j]
    <3>1. s - 1 \in 0..Len(T)
      BY <1>1
    <3> HIDE DEF p, n
    <3>2. a \in Nat /\ pre[s] = a + n
      <4>1. pre[s - 1] \in 0..Len(N) /\ Len(N) \in Nat
        <5>1. Len(N) \in Nat
          BY <1>6
        <5>2. pre \in [0..Len(T) -> 0..Len(N)]
          BY <1>8
        <5> QED BY <3>1, <5>1, <5>2
      <4>2. pre[s] = pre[s - 1] + Len(seqs[s])
        BY <1>8
      <4> QED BY <2>1, <4>1, <4>2
    <3>3. \A j \in 1..n : N[a + j] = p[j]
      BY <1>8, <2>1
    <3> QED BY <3>2, <3>3
  <2> HIDE DEF p, n, a
  <2>3. ASSUME NEW j \in 0..n
        PROVE  Here(N, pre, s, a + j, p[j + 1])
    <3>1. CASE j = n
      <4>1. ~(a + j < pre[s])
        BY <2>1, <2>2, <3>1
      <4> QED BY <2>1, <3>1, <4>1 DEF Here
    <3>2. CASE j # n
      <4>1. j + 1 \in 1..n /\ (a + j) + 1 = a + (j + 1)
        BY <2>1, <2>2, <3>2
      <4>2. a + j < pre[s] /\ N[(a + j) + 1] = p[j + 1]
        BY <2>1, <2>2, <3>2, <4>1
      <4> QED BY <4>2 DEF Here
    <3> QED BY <3>1, <3>2
  <2>4. Here(N, pre, s, a, T[s])
    <3>1. 0 \in 0..n /\ a + 0 = a /\ p[0 + 1] = T[s]
      BY <2>1, <2>2
    <3> QED BY <2>3, <3>1
  <2>5. ASSUME NEW k \in (a + 1)..pre[s]
        PROVE  Here(N, pre, s, k, NextOf(N[k]))
    <3> DEFINE j == k - a
    <3>1. j \in 1..n /\ j \in 0..n /\ a + j = k
      BY <2>1, <2>2
    <3> HIDE DEF j
    <3>2. N[k] = p[j] /\ NextOf(p[j]) = p[j + 1]
      BY <2>1, <2>2, <3>1
    <3> QED BY <2>3, <3>1, <3>2
  <2>6. a <= pre[s]
    BY <2>1, <2>2
  <2> QED BY <2>4, <2>5, <2>6 DEF a
<1>10. DOMAIN N = 1..Len(N)
  BY <1>6
<1>11. Neat(T, N, pre)
  BY <1>1, <1>3, <1>6, <1>8, <1>9, <1>10 DEF Neat
<1> QED BY <1>11 DEF T, N

\* The order of a tidy collection: how many of its nodes are in slots up to each.
Order(c) == CHOOSE pre : Neat(HeadsOf(c), NodesOf(c), pre)

LEMMA TidyInOrder ==
    ASSUME NEW c, Tidy(c)
    PROVE  Neat(HeadsOf(c), NodesOf(c), Order(c))
BY TidyIsNeat DEF Order

-----------------------------------------------------------------------------
(* Walks of a tidy collection                                              *)

\* The place of the k-th node.
Spot(T, N, pre, k, p) ==
    /\ p \in Place /\ p[1] \in 1..Len(T)
    /\ k \in (pre[p[1] - 1] + 1)..pre[p[1]] /\ p[2] = N[k]

\* A walk from entry b on that has come past the k-th node.
At(T, N, pre, b, w, k) ==
    /\ w \in Walks(T) /\ k \in b..Len(N) /\ Len(w.marks) = k - b
    /\ \A m \in 1..Len(w.marks) : Spot(T, N, pre, b + m, w.marks[m])
    /\ w.seen \subseteq {N[j] : j \in 1..k}
    /\ IF w.slot <= Len(T)
       THEN pre[w.slot - 1] <= k /\ k <= pre[w.slot] /\ Here(N, pre, w.slot, k, w.node)
       ELSE k = Len(N)

LEMMA TakeIs ==
    ASSUME NEW T \in Seq(Int), NEW w \in Walks(T), w.slot <= Len(T), w.node \in Objects
    PROVE  LET v == Take(w)
           IN  /\ v \in Walks(T) /\ v.slot = w.slot /\ v.node = NextOf(w.node)
               /\ v.marks = Append(w.marks, <<w.slot, w.node>>) /\ v.seen = w.seen \cup {w.node}
<1> DEFINE v == Take(w)
           ms == Append(w.marks, Mark(w))
           sn == w.seen \cup {w.node}
           nx == NextOf(w.node)
<1>1. Mark(w) = <<w.slot, w.node>>
  BY DEF Mark
<1>2. /\ w.slot \in 1..(Len(T) + 1) /\ w.marks \in Seq(Place) /\ w.seen \in SUBSET Objects
      /\ Len(T) \in Nat
  BY DEF Walks
<1>3. <<w.slot, w.node>> \in Place
  BY <1>2 DEF Place
<1>4. ms \in Seq(Place) /\ sn \in SUBSET Objects /\ nx \in Int
  BY <1>1, <1>2, <1>3, NextOfIs
<1>5. v = [w EXCEPT !.marks = ms, !.seen = sn, !.node = nx]
  BY DEF Take
<1> HIDE DEF v, ms, sn, nx
<1>6. v \in Walks(T) /\ v.slot = w.slot /\ v.node = nx /\ v.marks = ms /\ v.seen = sn
  BY <1>4, <1>5 DEF Walks
<1> QED BY <1>1, <1>6 DEF v, ms, sn, nx

LEMMA NextSlotIs ==
    ASSUME NEW T \in Seq(Int), NEW w \in Walks(T), w.slot <= Len(T)
    PROVE  LET v == NextSlot(T, w)
           IN  /\ v \in Walks(T) /\ v.slot = w.slot + 1 /\ v.marks = w.marks /\ v.seen = w.seen
               /\ w.slot + 1 <= Len(T) => v.node = T[w.slot + 1]
<1> DEFINE v == NextSlot(T, w)
           x == IF w.slot + 1 > Len(T) THEN 0 ELSE T[w.slot + 1]
           s == StartAt(T, w.slot + 1)
<1>1. /\ w.slot \in 1..Len(T) /\ Len(T) \in Nat /\ w.from \in Int /\ w.marks \in Seq(Place)
      /\ w.seen \in SUBSET Objects
  BY DEF Walks
<1>2. x \in Int /\ w.slot + 1 \in 1..(Len(T) + 1) /\ w.slot + 1 \in Int
  BY <1>1
<1>3. s = [from |-> w.slot + 1, slot |-> w.slot + 1, node |-> x, marks |-> <<>>, seen |-> {}]
  BY DEF StartAt
<1>4. v = [s EXCEPT !.from = w.from, !.marks = w.marks, !.seen = w.seen]
  BY DEF NextSlot
<1>5. w.slot + 1 <= Len(T) => x = T[w.slot + 1]
  BY <1>1
<1> HIDE DEF x, s, v
<1>6. s \in Walks(T) /\ s.slot = w.slot + 1 /\ s.node = x
  BY <1>2, <1>3 DEF Walks
<1>7. /\ v \in Walks(T) /\ v.slot = w.slot + 1 /\ v.marks = w.marks /\ v.seen = w.seen
      /\ v.node = x
  BY <1>1, <1>4, <1>6 DEF Walks
<1> QED BY <1>5, <1>7 DEF v

\* A walk that can go on in its slot is in front of a node, and one that cannot
\* has come past the slot.
LEMMA AtEnds ==
    ASSUME NEW T, NEW N, NEW pre, Neat(T, N, pre), NEW b \in Nat, NEW w, NEW k,
           At(T, N, pre, b, w, k), w.slot <= Len(T)
    PROVE  /\ Ends(w) => k = pre[w.slot]
           /\ ~Ends(w) => k < pre[w.slot] /\ w.node = N[k + 1] /\ w.node \in Objects
<1>1. /\ N \in Seq(Objects) /\ k \in 0..Len(N) /\ w.slot \in 1..Len(T) /\ pre[w.slot] \in 0..Len(N)
      /\ Len(N) \in Nat /\ k <= pre[w.slot] /\ Here(N, pre, w.slot, k, w.node)
  <2>1. N \in Seq(Objects) /\ pre \in [0..Len(T) -> 0..Len(N)] /\ T \in Seq(Int)
    BY DEF Neat
  <2>2. w.slot \in 1..(Len(T) + 1) /\ Len(T) \in Nat /\ Len(N) \in Nat
    BY <2>1 DEF At, Walks
  <2>3. w.slot \in 1..Len(T) /\ w.slot \in 0..Len(T)
    BY <2>2
  <2>4. k \in b..Len(N) /\ k <= pre[w.slot] /\ Here(N, pre, w.slot, k, w.node)
    BY DEF At
  <2>5. pre[w.slot] \in 0..Len(N)
    BY <2>1, <2>3
  <2> QED BY <2>1, <2>2, <2>3, <2>4, <2>5
<1>2. CASE k < pre[w.slot]
  <2>1. k + 1 \in 1..Len(N)
    BY <1>1, <1>2
  <2>2. w.node = N[k + 1] /\ w.node \in Objects
    BY <1>1, <1>2, <2>1 DEF Here
  <2>3. w.node \notin w.seen
    <3> SUFFICES ASSUME w.node \in w.seen PROVE FALSE
      OBVIOUS
    <3>1. PICK j \in 1..k : N[j] = w.node
      BY DEF At
    <3>2. j \in 1..Len(N) /\ j # k + 1
      BY <1>1
    <3>3. \A i, l \in 1..Len(N) : N[i] = N[l] => i = l
      BY DEF Neat
    <3> QED BY <2>1, <2>2, <3>1, <3>2, <3>3
  <2> QED BY <1>2, <2>2, <2>3, ObjectsFinite DEF Ends
<1>3. CASE ~(k < pre[w.slot])
  <2>1. w.node \notin Objects
    BY <1>1, <1>3 DEF Here
  <2> QED BY <1>1, <1>3, <2>1 DEF Ends
<1> QED BY <1>2, <1>3

\* A walk that takes an entry comes past one more node.
LEMMA AtTake ==
    ASSUME NEW T, NEW N, NEW pre, Neat(T, N, pre), NEW b \in Nat, NEW w, NEW k,
           At(T, N, pre, b, w, k), w.slot <= Len(T), ~Ends(w)
    PROVE  At(T, N, pre, b, Take(w), k + 1)
<1> DEFINE v == Take(w)
           s == w.slot
           x == w.node
<1>1. k < pre[s] /\ x = N[k + 1] /\ x \in Objects
  BY AtEnds
<1>2. /\ T \in Seq(Int) /\ N \in Seq(Objects) /\ pre \in [0..Len(T) -> 0..Len(N)]
      /\ w \in Walks(T) /\ k \in b..Len(N) /\ Len(w.marks) = k - b
      /\ w.seen \subseteq {N[j] : j \in 1..k}
      /\ pre[s - 1] <= k /\ k <= pre[s]
  BY DEF At, Neat
<1>3. \A m \in 1..Len(w.marks) : Spot(T, N, pre, b + m, w.marks[m])
  BY DEF At
<1>4. s \in 1..Len(T) /\ s - 1 \in 0..Len(T) /\ s \in 0..Len(T) /\ w.marks \in Seq(Place)
      /\ Len(T) \in Nat /\ Len(N) \in Nat
  <2>1. s \in 1..(Len(T) + 1) /\ Len(T) \in Nat /\ Len(N) \in Nat /\ w.marks \in Seq(Place)
    BY <1>2 DEF Walks
  <2> QED BY <2>1
<1>5. pre[s] \in 0..Len(N) /\ pre[s - 1] \in 0..Len(N)
  BY <1>2, <1>4
<1>6. /\ v \in Walks(T) /\ v.slot = s /\ v.node = NextOf(x)
      /\ v.marks = Append(w.marks, <<s, x>>) /\ v.seen = w.seen \cup {x}
  BY <1>1, <1>2, TakeIs
<1> HIDE DEF v
<1>7. k + 1 \in b..Len(N) /\ k \in Nat
  BY <1>1, <1>2, <1>4, <1>5
<1>8. /\ Len(v.marks) = (k + 1) - b /\ v.marks[Len(w.marks) + 1] = <<s, x>>
      /\ \A m \in 1..Len(w.marks) : v.marks[m] = w.marks[m]
      /\ Len(v.marks) = Len(w.marks) + 1 /\ Len(w.marks) \in Nat
  <2>1. Len(w.marks) \in Nat
    BY <1>4
  <2>2. /\ v.marks[Len(w.marks) + 1] = <<s, x>> /\ Len(v.marks) = Len(w.marks) + 1
        /\ \A m \in 1..Len(w.marks) : v.marks[m] = w.marks[m]
    <3> DEFINE p == <<s, x>>
    <3> HIDE DEF p, x, s
    <3> QED BY <1>4, <1>6, <2>1 DEF p
  <2>3. Len(w.marks) + 1 = (k + 1) - b
    BY <1>2, <1>7
  <2> QED BY <2>1, <2>2, <2>3
<1>15. k + 1 \in (pre[s - 1] + 1)..pre[s]
  <2>1. pre[s - 1] \in Nat /\ pre[s] \in Nat
    BY <1>4, <1>5
  <2>2. k < pre[s] /\ pre[s - 1] <= k /\ k \in Nat
    BY <1>1, <1>2, <1>7
  <2> DEFINE lo == pre[s - 1]
             hi == pre[s]
  <2> HIDE DEF lo, hi, s
  <2>3. k + 1 \in (lo + 1)..hi
    BY <2>1, <2>2 DEF lo, hi
  <2> QED BY <2>3 DEF lo, hi
<1>9. Spot(T, N, pre, k + 1, <<s, x>>)
  <2> DEFINE p == <<s, x>>
  <2>1. p[1] = s /\ p[2] = x /\ p \in Place
    BY <1>1, <1>4 DEF Place
  <2> HIDE DEF p
  <2>3. Spot(T, N, pre, k + 1, p)
    BY <1>1, <1>4, <1>15, <2>1 DEF Spot
  <2> QED BY <2>3 DEF p
<1>10. ASSUME NEW m \in 1..Len(v.marks)
       PROVE  Spot(T, N, pre, b + m, v.marks[m])
  <2>1. CASE m = Len(w.marks) + 1
    <3>1. b + m = k + 1
      BY <1>2, <1>7, <2>1
    <3> QED BY <1>8, <1>9, <2>1, <3>1
  <2>2. CASE m # Len(w.marks) + 1
    <3>1. m \in 1..Len(w.marks)
      BY <1>8, <2>2
    <3> QED BY <1>3, <1>8, <3>1
  <2> QED BY <2>1, <2>2
<1>11. v.seen \subseteq {N[j] : j \in 1..(k + 1)}
  <2>1. \A j \in 1..k : j \in 1..(k + 1)
    BY <1>7
  <2>2. k + 1 \in 1..(k + 1)
    BY <1>7
  <2> QED BY <1>1, <1>2, <1>6, <2>1, <2>2
<1>12. pre[s - 1] <= k + 1 /\ k + 1 <= pre[s]
  BY <1>1, <1>2, <1>5, <1>7
<1>13. Here(N, pre, s, k + 1, v.node)
  <2>1. \A i \in (pre[s - 1] + 1)..pre[s] : Here(N, pre, s, i, NextOf(N[i]))
    BY <1>4 DEF Neat
  <2> QED BY <1>1, <1>6, <1>15, <2>1
<1>14. At(T, N, pre, b, v, k + 1)
  BY <1>4, <1>6, <1>7, <1>8, <1>10, <1>11, <1>12, <1>13 DEF At
<1> QED BY <1>14 DEF v

\* A walk that leaves a slot comes past nothing.
LEMMA AtNextSlot ==
    ASSUME NEW T, NEW N, NEW pre, Neat(T, N, pre), NEW b \in Nat, NEW w, NEW k,
           At(T, N, pre, b, w, k), w.slot <= Len(T), Ends(w)
    PROVE  At(T, N, pre, b, NextSlot(T, w), k)
<1> DEFINE v == NextSlot(T, w)
           s == w.slot
<1>1. k = pre[s]
  BY AtEnds
<1>2. /\ T \in Seq(Int) /\ N \in Seq(Objects) /\ pre \in [0..Len(T) -> 0..Len(N)]
      /\ w \in Walks(T) /\ k \in b..Len(N) /\ Len(w.marks) = k - b
      /\ w.seen \subseteq {N[j] : j \in 1..k} /\ pre[Len(T)] = Len(N)
      /\ \A m \in 1..Len(w.marks) : Spot(T, N, pre, b + m, w.marks[m])
  BY DEF At, Neat
<1>3. s \in 1..Len(T) /\ Len(T) \in Nat /\ Len(N) \in Nat
  <2>1. s \in 1..(Len(T) + 1) /\ Len(T) \in Nat /\ Len(N) \in Nat
    BY <1>2 DEF Walks
  <2> QED BY <2>1
<1>4. /\ v \in Walks(T) /\ v.slot = s + 1 /\ v.marks = w.marks /\ v.seen = w.seen
      /\ s + 1 <= Len(T) => v.node = T[s + 1]
  BY <1>2, NextSlotIs
<1> HIDE DEF v
<1>5. CASE s + 1 <= Len(T)
  <2>1. s + 1 \in 1..Len(T) /\ (s + 1) - 1 = s
    BY <1>3, <1>5
  <2>2. pre[s] <= pre[s + 1] /\ Here(N, pre, s + 1, pre[s], T[s + 1])
    BY <2>1 DEF Neat
  <2>3. pre[v.slot - 1] <= k /\ k <= pre[v.slot] /\ Here(N, pre, v.slot, k, v.node)
    BY <1>1, <1>2, <1>4, <1>5, <2>1, <2>2
  <2> QED BY <1>2, <1>4, <1>5, <2>3 DEF At, v
<1>6. CASE ~(s + 1 <= Len(T))
  <2>1. s = Len(T)
    BY <1>3, <1>6
  <2>2. k = Len(N) /\ ~(v.slot <= Len(T))
    BY <1>1, <1>2, <1>4, <1>6, <2>1
  <2> QED BY <1>2, <1>4, <2>2 DEF At, v
<1> QED BY <1>5, <1>6

\* What a walk from entry b on takes that was asked for so many.
Took(T, N, pre, b, target, marks) ==
    /\ marks \in Seq(Place) /\ Len(marks) = Lesser(target, Len(N) - b)
    /\ \A m \in 1..Len(marks) : Spot(T, N, pre, b + m, marks[m])

\* A walk of a map takes the nodes after where it stands, as many as it is asked for.
LEMMA MapWalkTook ==
    ASSUME NEW T, NEW N, NEW pre, Neat(T, N, pre), NEW b \in Nat, NEW target \in Nat,
           NEW w, At(T, N, pre, b, w, b), NEW K, Stands(T, b, K, w)
    PROVE  Took(T, N, pre, b, target, MapWalk(T, w, target).marks)
<1> DEFINE V == {v \in Walks(T) : /\ Len(v.marks) <= target
                                  /\ \E k \in Nat : At(T, N, pre, b, v, k)}
<1>1. T \in Seq(Int) /\ Len(T) \in Nat /\ N \in Seq(Objects) /\ Len(N) \in Nat
  BY DEF Neat
<1>2. ASSUME NEW v \in V
      PROVE  MapStep(T, v, target) \in V
  <2>1. PICK k \in Nat : At(T, N, pre, b, v, k)
    OBVIOUS
  <2>2. v.slot \in 1..(Len(T) + 1) /\ v.marks \in Seq(Place) /\ Len(v.marks) \in Nat
    BY DEF Walks
  <2>3. CASE Len(v.marks) >= target \/ v.slot > Len(T)
    BY <2>3 DEF MapStep
  <2>4. CASE ~(Len(v.marks) >= target \/ v.slot > Len(T)) /\ Ends(v)
    <3>1. MapStep(T, v, target) = NextSlot(T, v) /\ v.slot <= Len(T)
      BY <1>1, <2>2, <2>4 DEF MapStep
    <3>2. At(T, N, pre, b, NextSlot(T, v), k)
      BY <2>1, <2>4, <3>1, AtNextSlot
    <3>3. NextSlot(T, v) \in Walks(T) /\ NextSlot(T, v).marks = v.marks
      BY <1>1, <3>1, NextSlotIs
    <3> QED BY <3>1, <3>2, <3>3
  <2>5. CASE ~(Len(v.marks) >= target \/ v.slot > Len(T)) /\ ~Ends(v)
    <3>1. MapStep(T, v, target) = Take(v) /\ v.slot <= Len(T)
      BY <1>1, <2>2, <2>5 DEF MapStep
    <3>2. At(T, N, pre, b, Take(v), k + 1)
      BY <2>1, <2>5, <3>1, AtTake
    <3>3. v.node \in Objects
      BY <2>5 DEF Ends
    <3>4. Take(v) \in Walks(T) /\ Take(v).marks = Append(v.marks, <<v.slot, v.node>>)
      BY <1>1, <3>1, <3>3, TakeIs
    <3>5. Len(Take(v).marks) = Len(v.marks) + 1
      BY <2>2, <3>4
    <3>6. Len(Take(v).marks) <= target /\ k + 1 \in Nat
      BY <2>2, <2>5, <3>5
    <3> QED BY <3>1, <3>2, <3>4, <3>6
  <2> QED BY <2>3, <2>4, <2>5
<1>3. w \in V
  <2>1. w \in Walks(T) /\ Len(w.marks) = b - b
    BY DEF At
  <2> QED BY <2>1
<1> DEFINE v == MapWalk(T, w, target)
<1>4. v \in V
  <2>0. \A u \in V : MapStep(T, u, target) \in V
    BY <1>2
  <2> HIDE DEF V, v
  <2> DEFINE n == Len(T) + Unbounded
  <2>1. PICK f \in [0..n -> V] : MapWalk(T, w, target) = f[n]
    BY <1>1, <1>3, <2>0, MapWalkIs
  <2>2. n \in 0..n
    BY <1>1, UnboundedIs
  <2> QED BY <2>1, <2>2 DEF v
<1>5. Len(v.marks) < target => v.slot > Len(T)
  <2>1. target \in Int
    OBVIOUS
  <2> QED BY <1>1, <2>1, WalkStands
<1>6. PICK k \in Nat : At(T, N, pre, b, v, k)
  BY <1>4
<1>7. /\ v.marks \in Seq(Place) /\ Len(v.marks) = k - b /\ k \in b..Len(N)
      /\ \A m \in 1..Len(v.marks) : Spot(T, N, pre, b + m, v.marks[m])
      /\ Len(v.marks) <= target /\ v.slot \in 1..(Len(T) + 1)
      /\ v.slot > Len(T) => k = Len(N)
  <2>1. Len(v.marks) <= target /\ v \in Walks(T)
    BY <1>4
  <2> HIDE DEF v
  <2>2. v.marks \in Seq(Place) /\ v.slot \in 1..(Len(T) + 1)
    BY <2>1 DEF Walks
  <2>3. v.slot > Len(T) => ~(v.slot <= Len(T))
    BY <1>1, <2>2
  <2> QED BY <1>6, <2>1, <2>2, <2>3 DEF At
<1> HIDE DEF v
<1>8. Len(v.marks) = Lesser(target, Len(N) - b)
  BY <1>1, <1>5, <1>7 DEF Lesser
<1>9. Took(T, N, pre, b, target, v.marks)
  BY <1>7, <1>8 DEF Took
<1> QED BY <1>9 DEF v

\* There are no more nodes than objects.
LEMMA NeatBounded ==
    ASSUME NEW T, NEW N, NEW pre, Neat(T, N, pre)
    PROVE  Len(N) <= Unbounded
<1>1. N \in Seq(Objects) /\ Len(N) \in Nat /\ \A i, j \in 1..Len(N) : N[i] = N[j] => i = j
  BY DEF Neat
<1>2. N \in Injection(1..Len(N), Objects)
  BY <1>1 DEF Injection, IsInjective
<1>3. IsFiniteSet(1..Len(N)) /\ Cardinality(1..Len(N)) = Len(N)
  <2> DEFINE n == Len(N)
  <2>1. n \in Nat /\ 1 \in Int /\ n \in Int
    BY <1>1
  <2> HIDE DEF n
  <2>2. IsFiniteSet(1..n) /\ Cardinality(1..n) = IF 1 > n THEN 0 ELSE n - 1 + 1
    BY <2>1, FS_Interval
  <2> QED BY <2>1, <2>2 DEF n
<1>4. Cardinality(1..Len(N)) <= Cardinality(Objects)
  BY <1>2, <1>3, ObjectsFinite, FS_Injection
<1> QED BY <1>1, <1>3, <1>4, ObjectsFinite, UnboundedIs

\* A walk of a list comes to rest, if there are not as many entries as objects.
LEMMA ListWalkRests ==
    ASSUME NEW target, NEW V, NEW w \in V,
           \A v \in V : /\ ListStep(v, target) \in V /\ Len(v.marks) \in Nat
                        /\ Len(v.marks) >= target \/ Ends(v) => ListStep(v, target) = v
                        /\ ~(Len(v.marks) >= target \/ Ends(v)) =>
                              Len(ListStep(v, target).marks) = Len(v.marks) + 1
    PROVE  LET v == ListWalk(w, target)
           IN  v \in V /\ (Len(v.marks) >= target \/ Ends(v) \/ Len(v.marks) >= Unbounded)
<1> DEFINE Rests(v) == Len(v.marks) >= target \/ Ends(v)
<1>1. Unbounded \in Nat
  BY UnboundedIs
<1>2. ASSUME NEW v \in V
      PROVE  /\ ListStep(v, target) \in V /\ Len(v.marks) \in Nat
             /\ Rests(v) => ListStep(v, target) = v
             /\ ~Rests(v) => Len(ListStep(v, target).marks) = Len(v.marks) + 1
  OBVIOUS
<1> HIDE DEF Rests
<1>3. PICK f : ListWalkBy(f, target, w, V)
  <2>1. \A v \in V : ListStep(v, target) \in V
    BY <1>2
  <2> QED BY <2>1, ListWalkIs
<1>4. /\ f \in [0..Unbounded -> V] /\ f[0] = w
      /\ \A n \in 1..Unbounded : f[n] = ListStep(f[n - 1], target)
      /\ ListWalk(w, target) = f[Unbounded]
  BY <1>3 DEF ListWalkBy
<1> DEFINE M == {n \in 0..Unbounded : Rests(f[n]) \/ Len(f[n].marks) >= n}
<1>5. 0 \in M
  BY <1>1, <1>2, <1>4
<1>6. ASSUME NEW n \in 0..(Unbounded - 1), n \in M
      PROVE  n + 1 \in M
  <2>1. n \in 0..Unbounded /\ n + 1 \in 1..Unbounded /\ n + 1 \in 0..Unbounded /\ (n + 1) - 1 = n
    BY <1>1
  <2>2. f[n + 1] = ListStep(f[n], target) /\ f[n] \in V
    BY <1>4, <2>1
  <2>3. CASE Rests(f[n])
    <3>1. f[n + 1] = f[n]
      BY <1>2, <2>2, <2>3
    <3> QED BY <2>1, <2>3, <3>1
  <2>4. CASE ~Rests(f[n])
    <3>1. Len(f[n + 1].marks) = Len(f[n].marks) + 1 /\ Len(f[n].marks) \in Nat
      BY <1>2, <2>2, <2>4
    <3>2. Len(f[n].marks) >= n
      BY <1>6, <2>4
    <3>3. Len(f[n + 1].marks) >= n + 1
      BY <3>1, <3>2
    <3> QED BY <2>1, <3>3
  <2> QED BY <2>3, <2>4
<1>7. Unbounded \in M
  <2> HIDE DEF M
  <2>1. 0..Unbounded \subseteq M
    BY <1>1, <1>5, <1>6, StepInduction
  <2> QED BY <1>1, <2>1
<1>8. f[Unbounded] \in V /\ (Rests(f[Unbounded]) \/ Len(f[Unbounded].marks) >= Unbounded)
  <2>1. Unbounded \in 0..Unbounded
    BY <1>1
  <2>2. f[Unbounded] \in V
    BY <1>4, <2>1
  <2>3. Rests(f[Unbounded]) \/ Len(f[Unbounded].marks) >= Unbounded
    BY <1>7
  <2> QED BY <2>2, <2>3
<1> QED BY <1>4, <1>8 DEF Rests

\* A list has one head.
OneHead(T) == Len(T) = 1

\* A walk of a list takes the nodes after where it stands.
LEMMA ListWalkTook ==
    ASSUME NEW T, NEW N, NEW pre, Neat(T, N, pre), OneHead(T), NEW b \in Nat, NEW target \in Nat,
           NEW w, At(T, N, pre, b, w, b), w.slot = 1
    PROVE  Took(T, N, pre, b, target, ListWalk(w, target).marks)
<1> DEFINE V == {v \in Walks(T) : /\ Len(v.marks) <= target /\ v.slot = 1
                                  /\ \E k \in Nat : At(T, N, pre, b, v, k)}
           Rests(v) == Len(v.marks) >= target \/ Ends(v)
           U == Unbounded
<1>1. /\ T \in Seq(Int) /\ Len(T) \in Nat /\ N \in Seq(Objects) /\ Len(N) \in Nat
      /\ pre[1] = Len(N) /\ U \in Nat /\ Len(N) <= U
  <2>1. U \in Nat /\ Len(N) <= U
    BY NeatBounded, UnboundedIs
  <2>2. T \in Seq(Int) /\ N \in Seq(Objects) /\ pre[Len(T)] = Len(N)
    BY DEF Neat
  <2> QED BY <2>1, <2>2 DEF OneHead
<1>2. ASSUME NEW v \in V
      PROVE  /\ ListStep(v, target) \in V /\ Len(v.marks) \in Nat
             /\ Rests(v) => ListStep(v, target) = v
             /\ ~Rests(v) => Len(ListStep(v, target).marks) = Len(v.marks) + 1
  <2>1. PICK k \in Nat : At(T, N, pre, b, v, k)
    OBVIOUS
  <2>2. v.slot = 1 /\ v.marks \in Seq(Place) /\ Len(v.marks) \in Nat /\ v.slot <= Len(T)
    BY <1>1 DEF Walks, OneHead
  <2>3. CASE Rests(v)
    BY <2>2, <2>3 DEF ListStep
  <2>4. CASE ~Rests(v)
    <3>1. ListStep(v, target) = Take(v)
      BY <2>4 DEF ListStep
    <3>2. At(T, N, pre, b, Take(v), k + 1)
      BY <2>1, <2>2, <2>4, AtTake
    <3>3. v.node \in Objects
      BY <2>4 DEF Ends
    <3>4. /\ Take(v) \in Walks(T) /\ Take(v).marks = Append(v.marks, <<v.slot, v.node>>)
          /\ Take(v).slot = 1
      BY <1>1, <2>2, <3>3, TakeIs
    <3>5. Len(Take(v).marks) = Len(v.marks) + 1
      BY <2>2, <3>4
    <3>6. Len(Take(v).marks) <= target /\ k + 1 \in Nat
      BY <2>2, <2>4, <3>5
    <3> QED BY <2>2, <2>4, <3>1, <3>2, <3>4, <3>5, <3>6
  <2> QED BY <2>3, <2>4
<1>3. w \in V
  <2>1. w \in Walks(T) /\ Len(w.marks) = b - b
    BY DEF At
  <2> QED BY <2>1
<1> DEFINE v == ListWalk(w, target)
<1>4. v \in V /\ (Rests(v) \/ Len(v.marks) >= U)
  <2>1. \A u \in V : /\ ListStep(u, target) \in V /\ Len(u.marks) \in Nat
                     /\ Len(u.marks) >= target \/ Ends(u) => ListStep(u, target) = u
                     /\ ~(Len(u.marks) >= target \/ Ends(u)) =>
                           Len(ListStep(u, target).marks) = Len(u.marks) + 1
    BY <1>2, Zenon
  <2>2. w \in V
    BY <1>3
  <2> HIDE DEF V
  <2> QED BY <2>1, <2>2, ListWalkRests
<1>8. v \in V
  BY <1>4
<1>9. PICK k \in Nat : At(T, N, pre, b, v, k)
  BY <1>8
<1>10. /\ v.marks \in Seq(Place) /\ Len(v.marks) = k - b /\ k \in b..Len(N)
       /\ \A m \in 1..Len(v.marks) : Spot(T, N, pre, b + m, v.marks[m])
       /\ Len(v.marks) <= target /\ v.slot = 1
  <2>1. Len(v.marks) <= target /\ v \in Walks(T) /\ v.slot = 1
    BY <1>8
  <2> HIDE DEF v
  <2>2. v.marks \in Seq(Place)
    BY <2>1 DEF Walks
  <2> QED BY <1>9, <2>1, <2>2 DEF At
<1>11. Rests(v) \/ Len(v.marks) >= U
  BY <1>4
<1>12. /\ Ends(v) => k = Len(N)
       /\ ~Ends(v) => k < Len(N)
  <2> HIDE DEF v
  <2>1. v.slot <= Len(T) /\ pre[v.slot] = Len(N)
    BY <1>1, <1>10 DEF OneHead
  <2>2. At(T, N, pre, b, v, k)
    BY <1>9
  <2>3. /\ Ends(v) => k = pre[v.slot]
        /\ ~Ends(v) => k < pre[v.slot]
    <3>1. PICK u : u = v
      OBVIOUS
    <3>2. At(T, N, pre, b, u, k) /\ u.slot <= Len(T)
      BY <2>1, <2>2, <3>1
    <3>3. /\ Ends(u) => k = pre[u.slot]
          /\ ~Ends(u) => k < pre[u.slot]
      BY <3>2, AtEnds
    <3> QED BY <3>1, <3>3
  <2> QED BY <2>1, <2>3
<1>13. Len(v.marks) >= target \/ k = Len(N)
  <2> HIDE DEF v, V, U
  <2> QED BY <1>1, <1>10, <1>11, <1>12
<1> HIDE DEF v
<1>14. Len(v.marks) = Lesser(target, Len(N) - b)
  BY <1>1, <1>10, <1>13 DEF Lesser
<1>15. Took(T, N, pre, b, target, v.marks)
  BY <1>10, <1>14 DEF Took
<1> QED BY <1>15 DEF v

\* The walk from the head of a slot to a place comes past nothing but what lies
\* before it.
LEMMA ResumeAt ==
    ASSUME NEW T, NEW N, NEW pre, Neat(T, N, pre), NEW k \in Nat, NEW p,
           Spot(T, N, pre, k + 1, p)
    PROVE  At(T, N, pre, k, Resume(StartAt(T, p[1]), p[2]), k)
<1> DEFINE s == p[1]
           x == p[2]
           a == pre[s - 1]
           start == StartAt(T, s)
           U == Unbounded + 1
           Q(v, j) == /\ v \in Walks(T) /\ v.marks = <<>> /\ v.slot = s
                      /\ j \in a..k /\ v.node = N[j + 1] /\ v.seen \subseteq {N[i] : i \in 1..j}
           V == {v \in Walks(T) : \E j \in Nat : Q(v, j)}
<1>1. /\ T \in Seq(Int) /\ N \in Seq(Objects) /\ Len(T) \in Nat /\ Len(N) \in Nat
      /\ pre \in [0..Len(T) -> 0..Len(N)] /\ Unbounded \in Nat /\ Len(N) <= Unbounded
  <2>1. T \in Seq(Int) /\ N \in Seq(Objects) /\ pre \in [0..Len(T) -> 0..Len(N)]
    BY DEF Neat
  <2>2. Unbounded \in Nat /\ Len(N) <= Unbounded
    BY UnboundedIs, NeatBounded
  <2> QED BY <2>1, <2>2
<1>2. /\ s \in 1..Len(T) /\ x = N[k + 1] /\ k + 1 \in (a + 1)..pre[s] /\ p \in Place
  BY DEF Spot
<1>3. a \in 0..Len(N) /\ pre[s] \in 0..Len(N) /\ a <= k /\ k < pre[s] /\ k < Len(N) /\ a \in Nat
      /\ pre[s] \in Nat
  <2>1. s - 1 \in 0..Len(T) /\ s \in 0..Len(T)
    BY <1>1, <1>2
  <2>2. a \in 0..Len(N) /\ pre[s] \in 0..Len(N)
    BY <1>1, <2>1
  <2> HIDE DEF s
  <2> QED BY <1>1, <1>2, <2>2
<1>4. /\ Here(N, pre, s, a, T[s])
      /\ \A j \in (a + 1)..pre[s] : Here(N, pre, s, j, NextOf(N[j]))
      /\ \A i, j \in 1..Len(N) : N[i] = N[j] => i = j
  BY <1>2 DEF Neat
<1>5. start = [from |-> s, slot |-> s, node |-> T[s], marks |-> <<>>, seen |-> {}]
  <2>1. ~(s > Len(T))
    BY <1>1, <1>2
  <2> QED BY <2>1 DEF StartAt
<1> HIDE DEF s, x, a, start
<1>6. start \in V /\ Q(start, a)
  <2>1. <<>> \in Seq(Place) /\ s \in 1..(Len(T) + 1) /\ s \in Int /\ T[s] \in Int
    BY <1>1, <1>2
  <2>2. start \in Walks(T)
    BY <1>5, <2>1 DEF Walks
  <2>3. T[s] = N[a + 1]
    <3>1. a < pre[s]
      BY <1>3
    <3> QED BY <1>4, <3>1 DEF Here
  <2>4. a \in a..k
    BY <1>3
  <2>5. start.marks = <<>> /\ start.slot = s /\ start.node = T[s] /\ start.seen = {}
    BY <1>5
  <2>6. Q(start, a)
    BY <2>2, <2>3, <2>4, <2>5
  <2> QED BY <1>3, <2>2, <2>6
<1>7. ASSUME NEW v, NEW j \in Nat, Q(v, j)
      PROVE  /\ j = k => ResumeStep(v, x) = v
             /\ j # k => Q(ResumeStep(v, x), j + 1)
  <2>1. CASE j = k
    BY <1>2, <1>7, <2>1 DEF ResumeStep
  <2>2. CASE j # k
    <3>1. /\ j \in a..k /\ j < k /\ j + 1 \in 1..Len(N) /\ j + 1 \in a..k /\ k + 1 \in 1..Len(N)
          /\ j + 1 \in (a + 1)..pre[s] /\ j + 1 < pre[s]
      <4>1. j \in a..k
        BY <1>7
      <4> QED BY <1>1, <1>3, <2>2, <4>1
    <3>2. v.node = N[j + 1] /\ v.node \in Objects /\ v.node # x /\ v.node # 0
      <4>1. v.node = N[j + 1]
        BY <1>7
      <4>2. v.node \in Objects
        BY <1>1, <3>1, <4>1
      <4>3. N[j + 1] # N[k + 1]
        BY <1>4, <3>1
      <4> QED BY <1>2, <4>1, <4>2, <4>3, ObjectsFinite
    <3>3. v.node \notin v.seen
      <4> SUFFICES ASSUME v.node \in v.seen PROVE FALSE
        OBVIOUS
      <4>1. PICK i \in 1..j : N[i] = N[j + 1]
        BY <1>7, <3>2
      <4>2. i \in 1..Len(N) /\ i # j + 1
        BY <1>1, <3>1
      <4> QED BY <1>4, <3>1, <4>1, <4>2
    <3> DEFINE y == NextOf(v.node)
               S == v.seen \cup {v.node}
               u == ResumeStep(v, x)
    <3>4. u = [v EXCEPT !.seen = S, !.node = y]
      BY <3>2, <3>3 DEF ResumeStep
    <3>5. y = N[(j + 1) + 1]
      <4>1. Here(N, pre, s, j + 1, NextOf(N[j + 1]))
        BY <1>4, <3>1
      <4> QED BY <3>1, <3>2, <4>1 DEF Here
    <3>6. S \subseteq {N[i] : i \in 1..(j + 1)}
      <4>1. v.seen \subseteq {N[i] : i \in 1..j}
        BY <1>7
      <4>2. j + 1 \in 1..(j + 1) /\ \A i \in 1..j : i \in 1..(j + 1)
        OBVIOUS
      <4> QED BY <3>2, <4>1, <4>2
    <3>7. S \in SUBSET Objects /\ y \in Int /\ v \in Walks(T)
      <4>1. v \in Walks(T)
        BY <1>7
      <4>2. v.seen \in SUBSET Objects
        BY <4>1 DEF Walks
      <4> QED BY <3>2, <4>1, <4>2, NextOfIs
    <3> HIDE DEF S, y, u
    <3>8. /\ u \in Walks(T) /\ u.marks = v.marks /\ u.slot = v.slot /\ u.node = y /\ u.seen = S
      BY <3>4, <3>7 DEF Walks
    <3>9. v.marks = <<>> /\ v.slot = s
      BY <1>7
    <3>10. Q(u, j + 1)
      BY <3>1, <3>5, <3>6, <3>8, <3>9
    <3> QED BY <2>2, <3>10 DEF u
  <2> QED BY <2>1, <2>2
<1>8. ASSUME NEW v \in V
      PROVE  ResumeStep(v, x) \in V
  <2>1. PICK j \in Nat : Q(v, j)
    OBVIOUS
  <2> HIDE DEF Q
  <2>2. CASE j = k
    BY <1>7, <2>1, <2>2
  <2>3. CASE j # k
    <3>1. Q(ResumeStep(v, x), j + 1) /\ j + 1 \in Nat
      BY <1>7, <2>1, <2>3
    <3>2. ResumeStep(v, x) \in Walks(T)
      BY <3>1 DEF Q
    <3> QED BY <3>1, <3>2
  <2> QED BY <2>2, <2>3
<1>16. PICK f : ResumeBy(f, start, x)
  <2>1. start \in V /\ \A v \in V : ResumeStep(v, x) \in V
    BY <1>6, <1>8
  <2> HIDE DEF V
  <2> QED BY <2>1, ResumeIs
<1>9. /\ f[0] = start
      /\ \A n \in 1..U : f[n] = ResumeStep(f[n - 1], x)
      /\ Resume(start, x) = f[U]
  BY <1>16 DEF ResumeBy
<1> HIDE DEF Q, V
<1> DEFINE M == {n \in 0..U : \E j \in Nat : Q(f[n], j) /\ (j = k \/ j >= n)}
<1>10. 0 \in M
  BY <1>1, <1>3, <1>6, <1>9
<1>11. ASSUME NEW n \in 0..(U - 1), n \in M
       PROVE  n + 1 \in M
  <2>1. n \in 0..U /\ n + 1 \in 1..U /\ n + 1 \in 0..U /\ (n + 1) - 1 = n
    BY <1>1
  <2>2. PICK j \in Nat : Q(f[n], j) /\ (j = k \/ j >= n)
    BY <1>11
  <2>3. f[n + 1] = ResumeStep(f[n], x)
    BY <1>9, <2>1
  <2>4. CASE j = k
    <3>1. Q(f[n + 1], k)
      BY <1>7, <2>2, <2>3, <2>4
    <3> QED BY <2>1, <3>1
  <2>5. CASE j # k
    <3>1. Q(f[n + 1], j + 1) /\ j + 1 \in Nat /\ j + 1 >= n + 1
      BY <1>7, <2>1, <2>2, <2>3, <2>5
    <3> QED BY <2>1, <3>1
  <2> QED BY <2>4, <2>5
<1>12. U \in M
  <2>0. U \in Nat
    BY <1>1
  <2> HIDE DEF M, U
  <2>1. 0..U \subseteq M
    BY <2>0, <1>10, <1>11, StepInduction
  <2> QED BY <2>0, <2>1
<1>13. PICK j \in Nat : Q(f[U], j) /\ (j = k \/ j >= U)
  BY <1>12
<1> DEFINE r == f[U]
<1>14. Q(r, k)
  <2>1. j \in a..k
    BY <1>13 DEF Q
  <2>2. j = k
    BY <1>1, <1>3, <1>13, <2>1
  <2> QED BY <1>13, <2>2
<1> HIDE DEF r
<1>15. /\ r \in Walks(T) /\ r.marks = <<>> /\ r.slot = s /\ r.node = N[k + 1]
       /\ r.seen \subseteq {N[i] : i \in 1..k}
  BY <1>14 DEF Q
<1>17. At(T, N, pre, k, r, k)
  <2>1. k \in k..Len(N) /\ Len(r.marks) = k - k /\ r.slot <= Len(T)
    BY <1>1, <1>2, <1>3, <1>15
  <2>2. pre[r.slot - 1] <= k /\ k <= pre[r.slot]
    BY <1>3, <1>15 DEF a
  <2>3. Here(N, pre, r.slot, k, r.node)
    BY <1>3, <1>15 DEF Here
  <2>4. \A m \in 1..Len(r.marks) : Spot(T, N, pre, k + m, r.marks[m])
    BY <1>15
  <2> QED BY <1>15, <2>1, <2>2, <2>3, <2>4 DEF At
<1> QED BY <1>9, <1>17 DEF r, start, s, x

\* A walk from the head has come past nothing.
LEMMA HeadAt ==
    ASSUME NEW T, NEW N, NEW pre, Neat(T, N, pre)
    PROVE  At(T, N, pre, 0, StartAt(T, 1), 0)
<1> DEFINE x == IF 1 > Len(T) THEN 0 ELSE T[1]
           w == StartAt(T, 1)
<1>1. w = [from |-> 1, slot |-> 1, node |-> x, marks |-> <<>>, seen |-> {}]
  BY DEF StartAt
<1>2. /\ T \in Seq(Int) /\ N \in Seq(Objects) /\ Len(T) \in Nat /\ Len(N) \in Nat
      /\ pre[0] = 0 /\ pre[Len(T)] = Len(N) /\ pre \in [0..Len(T) -> 0..Len(N)]
  BY DEF Neat
<1>3. x \in Int /\ <<>> \in Seq(Place)
  BY <1>2
<1>4. 1 <= Len(T) => x = T[1] /\ 1 \in 1..Len(T)
  BY <1>2
<1> HIDE DEF w, x
<1>5. w \in Walks(T) /\ w.slot = 1 /\ w.node = x /\ w.marks = <<>> /\ w.seen = {}
  BY <1>1, <1>2, <1>3 DEF Walks
<1>6. CASE 1 <= Len(T)
  <2>1. pre[1 - 1] <= pre[1] /\ Here(N, pre, 1, pre[1 - 1], T[1])
    BY <1>4, <1>6 DEF Neat
  <2>2. 0 <= pre[1] /\ Here(N, pre, 1, 0, x) /\ pre[1 - 1] <= 0
    BY <1>2, <1>4, <1>6, <2>1
  <2> QED BY <1>2, <1>5, <1>6, <2>2 DEF At, w
<1>7. CASE ~(1 <= Len(T))
  <2>1. Len(N) = 0
    BY <1>2, <1>7
  <2> QED BY <1>2, <1>5, <1>7, <2>1 DEF At, w
<1> QED BY <1>6, <1>7

\* The walk of a list goes on from the node of a checkpoint with nothing seen.
LEMMA ListAt ==
    ASSUME NEW T, NEW N, NEW pre, Neat(T, N, pre), OneHead(T), NEW k \in 0..Len(N), NEW x \in Int,
           IF k < Len(N) THEN x = N[k + 1] ELSE x \notin Objects
    PROVE  LET w == [StartAt(<<>>, 1) EXCEPT !.node = x]
           IN  At(T, N, pre, k, w, k) /\ w.slot = 1
<1> DEFINE w == [StartAt(<<>>, 1) EXCEPT !.node = x]
<1>2. /\ T \in Seq(Int) /\ N \in Seq(Objects) /\ Len(T) \in Nat /\ Len(N) \in Nat
      /\ pre[0] = 0 /\ pre[Len(T)] = Len(N) /\ Len(T) = 1
  BY DEF Neat, OneHead
<1>3. w \in Walks(T) /\ w.slot = 1 /\ w.node = x /\ w.marks = <<>> /\ w.seen = {}
  <2> DEFINE s == StartAt(<<>>, 1)
  <2>1. /\ s.marks = <<>> /\ s.seen = {} /\ s.slot = 1
        /\ s \in [from : {1}, slot : {1}, node : Int, marks : Seq(Place), seen : SUBSET Objects]
    BY DEF StartAt
  <2>2. 1 \in 1..(Len(T) + 1)
    BY <1>2
  <2> HIDE DEF s
  <2> DEFINE u == [s EXCEPT !.node = x]
  <2>3. u \in Walks(T) /\ u.slot = 1 /\ u.node = x /\ u.marks = <<>> /\ u.seen = {}
    BY <2>1, <2>2 DEF Walks
  <2> QED BY <2>3 DEF s
<1> HIDE DEF w
<1>4. /\ k \in k..Len(N) /\ Len(w.marks) = k - k /\ w.slot <= Len(T) /\ k \in Nat
      /\ pre[w.slot - 1] <= k /\ k <= pre[w.slot] /\ pre[w.slot] = Len(N)
  BY <1>2, <1>3
<1>5. Here(N, pre, w.slot, k, w.node)
  BY <1>3, <1>4 DEF Here
<1>6. \A m \in 1..Len(w.marks) : Spot(T, N, pre, k + m, w.marks[m])
  BY <1>3
<1>7. At(T, N, pre, k, w, k)
  BY <1>3, <1>4, <1>5, <1>6 DEF At
<1> QED BY <1>3, <1>7 DEF w

-----------------------------------------------------------------------------
(* Skip-indexes of tidy collections                                        *)

\* The place of the k-th entry of a collection.
PlaceIn(c, k, p) == Spot(HeadsOf(c), NodesOf(c), Order(c), k, p)

\* Checkpoint i is the place of entry (i - 1) * SkipInterval, counted from zero.
Placed(c, si) ==
    \A i \in 1..Len(si.checkpoints) : PlaceIn(c, (i - 1) * SkipInterval + 1, si.checkpoints[i])

\* Marks of the entries they are numbered as leave such checkpoints.
LEMMA RecordAllPlaced ==
    ASSUME NEW c, NEW si \in Indexes, Placed(c, si), NEW base \in Nat, NEW marks \in Seq(Place),
           \A m \in 1..Len(marks) : PlaceIn(c, base + m, marks[m])
    PROVE  Placed(c, RecordAll(si, base, marks))
<1> DEFINE I == SkipInterval
           N == Len(marks)
           V == {v \in Indexes : Placed(c, v)}
<1>1. I \in Nat \ {0} /\ N \in Nat /\ \A m \in 1..N : marks[m] \in Place
  BY PagingAssumption
<1>2. ASSUME NEW v \in V, NEW m \in 1..N
      PROVE  SI!Record(v, base + m - 1, marks[m]) \in V
  <2> DEFINE e == base + m - 1
             p == marks[m]
             L == Len(v.checkpoints)
             u == SI!Record(v, e, p)
             cps == Append(v.checkpoints, p)
  <2>0. v \in Indexes /\ Placed(c, v) /\ L \in Nat /\ p \in Place /\ v.checkpoints \in Seq(Place)
    BY <1>1 DEF Indexes
  <2>1. PlaceIn(c, e + 1, p)
    <3>1. e + 1 = base + m
      OBVIOUS
    <3> HIDE DEF e
    <3> QED BY <3>1
  <2> HIDE DEF e, p
  <2>2. CASE e # L * I
    <3>1. u = v
      BY <2>2 DEF SI!Record
    <3> QED BY <3>1 DEF e, p
  <2>3. CASE e = L * I
    <3>1. u = [v EXCEPT !.checkpoints = cps]
      BY <2>3 DEF SI!Record
    <3>2. /\ cps \in Seq(Place) /\ Len(cps) = L + 1 /\ cps[L + 1] = p
          /\ \A i \in 1..L : cps[i] = v.checkpoints[i]
      BY <2>0
    <3> HIDE DEF cps, u, V
    <3>3. u \in Indexes /\ u.checkpoints = cps
      BY <2>0, <3>1, <3>2 DEF Indexes
    <3>4. ASSUME NEW i \in 1..(L + 1)
          PROVE  PlaceIn(c, (i - 1) * I + 1, cps[i])
      <4>1. CASE i = L + 1
        <5>1. (i - 1) * I = e
          BY <2>0, <2>3, <4>1
        <5> QED BY <2>1, <3>2, <4>1, <5>1
      <4>2. CASE i # L + 1
        <5>1. i \in 1..L
          BY <2>0, <4>2
        <5> QED BY <2>0, <3>2, <5>1 DEF Placed
      <4> QED BY <4>1, <4>2
    <3>5. Placed(c, u)
      BY <3>2, <3>3, <3>4 DEF Placed
    <3> QED BY <3>3, <3>5 DEF V, u, e, p
  <2> QED BY <2>2, <2>3
<1>3. si \in V
  OBVIOUS
<1>8. PICK f : RecordAllBy(f, si, base, marks)
  <2>1. /\ Len(marks) \in Nat
        /\ \A v \in V : \A m \in 1..Len(marks) : SI!Record(v, base + m - 1, marks[m]) \in V
    BY <1>1, <1>2
  <2> HIDE DEF V
  <2> QED BY <1>3, <2>1, RecordAllIs
<1>4. /\ f[0] = si
      /\ \A m \in 1..N : f[m] = SI!Record(f[m - 1], base + m - 1, marks[m])
      /\ RecordAll(si, base, marks) = f[N]
  BY <1>8 DEF RecordAllBy
<1> DEFINE M == {m \in 0..N : f[m] \in V}
<1>5. 0 \in M
  BY <1>1, <1>3, <1>4
<1>6. ASSUME NEW m \in 0..(N - 1), m \in M
      PROVE  m + 1 \in M
  <2>1. m + 1 \in 1..N /\ m + 1 \in 0..N /\ (m + 1) - 1 = m
    BY <1>1
  <2>2. f[m + 1] = SI!Record(f[m], base + (m + 1) - 1, marks[m + 1])
    BY <1>4, <2>1
  <2>3. f[m] \in V
    BY <1>6
  <2> HIDE DEF V
  <2>4. f[m + 1] \in V
    BY <1>2, <2>1, <2>2, <2>3
  <2> QED BY <2>1, <2>4
<1>7. N \in M
  <2> HIDE DEF M, N
  <2>1. 0..N \subseteq M
    BY <1>1, <1>5, <1>6, StepInduction
  <2> QED BY <1>1, <2>1
<1> QED BY <1>4, <1>7

\* What a request has of a skip-index.
PlacedIndex(c, index) ==
    /\ \A si \in index : si \in Indexes /\ Placed(c, si)
    /\ \A si, sj \in index : si = sj

LEMMA RecordedPlaced ==
    ASSUME NEW c, NEW index, GoodIndex(c, index), PlacedIndex(c, index), NEW base \in Nat,
           NEW marks \in Seq(Place), NEW done,
           \A m \in 1..Len(marks) : PlaceIn(c, base + m, marks[m])
    PROVE  \A si \in Finished(Recorded(index, base, marks), done) : Placed(c, si)
<1>1. \A si \in Recorded(index, base, marks) : Placed(c, si)
  BY RecordAllPlaced DEF Recorded, PlacedIndex
<1>2. \A si : Placed(c, si) => Placed(c, SI!MarkComplete(si))
  BY DEF Placed, SI!MarkComplete
<1> QED BY <1>1, <1>2 DEF Finished

-----------------------------------------------------------------------------
(* Pages of the range asked for                                            *)

\* A window of the right entries, numbered right, is the part asked for.
LEMMA PartOfVisible ==
    ASSUME NEW r \in Ranges, NEW es, Len(es) \in Nat, NEW visible, NEW n \in Nat,
           DOMAIN visible = 1..n, Len(visible) = n, NEW total \in Int, NEW offset \in Int,
           n = Lesser(r.offset + r.limit, Len(es)) - Lesser(r.offset, Len(es)),
           \A i \in 1..n : visible[i] = es[r.offset + i],
           n # 0 => offset = r.offset,
           r.offset < total =>
             (offset + n < total <=> Lesser(r.offset + r.limit, Len(es)) < total)
    PROVE  Server!IsPart(Page(visible, total, offset), es, total, r)
<1> DEFINE p == Page(visible, total, offset)
           before == Server!Lower(r.offset, Len(es))
           upTo == Server!Lower(r.offset + r.limit, Len(es))
<1>1. /\ p.entries = [i \in 1..n |-> [index |-> offset + i - 1, entry |-> visible[i]]]
      /\ p.total = total /\ p.more = (offset + n < total)
  BY DEF Page
<1>2. upTo - before = n /\ upTo = Lesser(r.offset + r.limit, Len(es))
  BY DEF Server!Lower, Lesser
<1> HIDE DEF p, before, upTo
<1>3. \A i \in 1..n : offset = r.offset
  OBVIOUS
<1>4. [i \in 1..n |-> [index |-> offset + i - 1, entry |-> visible[i]]]
        = [i \in 1..n |-> [index |-> r.offset + i - 1, entry |-> es[r.offset + i]]]
  BY <1>3
<1>5. p.entries = [i \in 1..(upTo - before) |->
                     [index |-> r.offset + i - 1, entry |-> es[r.offset + i]]]
  BY <1>1, <1>2, <1>4
<1>6. r.offset < total => p.more = (upTo < total)
  BY <1>1, <1>2
<1> QED BY <1>1, <1>5, <1>6 DEF Server!IsPart, p, before, upTo

\* What is served at the start is nothing.
LEMMA InitServes == Init => Server!Init
<1> SUFFICES ASSUME Init PROVE Shown = Server!Nothing
  BY DEF Server!Init
<1>1. served = [collection |-> 0, range |-> [offset |-> 0, limit |-> 0], page |-> {}]
  BY DEF Init, Nothing
<1>2. Shown = [served EXCEPT !.page = [entries |-> <<>>, total |-> 0, more |-> FALSE]]
  BY <1>1 DEF Shown
<1> QED BY <1>1, <1>2 DEF Server!Nothing

\* A window, entry by entry.
LEMMA WindowIs ==
    ASSUME NEW S, NEW all \in Seq(S), NEW from \in Nat, NEW limit \in Nat
    PROVE  LET n == IF from < Len(all) THEN Lesser(from + limit, Len(all)) - from ELSE 0
               w == Window(all, from, limit)
           IN  /\ n \in Nat /\ DOMAIN w = 1..n /\ Len(w) = n
               /\ \A i \in 1..n : w[i] = all[from + i]
<1> DEFINE n == IF from < Len(all) THEN Lesser(from + limit, Len(all)) - from ELSE 0
           w == Window(all, from, limit)
           to == Lesser(from + limit, Len(all))
<1>1. Len(all) \in Nat /\ to \in Nat /\ to <= Len(all) /\ n \in Nat
  BY DEF Lesser
<1>2. (from + 1 <= to <=> n > 0) /\ (from < Len(all) => to - from = n)
  BY <1>1 DEF Lesser
<1>3. w = SubSeq(all, from + 1, to)
  BY DEF Window
<1>4. \A i \in (from + 1)..to : all[i] \in S
  BY <1>1
<1> HIDE DEF n, to, w
<1>5. /\ w \in Seq(S) /\ Len(w) = IF from + 1 <= to THEN to - (from + 1) + 1 ELSE 0
      /\ \A i \in 1..(to - (from + 1) + 1) : w[i] = all[(from + 1) + i - 1]
  BY <1>1, <1>3, <1>4, SubSeqProperties
<1>6. Len(w) = n
  BY <1>1, <1>2, <1>5 DEF to, n
<1>7. DOMAIN w = 1..n
  BY <1>5, <1>6
<1>8. ASSUME NEW i \in 1..n
      PROVE  w[i] = all[from + i]
  <2>1. n > 0 /\ from < Len(all)
    BY <1>1 DEF n
  <2>2. i \in 1..(to - (from + 1) + 1) /\ (from + 1) + i - 1 = from + i
    BY <1>1, <1>2, <2>1
  <2> QED BY <1>5, <2>2
<1> QED BY <1>1, <1>6, <1>7, <1>8 DEF n, w

\* What is seen of what a walk from entry b took is the range asked for, if it
\* took what there is of it.
LEMMA PartOfSeen ==
    ASSUME NEW r \in Ranges, NEW es, Len(es) \in Nat, NEW taken \in Nat, NEW b \in Nat,
           b <= r.offset, NEW total \in Int, NEW from \in Nat, NEW n \in Nat, NEW visible,
           n = IF from < taken THEN Lesser(from + r.limit, taken) - from ELSE 0,
           DOMAIN visible = 1..n, Len(visible) = n,
           \A i \in 1..n : visible[i] = es[b + (from + i)],
           r.offset < Len(es) =>
             /\ from = r.offset - b
             /\ Lesser(from + r.limit, taken) = Lesser(r.offset + r.limit, Len(es)) - b,
           r.offset >= Len(es) =>
             from >= taken /\ (r.offset < total => b + from < total /\ Len(es) < total)
    PROVE  Server!IsPart(Page(visible, total, b + from), es, total, r)
<1> DEFINE off == r.offset
           lim == r.limit
           LE == Len(es)
           upTo == Lesser(off + lim, LE)
<1>1. off \in Nat /\ lim \in Nat /\ lim # 0 /\ LE \in Nat
  BY PagingAssumption
<1>2. n = IF from < taken THEN Lesser(from + lim, taken) - from ELSE 0
  OBVIOUS
<1>3. b <= off /\ \A i \in 1..n : visible[i] = es[b + (from + i)]
  OBVIOUS
<1>4. off < LE => from = off - b /\ Lesser(from + lim, taken) = upTo - b
  OBVIOUS
<1>5. off >= LE => from >= taken /\ (off < total => b + from < total /\ LE < total)
  OBVIOUS
<1> HIDE DEF off, lim, LE
<1>6. upTo \in Int
  BY <1>1 DEF Lesser
<1>7. CASE off < LE
  <2>1. from = off - b /\ Lesser(from + lim, taken) = upTo - b
    BY <1>4, <1>7
  <2>2. off < upTo /\ Lesser(off, LE) = off
    BY <1>1, <1>7 DEF Lesser
  <2>3. from < taken /\ upTo - b <= taken
    <3> HIDE DEF upTo
    <3> QED BY <1>1, <1>3, <1>6, <2>1, <2>2 DEF Lesser
  <2> HIDE DEF upTo
  <2>4. n = upTo - Lesser(off, LE) /\ b + from = off /\ off + n = upTo
    BY <1>1, <1>2, <1>3, <1>6, <2>1, <2>2, <2>3
  <2>6. ASSUME NEW i \in 1..n
        PROVE  visible[i] = es[off + i]
    <3>1. b + (from + i) = off + i
      BY <1>1, <2>4
    <3> QED BY <1>3, <3>1
  <2>7. Server!IsPart(Page(visible, total, b + from), es, total, r)
    <3>1. n = Lesser(r.offset + r.limit, Len(es)) - Lesser(r.offset, Len(es))
      BY <2>4 DEF off, lim, LE, upTo
    <3>2. /\ \A i \in 1..n : visible[i] = es[r.offset + i]
          /\ b + from = r.offset /\ r.offset \in Int
      BY <1>1, <2>4, <2>6 DEF off
    <3>3. (b + from) + n < total <=> Lesser(r.offset + r.limit, Len(es)) < total
      BY <2>4 DEF off, lim, LE, upTo
    <3>4. Len(es) \in Nat
      OBVIOUS
    <3> DEFINE o == b + from
    <3> HIDE DEF o
    <3> QED BY <1>2, <3>1, <3>2, <3>3, <3>4, PartOfVisible DEF o
  <2> QED BY <2>7
<1>8. CASE ~(off < LE)
  <2>1. from >= taken /\ (off < total => b + from < total /\ LE < total)
    BY <1>1, <1>5, <1>8
  <2>2. n = 0
    BY <1>1, <1>2, <2>1
  <2>3. upTo = LE /\ Lesser(off, LE) = LE
    BY <1>1, <1>8 DEF Lesser
  <2> HIDE DEF upTo
  <2>4. Server!IsPart(Page(visible, total, b + from), es, total, r)
    <3>1. n = Lesser(r.offset + r.limit, Len(es)) - Lesser(r.offset, Len(es))
      <4>1. n = upTo - Lesser(off, LE)
        BY <1>1, <2>2, <2>3
      <4> QED BY <4>1 DEF off, lim, LE, upTo
    <3>2. r.offset < total => ((b + from) + n < total <=> Lesser(r.offset + r.limit, Len(es)) < total)
      <4>1. off < total => ((b + from) + n < total <=> upTo < total)
        BY <1>1, <2>1, <2>2, <2>3
      <4> QED BY <4>1 DEF off, lim, LE, upTo
    <3>3. Len(es) \in Nat
      OBVIOUS
    <3> DEFINE o == b + from
    <3>4. o \in Int
      OBVIOUS
    <3>5. \A i \in 1..n : visible[i] = es[r.offset + i]
      BY <2>2
    <3> HIDE DEF o
    <3> QED BY <1>2, <2>2, <3>1, <3>2, <3>3, <3>4, <3>5, PartOfVisible DEF o
  <2> QED BY <2>4
<1> QED BY <1>7, <1>8

LEMMA PartOfWindow ==
    ASSUME NEW r \in Ranges, NEW es, Len(es) \in Nat, NEW S, NEW all \in Seq(S), NEW b \in Nat,
           b <= r.offset, NEW total \in Int, NEW from \in Nat,
           \A m \in 1..Len(all) : all[m] = es[b + m],
           r.offset < Len(es) =>
             /\ from = r.offset - b
             /\ Lesser(from + r.limit, Len(all)) = Lesser(r.offset + r.limit, Len(es)) - b,
           r.offset >= Len(es) =>
             from >= Len(all) /\ (r.offset < total => b + from < total /\ Len(es) < total)
    PROVE  Server!IsPart(Page(Window(all, from, r.limit), total, b + from), es, total, r)
<1> DEFINE w == Window(all, from, r.limit)
           n == IF from < Len(all) THEN Lesser(from + r.limit, Len(all)) - from ELSE 0
<1>1. n \in Nat /\ DOMAIN w = 1..n /\ Len(w) = n /\ \A i \in 1..n : w[i] = all[from + i]
  <2>1. r.limit \in Nat
    BY PagingAssumption
  <2> QED BY <2>1, WindowIs, Zenon
<1>2. Len(all) \in Nat /\ r.limit \in Nat
  BY PagingAssumption
<1>3. n = IF from < Len(all) THEN Lesser(from + r.limit, Len(all)) - from ELSE 0
  OBVIOUS
<1> HIDE DEF n, w
<1>4. ASSUME NEW i \in 1..n
      PROVE  w[i] = es[b + (from + i)]
  <2>1. from + i \in 1..Len(all)
    BY <1>1, <1>2, <1>3 DEF Lesser
  <2> QED BY <1>1, <2>1
<1>5. Server!IsPart(Page(w, total, b + from), es, total, r)
  BY <1>1, <1>2, <1>3, <1>4, PartOfSeen
<1> QED BY <1>5 DEF w

\* A reply serves the range asked for of such entries, and its checkpoints are
\* in their places.
Serving(c, reply, es, total, r) ==
    /\ \A si \in reply.index : Placed(c, si)
    /\ \E visible, offset : LET page == Page(visible, total, offset)
                          IN  reply.page = {page} /\ Server!IsPart(page, es, total, r)

\* A reply of a walk from entry `base` on.
LEMMA ReplyServes ==
    ASSUME NEW c, NEW index, GoodIndex(c, index), PlacedIndex(c, index), NEW base \in Nat,
           NEW walk, walk.marks \in Seq(Place), NEW done, NEW batched,
           \A m \in 1..Len(walk.marks) : PlaceIn(c, base + m, walk.marks[m]),
           NEW r \in Ranges, NEW es, Len(es) \in Nat, NEW S, NEW all \in Seq(S),
           base <= r.offset, NEW total \in Int, NEW from \in Nat,
           \A m \in 1..Len(all) : all[m] = es[base + m],
           r.offset < Len(es) =>
             /\ from = r.offset - base
             /\ Lesser(from + r.limit, Len(all)) = Lesser(r.offset + r.limit, Len(es)) - base,
           r.offset >= Len(es) =>
             from >= Len(all) /\ (r.offset < total => base + from < total /\ Len(es) < total)
    PROVE  Serving(c, Reply(walk, all, base, from, total, r, index, done, batched), es, total, r)
<1> DEFINE reply == Reply(walk, all, base, from, total, r, index, done, batched)
           p == Page(Window(all, from, r.limit), total, base + from)
           marks == walk.marks
<1>1. /\ reply.page = {p} /\ reply.index = Finished(Recorded(index, base, marks), done)
  BY DEF Reply
<1>2. Server!IsPart(p, es, total, r)
  BY PartOfWindow
<1>3. marks \in Seq(Place) /\ \A m \in 1..Len(marks) : PlaceIn(c, base + m, marks[m])
  OBVIOUS
<1> HIDE DEF reply, p, marks
<1>4. \A si \in Finished(Recorded(index, base, marks), done) : Placed(c, si)
  BY <1>3, RecordedPlaced
<1>5. \E visible, offset : p = Page(visible, total, offset)
  BY DEF p
<1> QED BY <1>1, <1>2, <1>4, <1>5 DEF Serving, reply

\* The checkpoint a request begins at is the place of an entry before its range.
LEMMA NearestPlaced ==
    ASSUME NEW c, NEW index, PlacedIndex(c, index), NEW r \in Ranges, NEW cp \in Nearest(index, r)
    PROVE  cp.index \in Nat /\ cp.index <= r.offset /\ PlaceIn(c, cp.index + 1, cp.node)
<1>1. PICK si \in index : si.checkpoints # <<>> /\ cp = SI!NearestBefore(si, r.offset)
  BY DEF Nearest
<1> DEFINE i == SI!NearestPosition(si, r.offset)
           L == Len(si.checkpoints)
           I == SkipInterval
           q == r.offset \div I
<1>2. r.offset \in Nat /\ I \in Nat \ {0} /\ Placed(c, si) /\ si.checkpoints \in Seq(Place)
      /\ L \in Nat \ {0}
  <2>1. r.offset \in Nat /\ I \in Nat \ {0} /\ Placed(c, si) /\ si.checkpoints \in Seq(Place)
    BY PagingAssumption DEF PlacedIndex, Indexes
  <2> QED BY <1>1, <2>1
<1>3. q \in Nat /\ I * q <= r.offset
  BY <1>2
<1>4. i \in 0..(L - 1) /\ i <= q
  BY <1>2, <1>3 DEF SI!NearestPosition
<1>5. cp = [index |-> i * I, node |-> si.checkpoints[i + 1]]
  BY <1>1 DEF SI!NearestBefore
<1> HIDE DEF i, q
<1>6. I * i <= I * q /\ I * i = i * I /\ i * I \in Nat /\ I * q \in Nat
  BY <1>2, <1>3, <1>4, TimesMore
<1>7. i + 1 \in 1..L /\ ((i + 1) - 1) * I + 1 = i * I + 1
  BY <1>2, <1>4
<1>8. PlaceIn(c, i * I + 1, si.checkpoints[i + 1])
  BY <1>2, <1>7 DEF Placed
<1>9. i * I <= r.offset
  BY <1>2, <1>3, <1>6
<1> QED BY <1>5, <1>6, <1>8, <1>9

\* The pairs of a map, with the values in such a field.
PairsOf(c, valueName) ==
    [i \in 1..Len(NodesOf(c)) |-> [key   |-> FieldCalled(NodesOf(c)[i], "key"),
                                   value |-> FieldCalled(NodesOf(c)[i], valueName)]]

\* A page of a walk of a tidy map that stands at an entry before its range.
LEMMA PageFromServes ==
    ASSUME NEW c, Tidy(c), TablesOf(c) # {}, NEW index, GoodIndex(c, index), PlacedIndex(c, index),
           NEW r \in Ranges, NEW base \in Nat, base <= r.offset, NEW K, NEW start,
           Stands(TableOf(c), base, K, start),
           At(TableOf(c), NodesOf(c), Order(c), base, start, base),
           NEW total \in Int, NEW valueName, NEW batched
    PROVE  Serving(c, PageFrom(start, base, r.offset - base + r.limit, TableOf(c), total, valueName,
                               r, index, batched),
                   PairsOf(c, valueName), total, r)
<1> DEFINE T == TableOf(c)
           N == NodesOf(c)
           target == r.offset - base + r.limit
           walk == MapWalk(T, start, target)
           marks == walk.marks
           all == [i \in DOMAIN marks |-> Pair(marks[i], valueName)]
           es == PairsOf(c, valueName)
           done == Exhausted(walk, target)
           from == Lesser(r.offset - base, Len(marks))
           off == r.offset
           lim == r.limit
<1>1. HeadsOf(c) = T
  BY TablesAre DEF HeadsOf, TableOf, Chained, Sets
<1>2. Neat(T, N, Order(c))
  BY <1>1, TidyInOrder
<1>3. off \in Nat /\ lim \in Nat /\ lim # 0 /\ target \in Nat /\ target = off - base + lim
  BY PagingAssumption
<1>4. Took(T, N, Order(c), base, target, marks)
  <2> HIDE DEF T, N, target
  <2> QED BY <1>2, <1>3, MapWalkTook DEF T, N
<1>5. /\ marks \in Seq(Place) /\ Len(marks) = Lesser(target, Len(N) - base)
      /\ \A m \in 1..Len(marks) : PlaceIn(c, base + m, marks[m])
  <2> HIDE DEF marks, target, T, N
  <2> QED BY <1>1, <1>4 DEF Took, PlaceIn, N
<1>6. base <= Len(N) /\ Len(N) \in Nat /\ N \in Seq(Objects)
  BY <1>2 DEF At, Neat
<1>7. Len(es) = Len(N) /\ \A i \in 1..Len(N) : es[i] = [key   |-> FieldCalled(N[i], "key"),
                                                        value |-> FieldCalled(N[i], valueName)]
  BY <1>6 DEF PairsOf
<1>8. PageFrom(start, base, target, T, total, valueName, r, index, batched)
        = Reply(walk, all, base, from, total, r, index, done, batched)
  BY DEF PageFrom, PageOfWalk
<1> HIDE DEF T, es
<1>9. /\ all \in Seq({all[i] : i \in 1..Len(marks)}) /\ Len(all) = Len(marks)
      /\ Len(marks) \in Nat /\ \A m \in 1..Len(marks) : all[m] = Pair(marks[m], valueName)
  <2> HIDE DEF marks
  <2> QED BY <1>5
<1> HIDE DEF all
<1>10. ASSUME NEW m \in 1..Len(all)
       PROVE  all[m] = es[base + m]
  <2> HIDE DEF marks, N, target
  <2>1. base + m \in 1..Len(N)
    BY <1>3, <1>5, <1>6, <1>9 DEF Lesser
  <2>2. marks[m][2] = N[base + m]
    BY <1>5, <1>9 DEF PlaceIn, Spot, N
  <2> QED BY <1>7, <1>9, <2>1, <2>2 DEF Pair
<1>11. from \in Nat
  <2> HIDE DEF marks
  <2> QED BY <1>3, <1>9 DEF Lesser
<1> DEFINE LA == Len(marks)
           LE == Len(N)
<1> HIDE DEF marks, N, target, off, lim
<1>12. off < LE => from = off - base /\ Lesser(from + lim, LA) = Lesser(off + lim, LE) - base
  <2> SUFFICES ASSUME off < LE
               PROVE  from = off - base /\ Lesser(from + lim, LA) = Lesser(off + lim, LE) - base
    OBVIOUS
  <2>1. LA = Lesser(target, LE - base) /\ LA \in Nat /\ LE \in Nat /\ base <= off
    BY <1>5, <1>6, <1>9 DEF off
  <2> HIDE DEF LA, LE
  <2>2. off - base < LA
    BY <1>3, <2>1 DEF Lesser
  <2>3. from = off - base
    BY <1>3, <2>1, <2>2 DEF Lesser, LA, off
  <2> HIDE DEF from
  <2> QED BY <1>3, <2>1, <2>3 DEF Lesser
<1>13. off >= LE => from >= LA /\ (off < total => base + from < total /\ LE < total)
  <2> SUFFICES ASSUME off >= LE
               PROVE  from >= LA /\ (off < total => base + from < total /\ LE < total)
    OBVIOUS
  <2>1. LA = Lesser(target, LE - base) /\ LA \in Nat /\ LE \in Nat /\ base <= off /\ base <= LE
    BY <1>5, <1>6, <1>9 DEF off
  <2> HIDE DEF LA, LE
  <2>2. LA = LE - base
    BY <1>3, <2>1 DEF Lesser
  <2>3. from = LA
    BY <1>3, <2>1, <2>2 DEF Lesser, LA, off
  <2> HIDE DEF from
  <2> QED BY <1>3, <2>1, <2>2, <2>3
<1>14. Serving(c, Reply(walk, all, base, from, total, r, index, done, batched), es, total, r)
  <2> DEFINE S == {all[i] : i \in 1..Len(marks)}
  <2>1. /\ Len(es) \in Nat /\ all \in Seq(S) /\ walk.marks \in Seq(Place)
        /\ \A m \in 1..Len(walk.marks) : PlaceIn(c, base + m, walk.marks[m])
    BY <1>5, <1>6, <1>7, <1>9 DEF marks
  <2>2. r.offset < Len(es) =>
          /\ from = r.offset - base
          /\ Lesser(from + r.limit, Len(all)) = Lesser(r.offset + r.limit, Len(es)) - base
    BY <1>7, <1>9, <1>12 DEF off, lim
  <2>3. r.offset >= Len(es) =>
          from >= Len(all) /\ (r.offset < total => base + from < total /\ Len(es) < total)
    BY <1>7, <1>9, <1>13 DEF off
  <2> HIDE DEF walk, from, S, done
  <2> QED BY <1>10, <1>11, <2>1, <2>2, <2>3, ReplyServes
<1> QED BY <1>8, <1>14 DEF T, es, target

LEMMA PageFromHeadServes ==
    ASSUME NEW c, Tidy(c), TablesOf(c) # {}, NEW index, GoodIndex(c, index), PlacedIndex(c, index),
           NEW r \in Ranges, NEW total \in Int, NEW valueName, NEW known, NEW batched
    PROVE  Serving(c, PageFromHead(TableOf(c), total, valueName, r, index, known, batched),
                   PairsOf(c, valueName), total, r)
<1> DEFINE T == TableOf(c)
           b == batched \cup Heads(T, 1, known \cup batched)
<1>1. T \in Seq(Int) /\ HeadsOf(c) = T
  BY TablesAre DEF HeadsOf, TableOf, Chained, Sets
<1>2. Stands(T, 0, {}, StartAt(T, 1)) /\ At(T, NodesOf(c), Order(c), 0, StartAt(T, 1), 0)
  <2> HIDE DEF T
  <2> QED BY <1>1, HeadStands, TidyInOrder, HeadAt
<1>3. r.offset \in Nat /\ r.limit \in Nat
  BY PagingAssumption
<1>4. 0 \in Nat /\ 0 <= r.offset /\ r.offset - 0 + r.limit = r.offset + r.limit
  BY <1>3
<1> HIDE DEF b
<1>5. Serving(c, PageFrom(StartAt(T, 1), 0, r.offset - 0 + r.limit, T, total, valueName, r, index, b),
              PairsOf(c, valueName), total, r)
  BY <1>2, <1>4, PageFromServes
<1>6. Serving(c, PageFrom(StartAt(T, 1), 0, r.offset + r.limit, T, total, valueName, r, index, b),
              PairsOf(c, valueName), total, r)
  BY <1>4, <1>5
<1> QED BY <1>6 DEF PageFromHead, b

LEMMA PageOfTableServes ==
    ASSUME NEW c, Tidy(c), TablesOf(c) # {}, NEW index, GoodIndex(c, index), PlacedIndex(c, index),
           NEW r \in Ranges, NEW total \in Int, NEW valueName, NEW known
    PROVE  Serving(c, PageOfTable(Nearest(index, r), TableOf(c), total, valueName, r, index, known),
                   PairsOf(c, valueName), total, r)
<1> DEFINE T == TableOf(c)
           cp == The(Nearest(index, r))
<1>1. CASE Nearest(index, r) = {}
  BY <1>1, PageFromHeadServes DEF PageOfTable
<1>2. CASE Nearest(index, r) # {}
  <2>1. cp \in Nearest(index, r)
    BY <1>2 DEF The
  <2> DEFINE start == Resume(StartAt(T, cp.node[1]), cp.node[2])
             heads == Heads(T, cp.node[1], known)
  <2>2. PageOfTable(Nearest(index, r), T, total, valueName, r, index, known)
          = PageResumed(cp, start, heads, T, total, valueName, r, index, known)
    BY <1>2 DEF PageOfTable
  <2> HIDE DEF cp
  <2>3. /\ cp.index \in Nat /\ cp.index <= r.offset /\ Reached(T, cp.index, cp.node)
        /\ PlaceIn(c, cp.index + 1, cp.node)
    BY <2>1, NearestIs, NearestPlaced
  <2>4. T \in Seq(Int) /\ HeadsOf(c) = T
    BY TablesAre DEF HeadsOf, TableOf, Chained, Sets
  <2>5. start.node = cp.node[2] /\ \E K : Stands(T, cp.index, K, start)
    <3> HIDE DEF T
    <3> QED BY <2>3, <2>4, ResumeStands
  <2>6. At(T, NodesOf(c), Order(c), cp.index, start, cp.index)
    <3>1. Spot(T, NodesOf(c), Order(c), cp.index + 1, cp.node)
      BY <2>3, <2>4 DEF PlaceIn
    <3>2. Neat(T, NodesOf(c), Order(c))
      BY <2>4, TidyInOrder
    <3> DEFINE N == NodesOf(c)
               pre == Order(c)
               k == cp.index
    <3>3. k \in Nat
      BY <2>3
    <3> HIDE DEF T, N, pre, k
    <3>4. At(T, N, pre, k, start, k)
      BY <3>1, <3>2, <3>3, ResumeAt DEF N, pre, k
    <3> QED BY <3>4 DEF N, pre, k
  <2>7. start.node # 0
    BY <2>3, <2>5, ObjectsFinite DEF Reached, Place
  <2>8. PageResumed(cp, start, heads, T, total, valueName, r, index, known)
          = PageFrom(start, cp.index, r.offset - cp.index + r.limit, T, total, valueName, r, index,
                     heads)
    <3> HIDE DEF start, heads
    <3> QED BY <2>7 DEF PageResumed
  <2>9. Serving(c, PageFrom(start, cp.index, r.offset - cp.index + r.limit, T, total, valueName, r,
                            index, heads),
                PairsOf(c, valueName), total, r)
    <3> HIDE DEF start, heads
    <3> QED BY <2>3, <2>5, <2>6, PageFromServes
  <2> QED BY <2>2, <2>8, <2>9
<1> QED BY <1>1, <1>2

\* The map that a tidy collection is, or has behind it.
LEMMA MapIs ==
    ASSUME NEW c, Tidy(c), TablesOf(c) # {}
    PROVE  LET m == The(MapBehind(c))
           IN  /\ m \in MapBehind(c) /\ m \in Objects /\ Declared(c) = IntCalled(m, Counts)
               /\ Behind(m, "table", ObjectArrays) # {}
               /\ Heap[c].class \in Sets => Behind(c, "map", Objects) # {} /\ m = The(Behind(c, "map", Objects))
               /\ Heap[c].class \notin Sets => m = c
<1> DEFINE m == The(MapBehind(c))
<1>1. c \in Objects /\ Heap[c].class \in Chained \cup Sets
  BY TablesAre
<1>2. c \in Holders
  BY <1>1 DEF Holders, Counted
<1>3. PICK b \in MapBehind(c) : Behind(b, "table", ObjectArrays) # {}
  BY <1>1 DEF TablesOf
<1>4. CASE Heap[c].class \in Sets
  <2>1. MapBehind(c) = Behind(c, "map", Objects)
    BY <1>1, <1>4 DEF MapBehind
  <2>2. Behind(c, "map", Objects) = {b}
    BY <1>2, <1>3, <2>1, OneBehind
  <2>3. m = b /\ b \in Objects
    BY <2>1, <2>2, TheOne DEF Behind
  <2>4. Declared(c) = IntCalled(m, Counts)
    BY <1>4 DEF Declared, Sets, ArrayLists
  <2> QED BY <1>3, <1>4, <2>1, <2>2, <2>3, <2>4
<1>5. CASE Heap[c].class \notin Sets
  <2>1. MapBehind(c) = {c}
    BY <1>5 DEF MapBehind
  <2>2. m = c /\ b = c
    BY <1>3, <2>1, TheOne
  <2>3. Declared(c) = IntCalled(m, Counts)
    BY <1>1, <1>5 DEF Declared, Chained, ArrayLists
  <2> QED BY <1>1, <1>3, <1>5, <2>1, <2>2, <2>3
<1> QED BY <1>4, <1>5

LEMMA TotalIs ==
    ASSUME NEW c, Tidy(c), TablesOf(c) # {}
    PROVE  The(Declared(c)) \in Nat
<1>1. Declared(c) = IntCalled(The(MapBehind(c)), Counts) /\ The(MapBehind(c)) \in Objects
  BY MapIs
<1>2. Declared(c) \subseteq Nat
  BY <1>1, IntCalledIs
<1> QED BY <1>2 DEF Tidy, The

\* A page of a tidy map.
LEMMA PageOfMapServes ==
    ASSUME NEW c, Tidy(c), TablesOf(c) # {}, NEW index, GoodIndex(c, index), PlacedIndex(c, index),
           NEW r \in Ranges, NEW valueName, NEW known
    PROVE  Serving(c, PageOfMap(The(MapBehind(c)), valueName, r, index, known),
                   PairsOf(c, valueName), The(Declared(c)), r)
<1> DEFINE m == The(MapBehind(c))
           size == IntCalled(m, Counts)
           table == Behind(m, "table", ObjectArrays)
           total == The(Declared(c))
<1>1. m \in MapBehind(c) /\ Declared(c) = size /\ table # {} /\ size # {}
  BY MapIs DEF Tidy
<1>2. The(table) \in table /\ The(table) \in ObjectArrays
  BY <1>1 DEF The, Behind
<1>3. Heap[The(table)].elements = TableOf(c)
  BY <1>1, <1>2, TablesAre
<1>4. PageOfMap(m, valueName, r, index, known)
        = PageOfTable(Nearest(index, r), TableOf(c), total, valueName, r, index, known)
  <2> HIDE DEF m
  <2> QED BY <1>1, <1>3 DEF PageOfMap
<1>5. total \in Int
  BY TotalIs
<1> HIDE DEF total
<1> QED BY <1>4, <1>5, PageOfTableServes DEF total

\* The keys of a page of pairs are a page of keys.
LEMMA KeysServe ==
    ASSUME NEW visible, NEW offset, NEW total, NEW r \in Ranges, NEW es, Len(es) \in Nat,
           Server!IsPart(Page(visible, total, offset), es, total, r)
    PROVE  Server!IsPart(Keys(Page(visible, total, offset)),
                         [i \in 1..Len(es) |-> Single(es[i].key)], total, r)
<1> DEFINE p == Page(visible, total, offset)
           ks == [i \in DOMAIN p.entries |-> KeyOnly(p.entries[i])]
           fs == [i \in 1..Len(es) |-> Single(es[i].key)]
           off == r.offset
           n == Server!Lower(r.offset + r.limit, Len(es)) - Server!Lower(r.offset, Len(es))
<1>1. /\ p.entries = [i \in 1..n |-> [index |-> off + i - 1, entry |-> es[off + i]]]
      /\ p.total = total
      /\ off < total => p.more = (Server!Lower(r.offset + r.limit, Len(es)) < total)
  BY DEF Server!IsPart
<1>2. Keys(p).entries = ks /\ Keys(p).total = p.total /\ Keys(p).more = p.more
  BY DEF Keys, Page
<1>3. \A i \in 1..n : off + i \in 1..Len(es)
  BY PagingAssumption DEF Server!Lower
<1>4. Len(fs) = Len(es)
  OBVIOUS
<1> HIDE DEF p, n, off
<1>5. ks = [i \in 1..n |-> [index |-> off + i - 1, entry |-> fs[off + i]]]
  <2>1. DOMAIN p.entries = 1..n
    BY <1>1
  <2>2. ASSUME NEW i \in 1..n
        PROVE  KeyOnly(p.entries[i]) = [index |-> off + i - 1, entry |-> fs[off + i]]
    <3>1. p.entries[i] = [index |-> off + i - 1, entry |-> es[off + i]]
      BY <1>1
    <3>2. fs[off + i] = Single(es[off + i].key)
      BY <1>3
    <3> HIDE DEF fs
    <3> QED BY <3>1, <3>2 DEF KeyOnly
  <2> HIDE DEF fs
  <2> QED BY <2>1, <2>2
<1> HIDE DEF ks, fs
<1>6. Server!IsPart(Keys(p), fs, total, r)
  BY <1>1, <1>2, <1>4, <1>5 DEF Server!IsPart, n, off
<1> QED BY <1>6 DEF p, fs

\* A page of a tidy list.
LEMMA PageOfLinkedListServes ==
    ASSUME NEW c, Tidy(c), Heap[c].class = "LinkedList", NEW index, GoodIndex(c, index),
           PlacedIndex(c, index), NEW r \in Ranges
    PROVE  Serving(c, PageOfLinkedList(c, r, index), EntriesOf(c), The(Declared(c)), r)
<1> DEFINE T == HeadsOf(c)
           N == NodesOf(c)
           pre == Order(c)
           total == The(Declared(c))
           es == EntriesOf(c)
           first == [index |-> 0, node |-> <<1, IdOf(FieldCalled(c, "first"))>>]
           near == Nearest(index, r)
           cp == IF near = {} THEN first ELSE The(near)
           x == cp.node[2]
           b == cp.index
           off == r.offset
           lim == r.limit
<1>1. /\ Neat(T, N, pre) /\ T = <<IdOf(FieldCalled(c, "first"))>>
      /\ MapBehind(c) = {c} /\ c \in Objects
  BY TidyInOrder DEF HeadsOf, MapBehind, Sets, Tidy
<1>2. Declared(c) = IntCalled(c, {"size"}) /\ Declared(c) # {} /\ total \in Nat
  <2>1. Declared(c) = IntCalled(c, {"size"})
    BY <1>1, TheOne DEF Declared
  <2>2. Declared(c) # {}
    BY DEF Tidy
  <2> QED BY <1>1, <2>1, <2>2, IntCalledIs DEF The
<1>3. OneHead(T) /\ N \in Seq(Objects) /\ Len(N) \in Nat /\ pre[0] = 0 /\ pre[1] = Len(N)
      /\ T[1] = IdOf(FieldCalled(c, "first")) /\ Len(T) = 1 /\ T \in Seq(Int)
      /\ pre \in [0..1 -> 0..Len(N)]
  <2>1. Len(T) = 1 /\ T[1] = IdOf(FieldCalled(c, "first"))
    BY <1>1
  <2> HIDE DEF T, N, pre
  <2> QED BY <1>1, <2>1 DEF Neat, OneHead
<1>4. off \in Nat /\ lim \in Nat /\ lim # 0
  BY PagingAssumption
<1>5. b \in 0..Len(N) /\ b <= off /\ x \in Int /\ IF b < Len(N) THEN x = N[b + 1] ELSE x \notin Objects
  <2>1. CASE near = {}
    <3>1. b = 0 /\ x = T[1]
      BY <1>3, <2>1
    <3>2. Here(N, pre, 1, 0, T[1])
      <4>1. 1 \in 1..Len(T)
        BY <1>3
      <4>2. Here(N, pre, 1, pre[1 - 1], T[1])
        <5> HIDE DEF T, N, pre
        <5> QED BY <1>1, <4>1 DEF Neat
      <4> QED BY <1>3, <4>2
    <3>3. T[1] \in Int
      BY <1>3
    <3> HIDE DEF T, N, pre, x, b
    <3> QED BY <1>3, <1>4, <3>1, <3>2, <3>3 DEF Here
  <2>2. CASE near # {}
    <3>1. cp \in near
      BY <2>2 DEF The
    <3> HIDE DEF cp
    <3>2. b \in Nat /\ b <= off /\ Spot(T, N, pre, b + 1, cp.node)
      BY <3>1, NearestPlaced DEF PlaceIn
    <3>3. /\ cp.node \in Place /\ cp.node[1] \in 1..1
          /\ b + 1 \in (pre[cp.node[1] - 1] + 1)..pre[cp.node[1]] /\ x = N[b + 1]
      <4> HIDE DEF T, N, pre, b
      <4> QED BY <1>3, <3>2 DEF Spot, x
    <3>4. b + 1 <= Len(N) /\ b + 1 >= 1
      <4> HIDE DEF b, N, pre
      <4> QED BY <1>3, <3>2, <3>3
    <3>5. N[b + 1] \in Objects
      <4> HIDE DEF b, N
      <4> QED BY <1>3, <3>2, <3>4
    <3>6. x \in Int
      BY <3>3, <3>5, HeapAssumption DEF Objects
    <3> HIDE DEF b, N, x
    <3> QED BY <1>3, <3>2, <3>3, <3>4, <3>6
  <2> QED BY <2>1, <2>2
<1> DEFINE room == IF total > b THEN total - b ELSE 0
           target == Lesser(off - b + lim, room)
           walk == ListWalk([StartAt(<<>>, 1) EXCEPT !.node = x], target)
           marks == walk.marks
           all == [i \in DOMAIN marks |-> Single(FieldCalled(marks[i][2], "item"))]
           from == Lesser(off - b, total)
           done == walk.node = 0
<1>6. PageOfLinkedList(c, r, index) = Reply(walk, all, b, from, total, r, index, done, {})
  <2>1. PageOfLinkedList(c, r, index) = PageOfChain(cp, total, r, index)
    BY <1>2 DEF PageOfLinkedList
  <2> HIDE DEF cp, total
  <2> QED BY <2>1 DEF PageOfChain, PageOfItems
<1> HIDE DEF cp, x, b, T, N, pre, off, lim, total, es
<1>7. target \in Nat /\ room \in Nat /\ from \in Nat /\ b \in Nat
  BY <1>2, <1>3, <1>4, <1>5 DEF Lesser
<1>8. /\ marks \in Seq(Place) /\ Len(marks) = Lesser(target, Len(N) - b)
      /\ \A m \in 1..Len(marks) : Spot(T, N, pre, b + m, marks[m])
  <2> DEFINE w == [StartAt(<<>>, 1) EXCEPT !.node = x]
  <2>1. At(T, N, pre, b, w, b) /\ w.slot = 1
    BY <1>1, <1>3, <1>5, ListAt
  <2> HIDE DEF w, target
  <2>2. Took(T, N, pre, b, target, ListWalk(w, target).marks)
    BY <1>1, <1>3, <1>7, <2>1, ListWalkTook
  <2> QED BY <2>2 DEF Took, w
<1>9. es = [i \in 1..Lesser(total, Len(N)) |-> Single(FieldCalled(N[i], "item"))]
  <2>1. \A n : EntryOf(c, n) = Single(FieldCalled(n, "item"))
    BY DEF EntryOf, Sets
  <2>2. es = [i \in 1..Lesser(total, Len(N)) |-> EntryOf(c, N[i])]
    <3>1. EntriesOf(c) = Listed(c, N)
      BY DEF EntriesOf, N
    <3>2. Listed(c, N) = [i \in 1..Lesser(total, Len(N)) |-> EntryOf(c, N[i])]
      BY DEF Listed, total
    <3> QED BY <3>1, <3>2 DEF es
  <2> QED BY <2>1, <2>2
<1> DEFINE LE == Lesser(total, Len(N))
           LA == Len(marks)
<1>10. LE \in Nat /\ Len(es) = LE /\ LE <= total /\ LE <= Len(N)
  <2>1. LE \in Nat /\ LE <= total /\ LE <= Len(N)
    BY <1>2, <1>3 DEF Lesser
  <2> HIDE DEF LE
  <2>2. es = [i \in 1..LE |-> Single(FieldCalled(N[i], "item"))]
    BY <1>9 DEF LE
  <2> QED BY <2>1, <2>2
<1>11. /\ all \in Seq({all[i] : i \in 1..Len(marks)}) /\ Len(all) = Len(marks)
       /\ Len(marks) \in Nat /\ \A m \in 1..Len(marks) : all[m] = Single(FieldCalled(marks[m][2], "item"))
  <2> HIDE DEF marks
  <2> QED BY <1>8
<1> HIDE DEF all, marks
<1>12. LA <= room /\ b + LA <= Len(N) /\ (LA # 0 => b + LA <= LE)
  <2>1. LA = Lesser(target, Len(N) - b) /\ LA \in Nat
    BY <1>8, <1>11
  <2> HIDE DEF LA
  <2> QED BY <1>2, <1>3, <1>4, <1>5, <1>7, <2>1 DEF Lesser
<1>13. ASSUME NEW m \in 1..Len(all)
       PROVE  all[m] = es[b + m]
  <2>1. m \in 1..LA /\ LA # 0 /\ LA \in Nat
    BY <1>11
  <2>2. b + m \in 1..LE
    <3> HIDE DEF LA, LE
    <3> QED BY <1>7, <1>10, <1>12, <2>1
  <2>3. marks[m][2] = N[b + m]
    BY <1>8, <2>1 DEF Spot
  <2>4. es[b + m] = Single(FieldCalled(N[b + m], "item"))
    BY <1>9, <2>2
  <2>5. all[m] = Single(FieldCalled(marks[m][2], "item"))
    BY <1>11, <2>1
  <2> QED BY <2>3, <2>4, <2>5
<1>14. LA = Lesser(target, Len(N) - b) /\ LA \in Nat
  BY <1>8, <1>11
<1>15. off < LE => from = off - b /\ Lesser(from + lim, LA) = Lesser(off + lim, LE) - b
  <2> HIDE DEF LA
  <2> QED BY <1>2, <1>3, <1>4, <1>5, <1>7, <1>14 DEF Lesser
<1>16. off >= LE => from >= LA /\ (off < total => b + from < total /\ LE < total)
  <2> HIDE DEF LA
  <2> QED BY <1>2, <1>3, <1>4, <1>5, <1>7, <1>14 DEF Lesser
<1>17. Serving(c, Reply(walk, all, b, from, total, r, index, done, {}), es, total, r)
  <2> DEFINE S == {all[i] : i \in 1..Len(marks)}
  <2>1. /\ Len(es) \in Nat /\ all \in Seq(S) /\ walk.marks \in Seq(Place)
        /\ \A m \in 1..Len(walk.marks) : PlaceIn(c, b + m, walk.marks[m])
    BY <1>8, <1>10, <1>11 DEF marks, PlaceIn, T, N, pre
  <2>2. r.offset < Len(es) =>
          /\ from = r.offset - b
          /\ Lesser(from + r.limit, Len(all)) = Lesser(r.offset + r.limit, Len(es)) - b
    BY <1>10, <1>11, <1>15 DEF off, lim
  <2>3. r.offset >= Len(es) =>
          from >= Len(all) /\ (r.offset < total => b + from < total /\ Len(es) < total)
    BY <1>10, <1>11, <1>16 DEF off
  <2>4. b <= r.offset /\ total \in Int
    BY <1>2, <1>5 DEF off
  <2> HIDE DEF walk, from, S, done, LA, LE
  <2> QED BY <1>7, <1>13, <2>1, <2>2, <2>3, <2>4, ReplyServes
<1> QED BY <1>6, <1>17 DEF es, total

\* A page of the first elements of an array.
LEMMA PageOfArrayServes ==
    ASSUME NEW array \in ObjectArrays, NEW total \in 0..Len(Heap[array].elements),
           NEW index, NEW r \in Ranges
    PROVE  \E page : /\ PageOfArray(array, total, r, index).page = {page}
                     /\ Server!IsPart(page, First(Heap[array].elements, total), total, r)
<1> DEFINE elements == Heap[array].elements
           ids == SubSeq(elements, 1, total)
           from == Lesser(r.offset, total)
           visible == Window(ids, from, r.limit)
           entries == [i \in DOMAIN visible |-> Single(Described(visible[i]))]
           es == First(elements, total)
           n == IF from < total THEN Lesser(from + r.limit, total) - from ELSE 0
<1>1. elements \in Seq(Int) /\ Len(elements) \in Nat /\ total \in Nat /\ total <= Len(elements)
  <2>1. elements \in Seq(Int)
    BY HeapAssumption
  <2>2. Len(elements) \in Nat
    BY <2>1
  <2> QED BY <2>1, <2>2
<1>2. r.offset \in Nat /\ r.limit \in Nat /\ r.limit # 0
  BY PagingAssumption
<1>3. PageOfArray(array, total, r, index).page = {Page(entries, total, from)}
  BY DEF PageOfArray
<1> HIDE DEF elements
<1>4. ids \in Seq(Int) /\ Len(ids) = total /\ \A i \in 1..total : ids[i] = elements[i]
  BY <1>1
<1>5. es = [i \in 1..total |-> Single(Described(elements[i]))]
  <2>1. Lesser(total, Len(elements)) = total
    BY <1>1 DEF Lesser
  <2> QED BY <2>1 DEF First
<1> HIDE DEF ids, es
<1>6. from \in Nat
  BY <1>1, <1>2 DEF Lesser
<1> HIDE DEF from
<1>7. n \in Nat /\ DOMAIN visible = 1..n /\ Len(visible) = n /\ \A i \in 1..n : visible[i] = ids[from + i]
  <2> DEFINE lim == r.limit
             w == Window(ids, from, lim)
             k == IF from < Len(ids) THEN Lesser(from + lim, Len(ids)) - from ELSE 0
  <2>0. lim \in Nat /\ ids \in Seq(Int) /\ from \in Nat
    BY <1>2, <1>4, <1>6
  <2> HIDE DEF lim
  <2>1. k \in Nat /\ DOMAIN w = 1..k /\ Len(w) = k /\ \A i \in 1..k : w[i] = ids[from + i]
    BY <2>0, WindowIs, Zenon
  <2>2. k = n
    BY <1>4 DEF lim
  <2>3. w = visible
    BY DEF lim
  <2> HIDE DEF k, w, n, visible
  <2> QED BY <2>1, <2>2, <2>3
<1>8. n = IF from < total THEN Lesser(from + r.limit, total) - from ELSE 0
  OBVIOUS
<1> HIDE DEF visible, n
<1>9. DOMAIN entries = 1..n /\ Len(entries) = n
  BY <1>7
<1>10. \A i \in 1..n : entries[i] = es[0 + (from + i)]
  <2> SUFFICES ASSUME NEW i \in 1..n
               PROVE  entries[i] = es[0 + (from + i)]
    OBVIOUS
  <2>1. from + i \in 1..total /\ 0 + (from + i) = from + i
    BY <1>1, <1>2, <1>6, <1>7, <1>8 DEF Lesser
  <2>2. visible[i] = elements[from + i]
    BY <1>4, <1>7, <2>1
  <2>3. es[from + i] = Single(Described(elements[from + i]))
    BY <1>5, <2>1
  <2> QED BY <1>7, <2>1, <2>2, <2>3
<1> HIDE DEF entries
<1>11. Len(es) = total
  BY <1>1, <1>5
<1>12. /\ r.offset < Len(es) =>
            /\ from = r.offset - 0
            /\ Lesser(from + r.limit, total) = Lesser(r.offset + r.limit, Len(es)) - 0
       /\ r.offset >= Len(es) =>
            from >= total /\ (r.offset < total => 0 + from < total /\ Len(es) < total)
  BY <1>1, <1>2, <1>11 DEF from, Lesser
<1>13. Server!IsPart(Page(entries, total, 0 + from), es, total, r)
  <2>1. Len(es) \in Nat /\ 0 \in Nat /\ 0 <= r.offset /\ total \in Int /\ total \in Nat
    BY <1>1, <1>2, <1>11
  <2> QED BY <1>6, <1>7, <1>8, <1>9, <1>10, <1>12, <2>1, PartOfSeen
<1>14. 0 + from = from
  BY <1>6
<1> QED BY <1>3, <1>13, <1>14 DEF es, elements

\* A page of an array of primitive elements.
LEMMA PageOfBytesServes ==
    ASSUME NEW array \in PrimArrays, NEW index, NEW r \in Ranges
    PROVE  LET all == [i \in 1..Elements(array) |-> Single(Primitive(array, i))]
           IN  \E page : /\ PageOfBytes(array, r, index).page = {page}
                         /\ Server!IsPart(page, all, Elements(array), r)
                         /\ Elements(array) \in Nat
<1> DEFINE total == Elements(array)
           all == [i \in 1..total |-> Single(Primitive(array, i))]
           from == Lesser(r.offset, total)
           S == {all[i] : i \in 1..total}
<1>1. total \in Nat
  <2> DEFINE size == Heap[array].size
  <2>1. size \in Nat /\ Len(Heap[array].bytes) \in Nat
    BY HeapAssumption
  <2>2. size # 0 => Len(Heap[array].bytes) \div size \in Nat
    BY <2>1
  <2> QED BY <2>1, <2>2 DEF Elements
<1>2. r.offset \in Nat /\ r.limit \in Nat /\ r.limit # 0
  BY PagingAssumption
<1>3. PageOfBytes(array, r, index).page = {Page(Window(all, from, r.limit), total, from)}
  BY DEF PageOfBytes
<1> HIDE DEF total
<1>4. all \in Seq(S) /\ Len(all) = total /\ \A m \in 1..Len(all) : all[m] = all[0 + m]
  BY <1>1
<1> HIDE DEF all, S
<1>5. from \in Nat
  BY <1>1, <1>2 DEF Lesser
<1>6. /\ r.offset < Len(all) =>
           /\ from = r.offset - 0
           /\ Lesser(from + r.limit, Len(all)) = Lesser(r.offset + r.limit, Len(all)) - 0
      /\ r.offset >= Len(all) =>
           from >= Len(all) /\ (r.offset < total => 0 + from < total /\ Len(all) < total)
  BY <1>1, <1>2, <1>4 DEF Lesser
<1> HIDE DEF from
<1>7. Server!IsPart(Page(Window(all, from, r.limit), total, 0 + from), all, total, r)
  <2>1. Len(all) \in Nat /\ 0 \in Nat /\ 0 <= r.offset /\ total \in Int
    BY <1>1, <1>2, <1>4
  <2> QED BY <1>4, <1>5, <1>6, <2>1, PartOfWindow
<1>8. 0 + from = from
  BY <1>5
<1> QED BY <1>1, <1>3, <1>7, <1>8 DEF all, total

-----------------------------------------------------------------------------
(* Replies                                                                 *)

\* The one page of a reply is the part asked for, and its checkpoints are the
\* places of the entries they are of.
Answers(c, reply, es, total, r) ==
    /\ \A si \in reply.index : Placed(c, si)
    /\ \E page : reply.page = {page} /\ Server!IsPart(page, es, total, r)

LEMMA ServingAnswers ==
    ASSUME NEW c, NEW reply, NEW es, NEW total, NEW r, Serving(c, reply, es, total, r)
    PROVE  Answers(c, reply, es, total, r)
BY DEF Serving, Answers

\* A page of a tidy set.
LEMMA PageOfSetServes ==
    ASSUME NEW c, Tidy(c), TablesOf(c) # {}, Heap[c].class \in Sets,
           NEW index, GoodIndex(c, index), PlacedIndex(c, index), NEW r \in Ranges, NEW known
    PROVE  Answers(c, PageOfSet(c, r, index, known), EntriesOf(c), The(Declared(c)), r)
<1> DEFINE maps == Behind(c, "map", Objects)
           m == The(maps)
           inner == PageOfMap(m, "value", r, index, known)
           reply == [inner EXCEPT !.page = {Keys(p) : p \in @}, !.reads = @ \cup maps]
           total == The(Declared(c))
           ps == PairsOf(c, "value")
           es == EntriesOf(c)
           ks == [i \in 1..Len(ps) |-> Single(ps[i].key)]
           N == NodesOf(c)
<1>1. /\ c \in Objects /\ maps # {} /\ m = The(MapBehind(c)) /\ m \in MapBehind(c)
  BY MapIs DEF Tidy
<1>2. PageOfSet(c, r, index, known) = reply
  BY <1>1 DEF PageOfSet
<1>3. Sane(c, inner) /\ Serving(c, inner, ps, total, r)
  <2> HIDE DEF m
  <2> QED BY <1>1, PageOfMapSane, PageOfMapServes
<1> HIDE DEF inner, maps
<1>4. /\ reply.page = {Keys(p) : p \in inner.page} /\ reply.index = inner.index
  BY <1>3 DEF Sane
<1> HIDE DEF reply, total
<1>5. PICK visible, offset : /\ inner.page = {Page(visible, total, offset)}
                             /\ Server!IsPart(Page(visible, total, offset), ps, total, r)
  BY <1>3 DEF Serving
<1> DEFINE page == Page(visible, total, offset)
<1>6. N \in Seq(Objects) /\ Len(N) \in Nat
  BY TidyInOrder DEF Neat
<1>7. /\ Len(ps) = Len(N) /\ Len(ps) \in Nat
      /\ \A i \in 1..Len(N) : ps[i].key = FieldCalled(N[i], "key")
  <2>1. ps = [i \in 1..Len(N) |-> [key |-> FieldCalled(N[i], "key"), value |-> FieldCalled(N[i], "value")]]
    BY DEF PairsOf
  <2> HIDE DEF N, ps
  <2> QED BY <1>6, <2>1
<1>8. es = [i \in 1..Len(N) |-> Single(FieldCalled(N[i], "key"))]
  <2>1. \A n : EntryOf(c, n) = Single(FieldCalled(n, "key"))
    BY DEF EntryOf, Sets
  <2>2. es = [i \in 1..Len(N) |-> EntryOf(c, N[i])]
    <3>1. EntriesOf(c) = Listed(c, N)
      BY DEF EntriesOf
    <3>2. Listed(c, N) = [i \in 1..Len(N) |-> EntryOf(c, N[i])]
      BY DEF Listed, Sets
    <3> QED BY <3>1, <3>2
  <2> QED BY <2>1, <2>2
<1> HIDE DEF ps, N, es
<1>9. ks = es
  BY <1>7, <1>8
<1>10. Server!IsPart(Keys(page), ks, total, r)
  <2> HIDE DEF total
  <2> QED BY <1>5, <1>7, KeysServe
<1>11. reply.page = {Keys(page)}
  BY <1>4, <1>5
<1> HIDE DEF ks, page
<1>12. \A si \in reply.index : Placed(c, si)
  BY <1>3, <1>4 DEF Serving
<1>13. Answers(c, reply, es, total, r)
  BY <1>9, <1>10, <1>11, <1>12 DEF Answers
<1> QED BY <1>2, <1>13 DEF es, total

\* The entries of a tidy map are the pairs of its nodes.
LEMMA EntriesAre ==
    ASSUME NEW c, Heap[c].class \in Chained
    PROVE  EntriesOf(c) = PairsOf(c, IF Heap[c].class = "ConcurrentHashMap" THEN "val" ELSE "value")
<1> DEFINE valueName == IF Heap[c].class = "ConcurrentHashMap" THEN "val" ELSE "value"
           N == NodesOf(c)
<1>1. \A n : EntryOf(c, n) = [key |-> FieldCalled(n, "key"), value |-> FieldCalled(n, valueName)]
  BY DEF EntryOf, Sets, Chained
<1>2. EntriesOf(c) = Listed(c, N)
  BY DEF EntriesOf
<1>3. Listed(c, N) = [i \in 1..Len(N) |-> EntryOf(c, N[i])]
  BY DEF Listed, Chained
<1> HIDE DEF valueName
<1> QED BY <1>1, <1>2, <1>3 DEF PairsOf, valueName

\* A reply for a tidy collection.
LEMMA ExtractPlaces ==
    ASSUME NEW c, Tidy(c), NEW index, GoodIndex(c, index), PlacedIndex(c, index),
           NEW r \in Ranges, NEW known
    PROVE  Answers(c, Extract(c, r, index, known), EntriesOf(c), The(Declared(c)), r)
<1> DEFINE class == Heap[c].class
           reply == PageOfInstance(c, class, r, index, known)
<1>1. c \in Objects /\ (class = "LinkedList" \/ TablesOf(c) # {})
  BY DEF Tidy
<1>2. Extract(c, r, index, known) = reply
  <2>1. c \notin ObjectArrays /\ c \notin PrimArrays
    BY <1>1 DEF Objects, ObjectArrays, PrimArrays
  <2> QED BY <1>1, <2>1 DEF Extract
<1>3. CASE class = "LinkedList"
  <2>1. reply = PageOfLinkedList(c, r, index)
    BY <1>3 DEF PageOfInstance, ArrayLists, Sets
  <2> QED BY <1>2, <1>3, <2>1, PageOfLinkedListServes, ServingAnswers
<1>4. CASE class # "LinkedList"
  <2>1. TablesOf(c) # {} /\ class \in Chained \cup Sets
    BY <1>1, <1>4, TablesAre
  <2>2. CASE class \in Sets
    <3>1. reply = PageOfSet(c, r, index, known)
      BY <2>2 DEF PageOfInstance, ArrayLists, Sets
    <3> QED BY <1>2, <2>1, <2>2, <3>1, PageOfSetServes
  <2>3. CASE class \notin Sets
    <3> DEFINE valueName == IF class = "ConcurrentHashMap" THEN "val" ELSE "value"
    <3>1. class \in Chained
      BY <2>1, <2>3
    <3>2. reply = PageOfMap(c, valueName, r, index, known)
      BY <3>1 DEF PageOfInstance, ArrayLists, Sets, Chained
    <3>3. c = The(MapBehind(c))
      BY <2>1, <2>3, MapIs
    <3>4. EntriesOf(c) = PairsOf(c, valueName)
      BY <3>1, EntriesAre
    <3> HIDE DEF valueName, reply, class
    <3>5. Serving(c, PageOfMap(The(MapBehind(c)), valueName, r, index, known),
                  PairsOf(c, valueName), The(Declared(c)), r)
      BY <2>1, PageOfMapServes
    <3> QED BY <1>2, <3>2, <3>3, <3>4, <3>5, ServingAnswers
  <2> QED BY <2>2, <2>3
<1> QED BY <1>3, <1>4

\* The array of a list, and how many of its elements the list has.
LEMMA BackingIs ==
    ASSUME NEW c, Backed(c)
    PROVE  LET data == Behind(c, "elementData", ObjectArrays)
               size == IntCalled(c, {"size", "elementCount"})
           IN  /\ c \in Objects /\ Declared(c) = size /\ size # {} /\ The(size) \in Nat
               /\ data # {} /\ The(data) \in ObjectArrays /\ Heap[The(data)].elements \in Seq(Int)
<1> DEFINE size == IntCalled(c, {"size", "elementCount"})
<1>1. c \in Objects /\ Heap[c].class \in ArrayLists /\ Behind(c, "elementData", ObjectArrays) # {}
  BY DEF Backed
<1>2. Declared(c) = size
  <2>1. MapBehind(c) = {c}
    BY <1>1 DEF MapBehind, ArrayLists, Sets
  <2>2. The(MapBehind(c)) = c
    BY <2>1, TheOne
  <2> QED BY <1>1, <2>2 DEF Declared, ArrayLists
<1>3. size # {} /\ size \subseteq Nat
  BY <1>1, <1>2, IntCalledIs DEF Backed
<1>4. The(size) \in Nat
  <2> HIDE DEF size
  <2> QED BY <1>3 DEF The
<1>5. The(Behind(c, "elementData", ObjectArrays)) \in ObjectArrays
  BY <1>1 DEF The, Behind
<1> QED BY <1>1, <1>2, <1>3, <1>4, <1>5, HeapAssumption

\* A reply for an array, whatever the skip-index.
LEMMA ExtractArrays ==
    ASSUME NEW c, IsArray(c), NEW index, NEW r \in Ranges, NEW known
    PROVE  LET reply == Extract(c, r, index, known)
           IN  \E page : /\ reply.page = {page}
                         /\ Server!IsPart(page, ElementsOf(c), Len(ElementsOf(c)), r)
<1> DEFINE es == ElementsOf(c)
<1>1. CASE c \in ObjectArrays
  <2> DEFINE n == Len(Heap[c].elements)
  <2>1. c \notin Objects /\ c \notin PrimArrays
    BY <1>1 DEF Objects, ObjectArrays, PrimArrays
  <2>2. Extract(c, r, index, known) = PageOfArray(c, n, r, index)
    BY <1>1, <2>1 DEF Extract
  <2>3. es = First(Heap[c].elements, n)
    BY <1>1, <2>1 DEF ElementsOf
  <2>4. Heap[c].elements \in Seq(Int)
    BY <1>1, HeapAssumption
  <2>5. n \in 0..n /\ n \in Nat
    BY <2>4
  <2>6. Len(es) = n
    BY <2>3, <2>5 DEF First, Lesser
  <2> HIDE DEF es
  <2>7. \E page : /\ PageOfArray(c, n, r, index).page = {page}
                  /\ Server!IsPart(page, First(Heap[c].elements, n), n, r)
    BY <1>1, <2>5, PageOfArrayServes
  <2> QED BY <2>2, <2>3, <2>6, <2>7 DEF es
<1>2. CASE c \in PrimArrays
  <2> DEFINE n == Elements(c)
  <2>1. c \notin Objects /\ c \notin ObjectArrays
    BY <1>2 DEF Objects, ObjectArrays, PrimArrays
  <2>2. Extract(c, r, index, known) = PageOfBytes(c, r, index)
    BY <1>2, <2>1 DEF Extract
  <2>3. es = [i \in 1..n |-> Single(Primitive(c, i))]
    BY <1>2 DEF ElementsOf
  <2>4. \E page : /\ PageOfBytes(c, r, index).page = {page}
                  /\ Server!IsPart(page, [i \in 1..n |-> Single(Primitive(c, i))], n, r)
                  /\ n \in Nat
    BY <1>2, PageOfBytesServes
  <2> HIDE DEF n
  <2>5. Len(es) = n
    BY <2>3, <2>4
  <2> HIDE DEF es
  <2> QED BY <2>2, <2>3, <2>4, <2>5 DEF es
<1>3. CASE Backed(c)
  <2> DEFINE data == Behind(c, "elementData", ObjectArrays)
             size == IntCalled(c, {"size", "elementCount"})
             a == The(data)
             elements == Heap[a].elements
             n == Lesser(The(size), Len(elements))
  <2>1. /\ c \in Objects /\ Declared(c) = size /\ size # {} /\ The(size) \in Nat
        /\ data # {} /\ a \in ObjectArrays /\ elements \in Seq(Int)
    BY <1>3, BackingIs
  <2>2. c \notin ObjectArrays /\ c \notin PrimArrays /\ Heap[c].class \in ArrayLists
    BY <1>3, <2>1 DEF Objects, ObjectArrays, PrimArrays, Backed
  <2>3. Extract(c, r, index, known) = PageOfArray(a, n, r, index)
    <3>1. Extract(c, r, index, known) = PageOfInstance(c, Heap[c].class, r, index, known)
      BY <2>1, <2>2 DEF Extract
    <3>2. PageOfInstance(c, Heap[c].class, r, index, known) = PageOfArrayList(c, r, index)
      BY <2>2 DEF PageOfInstance, ArrayLists, Sets
    <3> QED BY <2>1, <3>1, <3>2 DEF PageOfArrayList
  <2>4. es = First(elements, The(size))
    BY <2>1, <2>2 DEF ElementsOf
  <2>5. Len(elements) \in Nat
    BY <2>1
  <2> HIDE DEF elements, size
  <2>6. n \in 0..Len(elements) /\ Lesser(n, Len(elements)) = n /\ n \in Nat
    BY <2>1, <2>5 DEF Lesser
  <2>7. First(elements, The(size)) = First(elements, n)
    BY <2>6 DEF First
  <2>8. Len(es) = n
    BY <2>4, <2>6 DEF First
  <2> HIDE DEF n, a, es
  <2>9. n \in 0..Len(Heap[a].elements)
    BY <2>6 DEF elements
  <2>10. \E page : /\ PageOfArray(a, n, r, index).page = {page}
                   /\ Server!IsPart(page, First(Heap[a].elements, n), n, r)
    BY <2>1, <2>9, PageOfArrayServes
  <2>11. First(Heap[a].elements, n) = es
    BY <2>4, <2>7 DEF elements
  <2> QED BY <2>3, <2>8, <2>10, <2>11 DEF es
<1> QED BY <1>1, <1>2, <1>3 DEF IsArray

\* What a background walker takes of a tidy collection.
LEMMA WalkedPlaced ==
    ASSUME NEW c, Tidy(c)
    PROVE  /\ Walked(c) \in Seq(Place)
           /\ \A m \in 1..Len(Walked(c)) : PlaceIn(c, m, Walked(c)[m])
<1> DEFINE T == HeadsOf(c)
           N == NodesOf(c)
           pre == Order(c)
           marks == Walked(c)
           n == Unbounded
<1>1. Neat(T, N, pre) /\ n \in Nat
  BY TidyInOrder, UnboundedIs
<1>2. Took(T, N, pre, 0, n, marks)
  <2>1. CASE Heap[c].class = "LinkedList"
    <3> DEFINE x == IdOf(FieldCalled(c, "first"))
               w == [StartAt(<<>>, 1) EXCEPT !.node = x]
    <3>1. T = <<x>> /\ c \in Objects
      BY <2>1 DEF HeadsOf, Tidy
    <3>2. OneHead(T) /\ T[1] = x
      BY <3>1 DEF OneHead
    <3>3. marks = ListWalk(w, n).marks
      BY <2>1, <3>1 DEF Walked
    <3>4. /\ T \in Seq(Int) /\ N \in Seq(Objects) /\ Len(N) \in Nat /\ pre[0] = 0 /\ Len(T) = 1
          /\ pre[1] = Len(N)
      <4> HIDE DEF T, N, pre
      <4> QED BY <1>1, <3>2 DEF Neat, OneHead
    <3>5. x \in Int /\ 0 \in 0..Len(N)
      BY <3>2, <3>4
    <3>6. IF 0 < Len(N) THEN x = N[0 + 1] ELSE x \notin Objects
      <4>1. 1 \in 1..Len(T)
        BY <3>4
      <4>2. Here(N, pre, 1, pre[1 - 1], T[1])
        <5> HIDE DEF T, N, pre
        <5> QED BY <1>1, <4>1 DEF Neat
      <4>3. Here(N, pre, 1, 0, x)
        BY <3>2, <3>4, <4>2
      <4> HIDE DEF x, T, N, pre
      <4> QED BY <3>4, <4>3 DEF Here
    <3> HIDE DEF T, N, pre, x, n
    <3>7. At(T, N, pre, 0, w, 0) /\ w.slot = 1
      BY <1>1, <3>2, <3>5, <3>6, ListAt
    <3> HIDE DEF w
    <3>8. Took(T, N, pre, 0, n, ListWalk(w, n).marks)
      BY <1>1, <3>2, <3>7, ListWalkTook
    <3> QED BY <3>3, <3>8
  <2>2. CASE Heap[c].class # "LinkedList"
    <3>1. TablesOf(c) # {}
      BY <2>2 DEF Tidy
    <3>2. T = TableOf(c) /\ T \in Seq(Int)
      BY <2>2, <3>1, TablesAre DEF HeadsOf, TableOf
    <3>3. marks = MapWalk(T, StartAt(T, 1), n).marks
      BY <3>1, <3>2, WalkedIs
    <3> HIDE DEF T, N, pre, n
    <3>4. Stands(T, 0, {}, StartAt(T, 1)) /\ At(T, N, pre, 0, StartAt(T, 1), 0)
      BY <1>1, <3>2, HeadStands, HeadAt
    <3>5. Took(T, N, pre, 0, n, MapWalk(T, StartAt(T, 1), n).marks)
      BY <1>1, <3>4, MapWalkTook
    <3> QED BY <3>3, <3>5
  <2> QED BY <2>1, <2>2
<1>3. marks \in Seq(Place) /\ \A m \in 1..Len(marks) : PlaceIn(c, 0 + m, marks[m])
  <2> HIDE DEF marks
  <2> QED BY <1>2 DEF Took, PlaceIn
<1> QED BY <1>3

-----------------------------------------------------------------------------
(* The session serves ranges                                               *)

\* The checkpoints of a tidy collection are of the entries they are numbered as.
CheckpointsPlaced == \A c \in DOMAIN skip : Tidy(c) => Placed(c, skip[c])
ServeInv == PagesInv /\ CheckpointsPlaced

\* The skip-index a request or a walker begins with.
LEMMA IndexPlaced ==
    ASSUME ServeInv, NEW c, Tidy(c)
    PROVE  PlacedIndex(c, IndexOf(c)) /\ PlacedIndex(c, {SI!NewIndex})
<1>1. PlacedIndex(c, IndexOf(c))
  BY DEF PlacedIndex, IndexOf, ServeInv, CheckpointsPlaced, PagesInv, Good, Fits
<1>2. PlacedIndex(c, {SI!NewIndex})
  <2> DEFINE si == SI!NewIndex
  <2>1. si \in Indexes /\ si.checkpoints = <<>>
    BY NewGood DEF GoodIndex, Good, Fits
  <2> HIDE DEF si
  <2>2. Len(si.checkpoints) = 0
    BY <2>1
  <2>3. PlacedIndex(c, {si})
    BY <2>1, <2>2 DEF PlacedIndex, Placed
  <2> QED BY <2>3 DEF si
<1> QED BY <1>1, <1>2

LEMMA StorePlaced ==
    ASSUME CheckpointsPlaced, NEW c, NEW index, Tidy(c) => \A si \in index : Placed(c, si),
           skip' = Store(c, index)
    PROVE  CheckpointsPlaced'
<1>1. CASE index = {}
  BY <1>1 DEF Store, CheckpointsPlaced
<1>2. CASE index # {}
  <2>1. The(index) \in index
    BY <1>2 DEF The
  <2>2. skip' = [d \in DOMAIN skip \cup {c} |-> IF d = c THEN The(index) ELSE skip[d]]
    BY <1>2 DEF Store
  <2>3. ASSUME NEW d \in DOMAIN skip', Tidy(d)
        PROVE  Placed(d, skip'[d])
    BY <2>1, <2>2, <2>3 DEF CheckpointsPlaced
  <2> QED BY <2>3 DEF CheckpointsPlaced
<1> QED BY <1>1, <1>2

LEMMA PartShown ==
    ASSUME NEW page, NEW es, NEW total, NEW r, Server!IsPart(page, es, total, r)
    PROVE  Server!IsPart([entries |-> page.entries, total |-> page.total, more |-> page.more],
                         es, total, r)
<1> DEFINE p == [entries |-> page.entries, total |-> page.total, more |-> page.more]
<1>1. p.entries = page.entries /\ p.total = page.total /\ p.more = page.more
  OBVIOUS
<1> HIDE DEF p
<1>2. Server!IsPart(p, es, total, r)
  BY <1>1 DEF Server!IsPart
<1> QED BY <1>2 DEF p

\* A reply with one page, shown.
LEMMA AnswerShown ==
    ASSUME NEW c, NEW r, NEW reply, Answer(c, r, reply), NEW page, reply.page = {page}
    PROVE  /\ Shown'.collection = c /\ Shown'.range = r
           /\ Shown'.page = [entries |-> page.entries, total |-> page.total, more |-> page.more]
<1> DEFINE shown == [entries |-> page.entries, total |-> page.total, more |-> page.more]
<1>1. served' = [collection |-> c, range |-> r, page |-> {page}]
  BY DEF Answer
<1>2. The({page}) = page
  BY TheOne
<1> HIDE DEF shown
<1>3. Shown' = [served' EXCEPT !.page = shown]
  BY <1>1, <1>2 DEF Shown, shown
<1>4. Shown'.collection = c /\ Shown'.range = r /\ Shown'.page = shown
  BY <1>1, <1>3
<1> QED BY <1>4 DEF shown

LEMMA AnswerNamed ==
    ASSUME NEW c, NEW r, NEW reply, Answer(c, r, reply)
    PROVE  Shown'.collection = c /\ Shown'.range = r
<1> DEFINE shown == IF served'.page = {} THEN [entries |-> <<>>, total |-> 0, more |-> FALSE]
                    ELSE [entries |-> The(served'.page).entries, total |-> The(served'.page).total,
                          more |-> The(served'.page).more]
<1>1. served' = [collection |-> c, range |-> r, page |-> reply.page]
  BY DEF Answer
<1> HIDE DEF shown
<1>2. Shown' = [served' EXCEPT !.page = shown]
  BY DEF Shown, shown
<1> QED BY <1>1, <1>2

\* A request is answered with the range it asks for.
LEMMA GetPageServes ==
    ASSUME ServeInv, NEW c, NEW r \in Ranges, GetPage(c, r)
    PROVE  CheckpointsPlaced' /\ Server!Next
<1> DEFINE index == IF IndexOf(c) = {} /\ r.offset > 0 THEN {SI!NewIndex} ELSE IndexOf(c)
           known == cached \cup (Objects \cap {c})
           reply == Extract(c, r, index, known)
<1>1. GoodIndex(c, index)
  BY IndexGood, NewGood DEF ServeInv, PagesInv
<1>2. Tidy(c) => PlacedIndex(c, index)
  BY IndexPlaced
<1>3. Answer(c, r, reply)
  BY DEF GetPage
<1> HIDE DEF index, known
<1>4. Tidy(c) => Answers(c, reply, EntriesOf(c), The(Declared(c)), r)
  BY <1>1, <1>2, ExtractPlaces
<1>5. IsArray(c) => \E page : /\ reply.page = {page}
                              /\ Server!IsPart(page, ElementsOf(c), Len(ElementsOf(c)), r)
  BY ExtractArrays
<1> HIDE DEF reply
<1>6. CheckpointsPlaced'
  BY <1>3, <1>4, StorePlaced DEF ServeInv, Answer, Answers
<1>7. Sound(c) => \E page : reply.page = {page} /\ Server!IsPart(page, ContentsOf(c), Total(c), r)
  <2> SUFFICES ASSUME Sound(c)
               PROVE  \E page : reply.page = {page} /\ Server!IsPart(page, ContentsOf(c), Total(c), r)
    OBVIOUS
  <2>1. c \in Arrays \cup Chains
    BY DEF Sound, Contents
  <2>2. CASE c \in Arrays
    <3>1. ContentsOf(c) = ElementsOf(c)
      BY <2>2 DEF ContentsOf, Contents
    <3>2. Total(c) = Len(ElementsOf(c))
      BY <2>2, <3>1 DEF Total, ContentsOf
    <3>3. IsArray(c)
      BY <2>2 DEF Arrays
    <3> QED BY <1>5, <3>1, <3>2, <3>3
  <2>3. CASE c \notin Arrays
    <3>1. ContentsOf(c) = EntriesOf(c)
      BY <2>1, <2>3 DEF ContentsOf, Contents
    <3>2. Total(c) = The(Declared(c))
      BY <2>3 DEF Total
    <3>3. Tidy(c)
      BY <2>1, <2>3 DEF Chains
    <3> QED BY <1>4, <3>1, <3>2, <3>3 DEF Answers
  <2> QED BY <2>2, <2>3
<1>8. Shown'.collection = c /\ Shown'.range = r
  BY <1>3, AnswerNamed
<1>9. Sound(c) => Server!IsPart(Shown'.page, ContentsOf(c), Total(c), r)
  <2> SUFFICES ASSUME Sound(c) PROVE Server!IsPart(Shown'.page, ContentsOf(c), Total(c), r)
    OBVIOUS
  <2>1. PICK page : reply.page = {page} /\ Server!IsPart(page, ContentsOf(c), Total(c), r)
    BY <1>7
  <2> DEFINE p == [entries |-> page.entries, total |-> page.total, more |-> page.more]
  <2>2. Shown'.page = p
    BY <1>3, <2>1, AnswerShown
  <2>3. Server!IsPart(p, ContentsOf(c), Total(c), r)
    BY <2>1, PartShown
  <2> HIDE DEF p
  <2> QED BY <2>2, <2>3
<1>10. Server!Serve(c, r)
  BY <1>8, <1>9 DEF Server!Serve
<1>11. Server!Next
  BY <1>8, <1>10 DEF Server!Next
<1> QED BY <1>6, <1>11

\* A walker shows nothing, and its checkpoints are of the entries it came to.
LEMMA WalkServes ==
    ASSUME ServeInv, NEW c, WalkSome(c, Walked(c))
    PROVE  CheckpointsPlaced' /\ UNCHANGED Shown
<1> DEFINE all == Walked(c)
<1>1. ASSUME NEW marks, NEW done, Walk(c, marks, done),
             Tidy(c) => /\ marks \in Seq(Place)
                        /\ \A m \in 1..Len(marks) : PlaceIn(c, 0 + m, marks[m])
      PROVE  CheckpointsPlaced' /\ UNCHANGED Shown
  <2> DEFINE index == IF marks # <<>> /\ IndexOf(c) = {} THEN {SI!NewIndex} ELSE IndexOf(c)
             after == Finished(Recorded(index, 0, marks), done)
  <2>1. skip' = Store(c, after) /\ served' = served
    BY <1>1 DEF Walk
  <2>2. GoodIndex(c, index)
    BY IndexGood, NewGood DEF ServeInv, PagesInv
  <2>3. ASSUME Tidy(c)
        PROVE  \A si \in after : Placed(c, si)
    <3>1. PlacedIndex(c, index)
      BY <2>3, IndexPlaced
    <3> HIDE DEF index
    <3> QED BY <1>1, <2>2, <2>3, <3>1, RecordedPlaced
  <2> HIDE DEF after
  <2>4. CheckpointsPlaced'
    BY <2>1, <2>3, StorePlaced DEF ServeInv
  <2> QED BY <2>1, <2>4 DEF Shown
<1>2. Tidy(c) => /\ all \in Seq(Place) /\ Len(all) \in Nat
                 /\ \A m \in 1..Len(all) : PlaceIn(c, 0 + m, all[m])
  BY WalkedPlaced
<1> HIDE DEF all
<1>3. CASE Walk(c, all, TRUE)
  BY <1>1, <1>2, <1>3
<1>4. ASSUME NEW n \in 0..Len(all), Walk(c, SubSeq(all, 1, n), FALSE)
      PROVE  CheckpointsPlaced' /\ UNCHANGED Shown
  <2> DEFINE marks == SubSeq(all, 1, n)
  <2>1. Tidy(c) => /\ marks \in Seq(Place)
                   /\ \A m \in 1..Len(marks) : PlaceIn(c, 0 + m, marks[m])
    <3> SUFFICES ASSUME Tidy(c)
                 PROVE  /\ marks \in Seq(Place)
                        /\ \A m \in 1..Len(marks) : PlaceIn(c, 0 + m, marks[m])
      OBVIOUS
    <3>1. /\ marks \in Seq(Place) /\ Len(marks) = n
          /\ \A m \in 1..n : m \in 1..Len(all) /\ marks[m] = all[m]
      BY <1>2
    <3> HIDE DEF marks
    <3> QED BY <1>2, <3>1
  <2>2. Walk(c, marks, FALSE)
    BY <1>4
  <2> HIDE DEF marks
  <2> QED BY <1>1, <2>1, <2>2
<1> QED BY <1>3, <1>4 DEF WalkSome, all

\* Every step of a session is a page of the range asked for, or shows nothing new:
\* the skip-indexes, the caches and the walkers change no page (get_page,
\* extract_*, drain_walker).
THEOREM PagesServed == Spec => ServesRanges
<1>1. Init => ServeInv /\ Server!Init
  <2>1. Init => PagesInv
    BY DEF Init, PagesInv, VisibleIsCached, Nothing
  <2>2. Init => CheckpointsPlaced
    BY DEF Init, CheckpointsPlaced
  <2> QED BY <2>1, <2>2, InitServes DEF ServeInv
<1>2. ServeInv /\ [Next]_vars => ServeInv' /\ [Server!Next]_Shown
  <2> SUFFICES ASSUME ServeInv, [Next]_vars
               PROVE  ServeInv' /\ [Server!Next]_Shown
    OBVIOUS
  <2>1. ASSUME NEW c, NEW r \in Ranges, GetPage(c, r)
        PROVE  ServeInv' /\ [Server!Next]_Shown
    <3>1. PagesInv' /\ CheckpointsPlaced' /\ Server!Next
      BY <2>1, GetPageKeeps, GetPageServes DEF ServeInv
    <3> QED BY <3>1 DEF ServeInv
  <2>2. ASSUME NEW c, WalkSome(c, Walked(c))
        PROVE  ServeInv' /\ [Server!Next]_Shown
    <3>1. PagesInv' /\ CheckpointsPlaced' /\ UNCHANGED Shown
      BY <2>2, WalkKeeps, WalkServes DEF ServeInv
    <3> QED BY <3>1 DEF ServeInv
  <2>3. CASE UNCHANGED vars
    <3>1. PagesInv'
      BY <2>3 DEF vars, ServeInv, PagesInv, VisibleIsCached
    <3>2. CheckpointsPlaced' /\ UNCHANGED Shown
      BY <2>3 DEF vars, ServeInv, CheckpointsPlaced, Shown
    <3> QED BY <3>1, <3>2 DEF ServeInv
  <2> QED BY <2>1, <2>2, <2>3 DEF Next
<1> QED BY <1>1, <1>2, PTL DEF Spec, ServesRanges, Server!Spec
=============================================================================
