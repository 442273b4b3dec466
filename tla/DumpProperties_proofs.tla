----------------------- MODULE DumpProperties_proofs ------------------------
(***************************************************************************)
(* What opening a dump gets right, for every dump: no warning is lost,     *)
(* nothing that is lost goes without one, and the cycles of the class      *)
(* hierarchy are told from everything else.                                *)
(***************************************************************************)
EXTENDS FirstPass_proofs

-----------------------------------------------------------------------------
(* What is finite                                                          *)

LEMMA RangeFinite ==
    ASSUME NEW f, IsFiniteSet(DOMAIN f)
    PROVE  IsFiniteSet(Range(f))
<1> DEFINE g == [x \in DOMAIN f |-> f[x]]
<1>1. g \in [DOMAIN f -> Range(f)] /\ \A t \in Range(f) : \E x \in DOMAIN f : g[x] = t
  BY DEF Range
<1>2. g \in Surjection(DOMAIN f, Range(f))
  <2> HIDE DEF g
  <2> QED BY <1>1, Fun_IsSurj
<1> QED BY <1>2, FS_Surjection

\* A union of finitely many finite sets.
LEMMA UnionFinite ==
    ASSUME NEW f, IsFiniteSet(DOMAIN f), \A x \in DOMAIN f : IsFiniteSet(f[x])
    PROVE  IsFiniteSet(UNION Range(f))
<1>1. IsFiniteSet(Range(f))
  BY RangeFinite
<1>2. \A T \in Range(f) : IsFiniteSet(T)
  BY DEF Range
<1> QED BY <1>1, <1>2, FS_UNION

LEMMA SeqFinite ==
    ASSUME NEW s, IsSeq(s)
    PROVE  IsFiniteSet(DOMAIN s) /\ IsFiniteSet(Range(s))
<1>1. PICK n \in Nat : n = Len(s) /\ DOMAIN s = 1..n
  BY DEF IsSeq
<1>2. IsFiniteSet(1..n)
  BY FS_Interval
<1> QED BY <1>1, <1>2, RangeFinite

\* The sub-records at a place.
LEMMA InstancesFinite ==
    ASSUME HeapsLaid(ranges), NEW at
    PROVE  IsFiniteSet(InstancesAt(at))
<1>1. PICK n \in Nat : n = Len(ranges) /\ DOMAIN ranges = 1..n
  BY DEF HeapsLaid
<1> DEFINE f == [i \in 1..n |-> Subs(ranges[i])]
<1>2. \A i \in 1..n : IsFiniteSet(f[i])
  <2> SUFFICES ASSUME NEW i \in 1..n PROVE IsFiniteSet(Subs(ranges[i]))
    OBVIOUS
  <2>1. ranges[i].subs \in Seq(Subs(ranges[i]))
    BY <1>1 DEF HeapsLaid, LaidOut
  <2>2. Subs(ranges[i]) = Range(ranges[i].subs)
    BY DEF Subs, Range
  <2>3. IsSeq(ranges[i].subs)
    BY <2>1, <2>2 DEF IsSeq
  <2> QED BY <2>2, <2>3, SeqFinite
<1>3. DOMAIN f = 1..n /\ IsFiniteSet(DOMAIN f)
  BY FS_Interval
<1>4. InstancesAt(at) \subseteq UNION Range(f)
  <2> SUFFICES ASSUME NEW s \in InstancesAt(at) PROVE s \in UNION Range(f)
    OBVIOUS
  <2>1. PICK i \in 1..n : s \in Subs(ranges[i])
    BY <1>1 DEF InstancesAt, SubAt
  <2>2. f[i] \in Range(f) /\ s \in f[i]
    BY <2>1 DEF Range
  <2> QED BY <2>2
<1> HIDE DEF f
<1>5. IsFiniteSet(UNION Range(f))
  BY <1>2, <1>3, UnionFinite
<1> QED BY <1>4, <1>5, FS_Subset

-----------------------------------------------------------------------------
(* The fields that are decoded                                             *)

\* Finitely many class dumps, each with its lists of fields.
DumpsAre(d) ==
    /\ IsFiniteSet(DOMAIN d)
    /\ \A c \in DOMAIN d : IsSeq(d[c].fields) /\ IsSeq(d[c].statics)

\* The super-class chain.
LEMMA ChainIs ==
    ASSUME NEW d, IsFiniteSet(DOMAIN d), NEW class
    PROVE  Chain(d, class) \in Seq(DOMAIN d)
<1> DEFINE V == Seq(DOMAIN d)
           Up(s) == IF s = <<>> THEN s
                    ELSE LET super == d[Last(s)].super
                         IN  IF super = NoClass \/ super \notin DOMAIN d
                                \/ super \in Range(s)
                             THEN s ELSE Append(s, super)
           b == IF class \in DOMAIN d THEN <<class>> ELSE <<>>
<1>1. PICK n \in Nat : n = Cardinality(DOMAIN d)
  BY FS_CardinalityType
<1> DEFINE G(v) == [i \in 0..n |-> IF i = 0 THEN b ELSE Up(v[i - 1])]
           g == CHOOSE v : v = G(v)
           step == [i \in 1..n |-> [s \in V |-> Up(s)]]
<1>2. Chain(d, class) = g[n]
  BY <1>1 DEF Chain
<1>3. b \in V
  <2>1. PICK D : D = DOMAIN d
    OBVIOUS
  <2>2. <<>> \in Seq(D) /\ (class \in D => <<class>> \in Seq(D))
    OBVIOUS
  <2>3. CASE class \in D
    BY <2>1, <2>2, <2>3, Zenon
  <2>4. CASE class \notin D
    BY <2>1, <2>2, <2>4, Zenon
  <2> QED BY <2>3, <2>4
<1>4. \A s \in V : Up(s) \in V
  <2> SUFFICES ASSUME NEW s \in Seq(DOMAIN d) PROVE Up(s) \in Seq(DOMAIN d)
    OBVIOUS
  <2>1. PICK super : super = d[Last(s)].super
    OBVIOUS
  <2>2. super \in DOMAIN d => Append(s, super) \in Seq(DOMAIN d)
    OBVIOUS
  <2> QED BY <2>1, <2>2
<1> HIDE DEF Up, b
<1>5. step \in [1..n -> [V -> V]]
  <2> HIDE DEF V
  <2> QED BY <1>4
<1>6. PICK v \in [0..n -> V] : Follows(v, n, b, step)
  <2> HIDE DEF V, step
  <2> QED BY <1>3, <1>5, StepsExist
<1>7. v = G(v)
  <2>1. v[0] = b /\ \A i \in 1..n : v[i] = step[i][v[i - 1]]
    BY <1>6 DEF Follows
  <2>2. ASSUME NEW i \in 0..n
        PROVE  v[i] = IF i = 0 THEN b ELSE Up(v[i - 1])
    <3>1. CASE i = 0
      BY <2>1, <3>1
    <3>2. CASE i # 0
      <4>1. i \in 1..n /\ i - 1 \in 0..n
        BY <3>2
      <4>2. v[i - 1] \in V
        BY <1>6, <4>1
      <4>3. v[i] = step[i][v[i - 1]]
        BY <2>1, <4>1
      <4> HIDE DEF V
      <4>4. step[i][v[i - 1]] = Up(v[i - 1])
        BY <4>1, <4>2
      <4> QED BY <3>2, <4>3, <4>4
    <3> QED BY <3>1, <3>2
  <2> HIDE DEF V, step
  <2> QED BY <1>6, <2>2
<1>8. g = G(g)
  <2>1. \E x : x = G(x)
    BY <1>7
  <2> HIDE DEF G
  <2> QED BY <2>1
<1>9. \A i \in 0..n : g[i] \in V
  <2> DEFINE E == {i \in 0..n : g[i] \in V}
  <2>1. \A i \in 0..n : g[i] = IF i = 0 THEN b ELSE Up(g[i - 1])
    <3> HIDE DEF V, g
    <3> QED BY <1>8
  <2> HIDE DEF g, V
  <2>2. 0 \in E
    BY <1>3, <2>1
  <2>3. \A i \in 0..(n - 1) : i \in E => i + 1 \in E
    <3> SUFFICES ASSUME NEW i \in 0..(n - 1), g[i] \in V
                 PROVE  g[i + 1] \in V /\ i + 1 \in 0..n
      OBVIOUS
    <3>1. i + 1 \in 0..n /\ i + 1 # 0 /\ (i + 1) - 1 = i
      OBVIOUS
    <3>2. g[i + 1] = Up(g[i])
      BY <2>1, <3>1
    <3> QED BY <1>4, <3>1, <3>2
  <2>4. 0..n \subseteq E
    <3> HIDE DEF E
    <3> QED BY <2>2, <2>3, StepInduction
  <2> QED BY <2>4
<1> QED BY <1>2, <1>9


Joining == INSTANCE LeftFold WITH Op <- Joined

\* The fields of the chain, one class after the other.
LEMMA FieldDefsAre ==
    ASSUME NEW d, DumpsAre(d), NEW class
    PROVE  IsSeq(FieldDefs(d, class))
<1>1. PICK chain : chain = Chain(d, class)
  OBVIOUS
<1>2. chain \in Seq(DOMAIN d)
  BY <1>1, ChainIs DEF DumpsAre
<1>3. PICK n \in Nat : n = Len(chain) /\ DOMAIN chain = 1..n
  BY <1>2
<1>4. PICK t : t = [i \in DOMAIN chain |-> d[chain[i]].fields]
  OBVIOUS
<1>5. DOMAIN t = 1..n /\ \A i \in 1..n : IsSeq(t[i])
  BY <1>2, <1>3, <1>4 DEF DumpsAre
<1>6. FieldDefs(d, class) = Joining!Fold(<<>>, t)
  BY <1>1, <1>4 DEF FieldDefs, Joining!Fold, FoldLeft, Joining!FoldLeft, MapThenFoldSet,
     Joining!MapThenFoldSet, Max, Joining!Max
<1>7. \E v : Joining!Passes(<<>>, t, n, v)
  BY <1>5, Joining!FoldSteps
<1>8. PICK v : /\ v[0] = <<>>
               /\ \A i \in 1..n : v[i] = v[i - 1] \o t[i]
               /\ Joining!Fold(<<>>, t) = v[n]
  BY <1>7 DEF Joining!Passes, Joined
<1> DEFINE E == {i \in 0..n : IsSeq(v[i])}
<1>9. 0 \in E
  <2>1. IsSeq(<<>>)
    BY DEF IsSeq, Range
  <2> QED BY <1>8, <2>1
<1>10. \A i \in 0..(n - 1) : i \in E => i + 1 \in E
  <2> SUFFICES ASSUME NEW i \in 0..(n - 1), IsSeq(v[i])
               PROVE  IsSeq(v[i + 1]) /\ i + 1 \in 0..n
    OBVIOUS
  <2>1. i + 1 \in 1..n /\ i + 1 \in 0..n /\ (i + 1) - 1 = i
    OBVIOUS
  <2>2. v[i + 1] = v[i] \o t[i + 1]
    BY <1>8, <2>1
  <2> QED BY <1>5, <2>1, <2>2, IsSeqConcat
<1>11. n \in E
  <2> HIDE DEF E
  <2>1. 0..n \subseteq E
    BY <1>9, <1>10, StepInduction
  <2> QED BY <2>1
<1> QED BY <1>6, <1>8, <1>11

\* What an instance decodes to.
LEMMA DecodeFinite ==
    ASSUME NEW d, DumpsAre(d), NEW s
    PROVE  IsFiniteSet(DOMAIN Decode(d, s))
<1>1. PICK defs : defs = FieldDefs(d, s.class)
  OBVIOUS
<1>2. PICK n \in Nat : n = Len(defs) /\ DOMAIN defs = 1..n
  BY <1>1, FieldDefsAre DEF IsSeq
<1> DEFINE start(i) == FoldLeft(LAMBDA m, f : m + TypeSize(f.type), 0, SubSeq(defs, 1, i - 1))
           readable(i) == /\ TypeSize(defs[i].type) > 0
                          /\ start(i) + TypeSize(defs[i].type) <= Len(s.data)
           stuck == {i \in DOMAIN defs : ~readable(i)}
           k == IF stuck = {} THEN Len(defs) ELSE Least(stuck) - 1
<1>3. DOMAIN Decode(d, s) = 1..k
  BY <1>1 DEF Decode, ReadFields
<1>4. stuck \subseteq 1..n
  BY <1>2
<1> HIDE DEF stuck
<1>5. k \in Int
  <2>1. CASE stuck = {}
    BY <1>2, <2>1
  <2>2. CASE stuck # {}
    <3>1. stuck \subseteq Nat
      BY <1>4
    <3>2. Least(stuck) \in Nat
      BY <2>2, <3>1, LeastIsIn
    <3> QED BY <2>2, <3>2
  <2> QED BY <2>1, <2>2
<1> HIDE DEF k
<1> QED BY <1>3, <1>5, FS_Interval

\* The references that the instances at some places hold.
LEMMA WantedFinite ==
    ASSUME HeapsLaid(ranges), DumpsAre(index.class_dumps),
           NEW places, IsFiniteSet(places), NEW names
    PROVE  IsFiniteSet(Wanted(places, names))
<1> DEFINE held == [p \in places |-> InstancesAt(p)]
           S == UNION Range(held)
           refs == [s \in S |-> RefsNamed(Decode(index.class_dumps, s), index.strings, names)]
<1>1. IsFiniteSet(S)
  <2>1. DOMAIN held = places /\ \A p \in places : IsFiniteSet(held[p])
    BY InstancesFinite
  <2> HIDE DEF held
  <2> QED BY <2>1, UnionFinite
<1>2. ASSUME NEW s \in S
      PROVE  IsFiniteSet(refs[s])
  <2>1. PICK fields : fields = Decode(index.class_dumps, s)
    OBVIOUS
  <2> DEFINE value == [i \in DOMAIN fields |-> fields[i].value]
  <2>2. IsFiniteSet(DOMAIN value)
    BY <2>1, DecodeFinite
  <2>3. refs[s] \subseteq Range(value)
    BY <1>2, <2>1 DEF RefsNamed, Range
  <2> HIDE DEF value
  <2>4. IsFiniteSet(Range(value))
    BY <2>2, RangeFinite
  <2> QED BY <2>3, <2>4, FS_Subset
<1>3. DOMAIN refs = S
  OBVIOUS
<1>4. Wanted(places, names) \subseteq UNION Range(refs)
  <2>1. S = UNION {InstancesAt(p) : p \in places}
    BY DEF Range
  <2>2. Wanted(places, names)
          = UNION {RefsNamed(Decode(index.class_dumps, s), index.strings, names) : s \in S}
            \ DOMAIN index.instance_offsets
    BY <2>1 DEF Wanted
  <2> HIDE DEF S
  <2>3. Range(refs) = {RefsNamed(Decode(index.class_dumps, s), index.strings, names) : s \in S}
    BY DEF Range
  <2> QED BY <2>2, <2>3
<1> HIDE DEF S, refs
<1>5. IsFiniteSet(UNION Range(refs))
  BY <1>1, <1>2, <1>3, UnionFinite
<1> QED BY <1>4, <1>5, FS_Subset

\* The names that class dumps mention.
LEMMA NamesFinite ==
    ASSUME NEW d, DumpsAre(d)
    PROVE  IsFiniteSet(NamesUsed(d))
<1> DEFINE fields(c) == Range(d[c].fields) \cup Range(d[c].statics)
           used == [c \in DOMAIN d |-> {f.name : f \in fields(c)}]
<1>1. ASSUME NEW c \in DOMAIN d
      PROVE  IsFiniteSet(used[c])
  <2>1. IsFiniteSet(fields(c))
    <3>1. IsFiniteSet(Range(d[c].fields)) /\ IsFiniteSet(Range(d[c].statics))
      BY SeqFinite DEF DumpsAre
    <3> QED BY <3>1, FS_Union
  <2> DEFINE name == [f \in fields(c) |-> f.name]
  <2>2. IsFiniteSet(DOMAIN name) /\ used[c] = Range(name)
    BY <2>1 DEF Range
  <2> HIDE DEF name
  <2> QED BY <2>2, RangeFinite
<1>2. DOMAIN used = DOMAIN d /\ IsFiniteSet(DOMAIN used)
  BY DEF DumpsAre
<1>3. NamesUsed(d) = UNION Range(used)
  BY DEF NamesUsed, Range
<1> HIDE DEF used
<1> QED BY <1>1, <1>2, <1>3, UnionFinite


Dumping == INSTANCE LeftFold WITH Op <- PutDump

\* The class dumps of the heap, put into the index.
LEMMA DumpsFiled ==
    ASSUME DumpsAre(index.class_dumps), IsSeq(out.dumps),
           \A c \in Range(out.dumps) : IsSeq(c.fields) /\ IsSeq(c.statics)
    PROVE  DumpsAre(Dumps)
<1>1. PICK n \in Nat : n = Len(out.dumps) /\ DOMAIN out.dumps = 1..n
  BY DEF IsSeq
<1>2. PICK t : t = out.dumps
  OBVIOUS
<1>3. \A i \in 1..n : IsSeq(t[i].fields) /\ IsSeq(t[i].statics)
  BY <1>1, <1>2 DEF Range
<1>4. Dumps = Dumping!Fold(index.class_dumps, t)
  BY <1>2 DEF Dumps, Dumping!Fold, FoldLeft, Dumping!FoldLeft, MapThenFoldSet,
     Dumping!MapThenFoldSet, Max, Dumping!Max
<1>5. \E v : Dumping!Passes(index.class_dumps, t, n, v)
  BY <1>1, <1>2, Dumping!FoldSteps
<1>6. PICK v : /\ v[0] = index.class_dumps
               /\ \A i \in 1..n : v[i] = PutDump(v[i - 1], t[i])
               /\ Dumping!Fold(index.class_dumps, t) = v[n]
  BY <1>5 DEF Dumping!Passes
<1> DEFINE E == {i \in 0..n : DumpsAre(v[i])}
<1>7. 0 \in E
  BY <1>6
<1>8. \A i \in 0..(n - 1) : i \in E => i + 1 \in E
  <2> SUFFICES ASSUME NEW i \in 0..(n - 1), DumpsAre(v[i])
               PROVE  DumpsAre(v[i + 1]) /\ i + 1 \in 0..n
    OBVIOUS
  <2>1. i + 1 \in 1..n /\ i + 1 \in 0..n /\ (i + 1) - 1 = i
    OBVIOUS
  <2>2. PICK x, c : x = v[i] /\ c = t[i + 1]
    OBVIOUS
  <2>3. v[i + 1] = Over([k \in {c.id} |-> c], x)
    BY <1>6, <2>1, <2>2 DEF PutDump, Put
  <2>4. PICK y : y = Over([k \in {c.id} |-> c], x)
    OBVIOUS
  <2>5. /\ DOMAIN y = {c.id} \cup DOMAIN x
        /\ \A k \in DOMAIN y : y[k] = c \/ (k \in DOMAIN x /\ y[k] = x[k])
    BY <2>4 DEF Over
  <2>6. IsFiniteSet(DOMAIN y)
    <3>1. IsFiniteSet({c.id}) /\ IsFiniteSet(DOMAIN x)
      BY <2>2, FS_Singleton DEF DumpsAre
    <3>2. IsFiniteSet({c.id} \cup DOMAIN x)
      BY <3>1, FS_Union
    <3> QED BY <2>5, <3>2, Zenon
  <2>7. IsSeq(c.fields) /\ IsSeq(c.statics)
    BY <1>3, <2>1, <2>2
  <2>8. DumpsAre(y)
    BY <2>2, <2>5, <2>6, <2>7 DEF DumpsAre
  <2> QED BY <2>1, <2>3, <2>4, <2>8
<1>9. n \in E
  <2> HIDE DEF E
  <2>1. 0..n \subseteq E
    BY <1>7, <1>8, StepInduction
  <2> QED BY <2>1
<1> QED BY <1>4, <1>6, <1>9

\* One warning for a filter, one for an id: as many as can be counted.
LEMMA LookupWarned ==
    ASSUME NEW fs, IsFiniteSet(DOMAIN fs), NEW es, NEW ids, IsFiniteSet(ids), NEW found
    PROVE  LookupWarnings(fs, es, ids, found) \in Nat
<1> DEFINE S == {i \in DOMAIN fs : /\ ids \cap fs[i].ids # {}
                                   /\ EntryOf(es, fs[i].segment) = NotFound}
           T == ids \ DOMAIN found
<1>1. LookupWarnings(fs, es, ids, found) = Cardinality(S) + Cardinality(T)
  BY DEF LookupWarnings
<1>2. S \subseteq DOMAIN fs /\ T \subseteq ids
  OBVIOUS
<1> HIDE DEF S, T
<1>3. IsFiniteSet(S) /\ IsFiniteSet(T)
  BY <1>2, FS_Subset
<1>4. Cardinality(S) \in Nat /\ Cardinality(T) \in Nat
  BY <1>3, FS_CardinalityType
<1> QED BY <1>1, <1>4

-----------------------------------------------------------------------------
(* The index while the first pass fills it                                 *)

IndexFields == {"instance_offsets", "class_dumps", "thread_object_ids", "classes"}

IndexOK(ix) ==
    /\ IndexFields \subseteq DOMAIN ix
    /\ IsFiniteSet(DOMAIN ix.instance_offsets)
    /\ IsFiniteSet(DOMAIN ix.thread_object_ids)
    /\ IsFiniteSet(DOMAIN ix.classes)
    /\ DumpsAre(ix.class_dumps)

\* More entries.
LEMMA OverFinite ==
    ASSUME NEW f, NEW g, IsFiniteSet(DOMAIN f), IsFiniteSet(DOMAIN g)
    PROVE  IsFiniteSet(DOMAIN Over(f, g))
<1>1. DOMAIN Over(f, g) = DOMAIN f \cup DOMAIN g
  BY DEF Over
<1> QED BY <1>1, FS_Union

LEMMA PutFinite ==
    ASSUME NEW f, NEW k, NEW v, IsFiniteSet(DOMAIN f)
    PROVE  IsFiniteSet(DOMAIN Put(f, k, v))
<1>1. PICK g : g = [x \in {k} |-> v]
  OBVIOUS
<1>2. DOMAIN g = {k} /\ IsFiniteSet({k})
  BY <1>1, FS_Singleton
<1> QED BY <1>1, <1>2, OverFinite DEF Put

\* An index that differs from another in other fields, or has more entries.
LEMMA IndexKept ==
    ASSUME NEW x, IndexOK(x), NEW y, DOMAIN y = DOMAIN x,
           y.instance_offsets = x.instance_offsets,
           y.thread_object_ids = x.thread_object_ids,
           y.classes = x.classes, y.class_dumps = x.class_dumps
    PROVE  IndexOK(y)
BY DEF IndexOK

\* What a known record enters.
LEMMA InsertOK ==
    ASSUME IndexOK(index), Record.tag \in Known
    PROVE  IndexOK(Insert(Record))
<1>1. PICK x, r, y : x = index /\ r = Record /\ y = Insert(r)
  OBVIOUS
<1>2. IndexOK(x)
  BY <1>1
<1>3. CASE r.tag = "LoadClass"
  <2>1. PICK n : y = [x EXCEPT !.classes = Put(@, r.serial, r.class),
                               !.class_names_by_id = Put(@, r.class, n)]
    BY <1>1, <1>3 DEF Insert
  <2>2. /\ DOMAIN y = DOMAIN x /\ y.instance_offsets = x.instance_offsets
        /\ y.thread_object_ids = x.thread_object_ids
        /\ y.class_dumps = x.class_dumps
        /\ y.classes = Put(x.classes, r.serial, r.class)
    BY <1>2, <2>1 DEF IndexOK, IndexFields
  <2>3. IsFiniteSet(DOMAIN y.classes)
    BY <1>2, <2>2, PutFinite DEF IndexOK
  <2> QED BY <1>1, <1>2, <2>2, <2>3 DEF IndexOK
<1>4. CASE r.tag \in {"String", "Frame", "Trace", "Thread"}
  <2>1. \/ \E v : y = [x EXCEPT !.strings = v]
        \/ \E v : y = [x EXCEPT !.stack_frames = v]
        \/ \E v : y = [x EXCEPT !.stack_traces = v]
        \/ \E v : y = [x EXCEPT !.threads = v]
    BY <1>1, <1>4 DEF Insert
  <2>2. /\ DOMAIN y = DOMAIN x /\ y.instance_offsets = x.instance_offsets
        /\ y.thread_object_ids = x.thread_object_ids
        /\ y.class_dumps = x.class_dumps /\ y.classes = x.classes
    BY <1>2, <2>1 DEF IndexOK, IndexFields
  <2>3. IndexOK(y)
    BY <1>2, <2>2, IndexKept
  <2> QED BY <1>1, <2>3
<1> QED BY <1>1, <1>3, <1>4 DEF Known


\* Thread objects and frame roots leave it so.
LEMMA RootsOK ==
    ASSUME NEW ix, IndexOK(ix), NEW s, IsSeq(s)
    PROVE  /\ IndexOK(FoldLeft(PutThreadObject, ix, s))
           /\ IndexOK(FoldLeft(PutFrameRoot, ix, s))
<1>1. PICK n \in Nat : n = Len(s) /\ DOMAIN s = 1..n
  BY DEF IsSeq
<1>2. ASSUME NEW x, IndexOK(x), NEW r
      PROVE  IndexOK(PutThreadObject(x, r)) /\ IndexOK(PutFrameRoot(x, r))
  <2>1. PICK y : y = PutThreadObject(x, r)
    OBVIOUS
  <2>2. /\ DOMAIN y = DOMAIN x /\ y.instance_offsets = x.instance_offsets
        /\ y.classes = x.classes /\ y.class_dumps = x.class_dumps
        /\ y.thread_object_ids = Put(x.thread_object_ids, r.thread, r.id)
    BY <1>2, <2>1 DEF PutThreadObject, IndexOK, IndexFields
  <2>3. IsFiniteSet(DOMAIN y.thread_object_ids)
    BY <1>2, <2>2, PutFinite DEF IndexOK
  <2>4. IndexOK(y)
    BY <1>2, <2>2, <2>3 DEF IndexOK
  <2>5. \/ PutFrameRoot(x, r) = x
        \/ \E v : PutFrameRoot(x, r) = [x EXCEPT !.java_frame_roots = v]
    BY DEF PutFrameRoot
  <2>6. ASSUME NEW v
        PROVE  IndexOK([x EXCEPT !.java_frame_roots = v])
    <3>1. PICK z : z = [x EXCEPT !.java_frame_roots = v]
      OBVIOUS
    <3>2. /\ DOMAIN z = DOMAIN x /\ z.instance_offsets = x.instance_offsets
          /\ z.thread_object_ids = x.thread_object_ids
          /\ z.classes = x.classes /\ z.class_dumps = x.class_dumps
      BY <1>2, <3>1 DEF IndexOK, IndexFields
    <3>3. IndexOK(z)
      BY <1>2, <3>2, IndexKept
    <3> QED BY <3>1, <3>3
  <2>7. IndexOK(PutFrameRoot(x, r))
    BY <1>2, <2>5, <2>6
  <2> QED BY <2>1, <2>4, <2>7
<1>3. IndexOK(FoldLeft(PutThreadObject, ix, s))
  <2>1. FoldLeft(PutThreadObject, ix, s) = Threading!Fold(ix, s)
    BY DEF Threading!Fold, FoldLeft, Threading!FoldLeft, MapThenFoldSet,
       Threading!MapThenFoldSet, Max, Threading!Max
  <2>2. \E v : Threading!Passes(ix, s, n, v)
    BY <1>1, Threading!FoldSteps
  <2>3. PICK v : /\ v[0] = ix
                 /\ \A i \in 1..n : v[i] = PutThreadObject(v[i - 1], s[i])
                 /\ Threading!Fold(ix, s) = v[n]
    BY <2>2 DEF Threading!Passes
  <2> DEFINE E == {i \in 0..n : IndexOK(v[i])}
  <2>4. 0 \in E
    BY <2>3
  <2>5. \A i \in 0..(n - 1) : i \in E => i + 1 \in E
    <3> SUFFICES ASSUME NEW i \in 0..(n - 1), IndexOK(v[i])
                 PROVE  IndexOK(v[i + 1]) /\ i + 1 \in 0..n
      OBVIOUS
    <3>1. i + 1 \in 1..n /\ i + 1 \in 0..n /\ (i + 1) - 1 = i
      OBVIOUS
    <3>2. v[i + 1] = PutThreadObject(v[i], s[i + 1])
      BY <2>3, <3>1
    <3> QED BY <1>2, <3>1, <3>2
  <2>6. n \in E
    <3> HIDE DEF E
    <3>1. 0..n \subseteq E
      BY <2>4, <2>5, StepInduction
    <3> QED BY <3>1
  <2> QED BY <2>1, <2>3, <2>6
<1>4. IndexOK(FoldLeft(PutFrameRoot, ix, s))
  <2>1. FoldLeft(PutFrameRoot, ix, s) = Rooting!Fold(ix, s)
    BY DEF Rooting!Fold, FoldLeft, Rooting!FoldLeft, MapThenFoldSet,
       Rooting!MapThenFoldSet, Max, Rooting!Max
  <2>2. \E v : Rooting!Passes(ix, s, n, v)
    BY <1>1, Rooting!FoldSteps
  <2>3. PICK v : /\ v[0] = ix
                 /\ \A i \in 1..n : v[i] = PutFrameRoot(v[i - 1], s[i])
                 /\ Rooting!Fold(ix, s) = v[n]
    BY <2>2 DEF Rooting!Passes
  <2> DEFINE E == {i \in 0..n : IndexOK(v[i])}
  <2>4. 0 \in E
    BY <2>3
  <2>5. \A i \in 0..(n - 1) : i \in E => i + 1 \in E
    <3> SUFFICES ASSUME NEW i \in 0..(n - 1), IndexOK(v[i])
                 PROVE  IndexOK(v[i + 1]) /\ i + 1 \in 0..n
      OBVIOUS
    <3>1. i + 1 \in 1..n /\ i + 1 \in 0..n /\ (i + 1) - 1 = i
      OBVIOUS
    <3>2. v[i + 1] = PutFrameRoot(v[i], s[i + 1])
      BY <2>3, <3>1
    <3> QED BY <1>2, <3>1, <3>2
  <2>6. n \in E
    <3> HIDE DEF E
    <3>1. 0..n \subseteq E
      BY <2>4, <2>5, StepInduction
    <3> QED BY <3>1
  <2> QED BY <2>1, <2>3, <2>6
<1> QED BY <1>3, <1>4

-----------------------------------------------------------------------------
(* The warnings of the phases                                              *)

\* What every phase's list, and the index behind it, must be for the next warning
\* to be counted right.
LogsInv ==
    /\ LogOK(log) /\ LogOK(roundLog) /\ invalid \in Nat
    /\ phase # "open" => IndexOK(index)
    /\ IsFiniteSet(DOMAIN filters)
    /\ \A c \in Range(out.dumps) : IsSeq(c.fields) /\ IsSeq(c.statics)

\* A phase's list joins the list of the pass.
LEMMA AbsorbOK ==
    ASSUME NEW w, LogOK(w), NEW p, LogOK(p)
    PROVE  LogOK(Absorb(w, p)) /\ Absorb(w, p).raised = w.raised + p.raised
<1>1. PICK j, x : j = Warn(w, p.kept) /\ x = Absorb(w, p)
  OBVIOUS
<1>2. /\ LogOK(j) /\ j.raised = w.raised + p.kept
      /\ j.kept + j.dropped = w.kept + w.dropped + p.kept
  BY <1>1, WarnOK DEF LogOK
<1>3. DOMAIN j = {"kept", "dropped", "raised"}
  BY <1>1 DEF Warn
<1>4. /\ x.kept = j.kept /\ x.dropped = j.dropped + p.dropped
      /\ x.raised = w.raised + p.raised
  BY <1>1, <1>3 DEF Absorb
<1>5. PICK a \in Nat, b \in Nat : a = w.raised /\ b = p.raised
  BY DEF LogOK
<1>6. PICK c \in Nat, d \in Nat : c = p.kept /\ d = p.dropped
  BY DEF LogOK
<1>7. c = Min2(b, MaxWarnings) /\ c + d = b
  BY <1>5, <1>6 DEF LogOK
<1>8. PICK e \in Nat, f \in Nat : e = j.kept /\ f = j.dropped
  BY <1>2 DEF LogOK
<1>9. e = Min2(a + c, MaxWarnings) /\ e + f = a + c
  BY <1>2, <1>5, <1>6, <1>8 DEF LogOK
<1>10. e = Min2(a + b, MaxWarnings) /\ e + (f + d) = a + b
  BY <1>7, <1>9, ScanAssumption DEF Min2
<1>11. x.kept = e /\ x.dropped = f + d /\ x.raised = a + b
  BY <1>4, <1>5, <1>6, <1>8
<1>12. LogOK(x)
  BY <1>10, <1>11 DEF LogOK
<1> QED BY <1>1, <1>4, <1>12

\* A step of the scan.
LEMMA ScanLogs ==
    ASSUME LogsInv, NextScan, UNCHANGED <<extractVars, resolveVars, threadCache>>
    PROVE  LogsInv'
<1>1. /\ roundLog' = roundLog /\ invalid' = invalid /\ filters' = filters /\ out' = out
      /\ phase = "scan"
  BY DEF resolveVars, extractVars, NextScan, ScanHeap, ScanOther, ScanKnown, ScanEnd,
     Scanning
<1>2. IndexOK(index) /\ LogOK(log)
  BY <1>1 DEF LogsInv
<1>3. IndexOK(index')
  <2>1. index' = index \/ (index' = Insert(Record) /\ Record.tag \in Known)
    BY DEF NextScan, ScanHeap, ScanOther, ScanKnown, ScanEnd
  <2> QED BY <1>2, <2>1, InsertOK
<1>4. LogOK(log')
  <2>1. log' = log \/ log' = Warn(log, 1)
    BY DEF NextScan, ScanHeap, ScanOther, ScanKnown, ScanEnd
  <2> QED BY <1>2, <2>1, WarnOK
<1> QED BY <1>1, <1>3, <1>4 DEF LogsInv, IndexOK, LogOK

\* A step of the extraction: a class dump of the heap is kept as it was read.
LEMMA ExtractLogs ==
    ASSUME LogsInv, ScanInv, OrderInv, OutInv, NextExtraction,
           UNCHANGED <<resolveVars, threadCache>>
    PROVE  LogsInv'
<1>1. /\ roundLog' = roundLog /\ invalid' = invalid /\ filters' = filters
      /\ index' = index /\ log' = log /\ phase # "open"
  BY DEF resolveVars, NextExtraction, ExtractNext, StartBatch, FinishTask, MergeNext,
     EndExtraction, Extracting, scanVars
<1>2. [Next]_engineVars
  BY DEF Next
<1>3. CASE out' = out
  BY <1>1, <1>3 DEF LogsInv, IndexOK, LogOK
<1>4. CASE /\ phase = "extract" /\ ranges' = ranges /\ merged < Len(ranges)
           /\ out' = MergeAll(out, Chunks(ranges[merged + 1]))
           /\ merged' = merged + 1
  <2>1. PICK h, o, r : h = ranges[merged + 1] /\ o = out /\ r = MergeAll(o, Chunks(h))
    OBVIOUS
  <2>2. LaidOut(h) /\ Formed(h)
    <3>1. HeapsLaid(ranges) /\ merged \in Nat /\ Len(ranges) \in Nat
      BY RangesLaid DEF OrderInv, HeapsLaid
    <3>2. merged + 1 \in 1..Len(ranges)
      BY <1>4, <3>1
    <3> QED BY <2>1, <3>1, <3>2 DEF HeapsLaid
  <2>3. OutOK(o)
    BY <2>1 DEF OutInv
  <2>4. OutOK(r) /\ Merges(h, o, r)
    BY <2>1, <2>2, <2>3, MergeHeap
  <2>5. PICK k : k = KindOf(Extracted(h), {"class"})
    OBVIOUS
  <2>6. k \in Seq(Subs(h)) /\ Range(k) = {s \in Range(Extracted(h)) : s.kind = "class"}
    <3>1. Extracted(h) \in Seq(Subs(h))
      BY <2>2, ExtractedIs
    <3>2. PICK T : T = {s \in Range(Extracted(h)) : s.kind \in {"class"}}
      OBVIOUS
    <3>3. k = Keep(Extracted(h), T)
      BY <2>5, <3>2 DEF KindOf
    <3>4. k \in Seq(Subs(h)) /\ Range(k) = Range(Extracted(h)) \cap T
      BY <3>1, <3>3, KeepPlaces, KeepRange
    <3> QED BY <3>2, <3>4
  <2>7. \A c \in Range(k) : IsSeq(c.fields) /\ IsSeq(c.statics)
    <3>1. Range(Extracted(h)) = {s \in Subs(h) : Yields(s)}
      BY <2>2, ExtractedIs
    <3> QED BY <2>2, <2>6, <3>1 DEF Formed
  <2>8. Range(r.dumps) = Range(o.dumps) \cup Range(k)
    <3>1. r.dumps = o.dumps \o k
      BY <2>4, <2>5 DEF Merges
    <3>2. IsSeq(o.dumps) /\ IsSeq(k)
      BY <2>3, <2>6, SeqIsSeq DEF OutOK
    <3> QED BY <3>1, <3>2, IsSeqConcat
  <2>9. \A c \in Range(r.dumps) : IsSeq(c.fields) /\ IsSeq(c.statics)
    BY <2>1, <2>7, <2>8 DEF LogsInv
  <2>10. out' = r
    BY <1>4, <2>1
  <2> QED BY <1>1, <2>9, <2>10 DEF LogsInv, IndexOK, LogOK
<1> QED BY <1>2, <1>3, <1>4, MergeShape


\* A round of look-ups leaves the index finite and counts its warnings.
LEMMA RoundLogs ==
    ASSUME LogsInv, phase # "open", NEW ids, IsFiniteSet(ids),
           RunBatchRound(ids, LookedUp(ranges, filters, entries, ids), roundLog),
           HeapsLaid(ranges)
    PROVE  IndexOK(index') /\ LogOK(roundLog')
<1>1. PICK found : found = LookedUp(ranges, filters, entries, ids)
  OBVIOUS
<1>2. index' = [index EXCEPT !.instance_offsets = Over(found, @)]
      /\ roundLog' = Warn(roundLog, LookupWarnings(filters, entries, ids, found))
  BY <1>1 DEF RunBatchRound
<1>3. IsFiniteSet(DOMAIN found)
  <2>1. DOMAIN found \subseteq ids
    BY <1>1, LookedUpIs
  <2> QED BY <2>1, FS_Subset
<1>4. LogOK(roundLog')
  <2>1. LookupWarnings(filters, entries, ids, found) \in Nat
    BY LookupWarned DEF LogsInv
  <2> QED BY <1>2, <2>1, WarnOK DEF LogsInv
<1>5. PICK x, y : x = index /\ y = index'
  OBVIOUS
<1>6. IndexOK(x)
  BY <1>5 DEF LogsInv
<1>7. /\ DOMAIN y = DOMAIN x /\ y.instance_offsets = Over(found, x.instance_offsets)
      /\ y.thread_object_ids = x.thread_object_ids
      /\ y.classes = x.classes /\ y.class_dumps = x.class_dumps
  BY <1>2, <1>5, <1>6 DEF IndexOK, IndexFields
<1>8. IsFiniteSet(DOMAIN y.instance_offsets)
  BY <1>3, <1>6, <1>7, OverFinite DEF IndexOK
<1>9. IndexOK(y)
  BY <1>6, <1>7, <1>8 DEF IndexOK
<1> QED BY <1>4, <1>5, <1>9

\* The index put together, with the warnings of the extraction in the list.
LEMMA AssembleLogs ==
    ASSUME LogsInv, OutInv, Assemble
    PROVE  LogsInv' /\ log'.raised >= log.raised + out.log.raised
<1>1. /\ roundLog' = roundLog /\ invalid' = invalid /\ out' = out /\ phase # "open"
  BY DEF Assemble, extractVars
<1>2. PICK d : d = Dumps
  OBVIOUS
<1>3. DumpsAre(d)
  <2>1. DumpsAre(index.class_dumps)
    BY <1>1 DEF LogsInv, IndexOK
  <2>2. IsSeq(out.dumps)
    BY DEF OutInv, OutOK
  <2> QED BY <1>2, <2>1, <2>2, DumpsFiled DEF LogsInv
<1>4. IndexOK(index')
  <2>1. PICK n : index' = [index EXCEPT !.class_dumps = d, !.field_names = n]
    BY <1>2 DEF Assemble
  <2>2. PICK x, y : x = index /\ y = index'
    OBVIOUS
  <2>3. IndexOK(x)
    BY <1>1, <2>2 DEF LogsInv
  <2>4. /\ DOMAIN y = DOMAIN x /\ y.instance_offsets = x.instance_offsets
        /\ y.thread_object_ids = x.thread_object_ids
        /\ y.classes = x.classes /\ y.class_dumps = d
    BY <2>1, <2>2, <2>3 DEF IndexOK, IndexFields
  <2>5. IndexOK(y)
    BY <1>3, <2>3, <2>4 DEF IndexOK
  <2> QED BY <2>2, <2>5
<1>5. PICK e : e = FinalizeCurrent(out.builder)
  OBVIOUS
<1>6. BuilderOK(e)
  BY <1>5, FinalizeBuilt DEF OutInv, OutOK
<1>7. IsFiniteSet(DOMAIN filters')
  <2>1. PICK sorted : sorted = BySegment(e.filters)
    OBVIOUS
  <2>2. DOMAIN sorted = DOMAIN e.filters
    BY <2>1 DEF BySegment
  <2>3. DOMAIN filters' = DOMAIN sorted
    BY <1>5, <2>1 DEF Assemble, FinishFilters
  <2> QED BY <1>6, <2>2, <2>3, SeqFinite DEF BuilderOK, FiltersOK
<1>8. LogOK(log') /\ log'.raised >= log.raised + out.log.raised
  <2>1. PICK a, b : a = Cardinality(NamesUsed(d) \ DOMAIN index.strings)
                    /\ b = Cardinality(e.failed)
    OBVIOUS
  <2>2. a \in Nat
    <3>1. IsFiniteSet(NamesUsed(d))
      BY <1>3, NamesFinite
    <3>2. IsFiniteSet(NamesUsed(d) \ DOMAIN index.strings)
      BY <3>1, FS_Subset
    <3> QED BY <2>1, <3>2, FS_CardinalityType
  <2>3. b \in Nat
    BY <1>6, <2>1, FS_CardinalityType DEF BuilderOK, FiltersOK
  <2>4. log' = Warn(Absorb(log, out.log), a + b)
    BY <1>2, <1>5, <2>1 DEF Assemble
  <2>5. /\ LogOK(Absorb(log, out.log))
        /\ Absorb(log, out.log).raised = log.raised + out.log.raised
    BY AbsorbOK DEF LogsInv, OutInv, OutOK
  <2>6. PICK n \in Nat : n = a + b
    BY <2>2, <2>3
  <2>7. LogOK(log') /\ log'.raised = log.raised + out.log.raised + n
    BY <2>4, <2>5, <2>6, WarnOK
  <2>8. log.raised \in Nat /\ out.log.raised \in Nat
    BY DEF LogsInv, OutInv, OutOK, LogOK
  <2> QED BY <2>6, <2>7, <2>8
<1> QED BY <1>1, <1>4, <1>7, <1>8 DEF LogsInv, LogOK

\* The steps that resolve the threads and check the classes.
LEMMA ResolveLogs ==
    ASSUME LogsInv, ScanInv, OutInv, NextResolution
    PROVE  LogsInv'
<1>1. CASE Assemble
  BY <1>1, AssembleLogs
<1>2. CASE Correlate
  <2>1. /\ roundLog' = roundLog /\ invalid' = invalid /\ filters' = filters
        /\ out' = out /\ log' = log /\ phase # "open"
    BY <1>2 DEF Correlate, extractVars, resolveVars
  <2>2. PICK traceOf \in TraceChoices :
          index' = FoldLeft(PutFrameRoot,
                            FoldLeft(PutThreadObject,
                                     [index EXCEPT !.threads = Synthesised(traceOf)],
                                     out.threads),
                            out.roots)
    BY <1>2 DEF Correlate
  <2>3. PICK w, x : w = index /\ x = [w EXCEPT !.threads = Synthesised(traceOf)]
    OBVIOUS
  <2>4. IndexOK(w)
    BY <2>1, <2>3 DEF LogsInv
  <2>5. /\ DOMAIN x = DOMAIN w /\ x.instance_offsets = w.instance_offsets
        /\ x.thread_object_ids = w.thread_object_ids
        /\ x.classes = w.classes /\ x.class_dumps = w.class_dumps
    BY <2>3, <2>4 DEF IndexOK, IndexFields
  <2>6. IndexOK(x)
    BY <2>4, <2>5, IndexKept
  <2>7. IsSeq(out.threads) /\ IsSeq(out.roots)
    BY DEF OutInv, OutOK
  <2>8. PICK y : y = FoldLeft(PutThreadObject, x, out.threads)
    OBVIOUS
  <2>9. IndexOK(y)
    BY <2>6, <2>7, <2>8, RootsOK
  <2>10. PICK z : z = FoldLeft(PutFrameRoot, y, out.roots)
    OBVIOUS
  <2>11. IndexOK(z)
    BY <2>7, <2>9, <2>10, RootsOK
  <2>12. index' = z
    BY <2>2, <2>3, <2>8, <2>10
  <2> QED BY <2>1, <2>11, <2>12 DEF LogsInv, LogOK
<1>3. CASE Round0 \/ Round1 \/ Round2
  <2>1. /\ invalid' = invalid /\ filters' = filters /\ out' = out /\ log' = log
        /\ phase # "open" /\ phase # "scan"
    BY <1>3 DEF Round0, Round1, Round2, RoundConst, EndRounds, ToRound, extractVars
  <2>2. HeapsLaid(ranges) /\ IndexOK(index) /\ DumpsAre(index.class_dumps)
    BY <2>1, RangesLaid DEF LogsInv, IndexOK
  <2>3. /\ IsFiniteSet(Range(index.thread_object_ids))
        /\ IsFiniteSet(Range(index.instance_offsets))
    BY <2>2, RangeFinite DEF IndexOK
  <2>4. \/ UNCHANGED <<index, roundLog>>
        \/ \E ids : /\ IsFiniteSet(ids)
                    /\ RunBatchRound(ids, LookedUp(ranges, filters, entries, ids), roundLog)
    <3>1. CASE Round0
      BY <2>3, <3>1 DEF Round0
    <3>2. CASE Round1
      <4>1. PICK ids : ids = Wanted(Range(index.instance_offsets), {"name", "holder"})
        OBVIOUS
      <4>2. IsFiniteSet(ids)
        BY <2>2, <2>3, <4>1, WantedFinite
      <4> QED BY <3>2, <4>1, <4>2 DEF Round1
    <3>3. CASE Round2
      <4>1. PICK places : places = {index.instance_offsets[n] :
                                      n \in nameRefs \cap DOMAIN index.instance_offsets}
        OBVIOUS
      <4>2. IsFiniteSet(places)
        <5>1. places \subseteq Range(index.instance_offsets)
          BY <4>1 DEF Range
        <5> QED BY <2>3, <5>1, FS_Subset
      <4>3. PICK ids : ids = Wanted(places, {"value"})
        OBVIOUS
      <4>4. IsFiniteSet(ids)
        BY <2>2, <4>2, <4>3, WantedFinite
      <4> QED BY <3>3, <4>1, <4>3, <4>4 DEF Round2
    <3> QED BY <1>3, <3>1, <3>2, <3>3
  <2>5. IndexOK(index') /\ LogOK(roundLog')
    <3>1. CASE UNCHANGED <<index, roundLog>>
      BY <2>2, <3>1 DEF LogsInv, IndexOK, LogOK
    <3>2. CASE \E ids : /\ IsFiniteSet(ids)
                        /\ RunBatchRound(ids, LookedUp(ranges, filters, entries, ids),
                                         roundLog)
      BY <2>1, <2>2, <3>2, RoundLogs
    <3> QED BY <2>4, <3>1, <3>2
  <2> QED BY <2>1, <2>5 DEF LogsInv, LogOK
<1>4. CASE CheckClass
  <2>1. /\ invalid' = invalid /\ filters' = filters /\ out' = out /\ log' = log
        /\ index' = index /\ roundLog' = roundLog /\ phase' = phase
    BY <1>4 DEF CheckClass, extractVars
  <2> QED BY <2>1 DEF LogsInv, LogOK, IndexOK
<1>5. CASE FinishPass
  <2>1. /\ filters' = filters /\ out' = out /\ roundLog' = roundLog /\ phase # "open"
        /\ phase' = "open" /\ log' = Absorb(log, roundLog)
    BY <1>5 DEF FinishPass, extractVars
  <2>2. LogOK(log')
    BY <2>1, AbsorbOK DEF LogsInv
  <2>3. invalid' \in Nat
    <3>1. IsFiniteSet(Undumped)
      <4>1. Undumped \subseteq DOMAIN index.classes
        BY DEF Undumped
      <4> QED BY <2>1, <4>1, FS_Subset DEF LogsInv, IndexOK
    <3>2. PICK a \in Nat : a = Cardinality(Undumped)
      BY <3>1, FS_CardinalityType
    <3>3. PICK b \in Nat : b = IF inCycle = {} THEN 0 ELSE 1
      OBVIOUS
    <3>4. invalid' = Min2(a + b, MaxValidation + 1)
      BY <1>5, <3>2, <3>3 DEF FinishPass
    <3> QED BY <3>4, ValidationAssumption DEF Min2
  <2> QED BY <2>1, <2>2, <2>3 DEF LogsInv, LogOK
<1> QED BY <1>1, <1>2, <1>3, <1>4, <1>5 DEF NextResolution

LEMMA LogsStep ==
    ScanInv /\ OrderInv /\ OutInv /\ LogsInv /\ [Next]_engineVars => LogsInv'
<1> SUFFICES ASSUME ScanInv, OrderInv, OutInv, LogsInv, [Next]_engineVars
             PROVE  LogsInv'
  OBVIOUS
<1>1. CASE ResolveThread \/ GetLocals \/ ExpandObject \/ GetStatics \/ ListThreads
  <2>1. /\ phase = "open" /\ phase' = phase /\ log' = log /\ out' = out
        /\ roundLog' = roundLog /\ invalid' = invalid /\ filters' = filters
    BY <1>1 DEF ResolveThread, GetLocals, ExpandObject, GetStatics, ListThreads, Open,
       extractVars, resolveVars
  <2> QED BY <2>1 DEF LogsInv, LogOK
<1>2. CASE UNCHANGED engineVars
  <2>1. UNCHANGED <<phase, log, out, roundLog, invalid, filters, index>>
    BY <1>2 DEF engineVars, scanVars, extractVars, resolveVars
  <2> QED BY <2>1 DEF LogsInv, LogOK, IndexOK
<1> QED BY <1>1, <1>2, ScanLogs, ExtractLogs, ResolveLogs DEF Next

LEMMA LogsInit == Init => LogsInv
<1> SUFFICES ASSUME Init PROVE LogsInv
  OBVIOUS
<1>1. /\ log = NoWarnings /\ roundLog = NoWarnings /\ invalid = 0 /\ index = EmptyIndex
      /\ filters = <<>> /\ out.dumps = <<>>
  BY DEF Init, InitScan, InitExtraction, InitResolution, EmptyOutput
<1>2. PICK e : e = <<>>
  OBVIOUS
<1>3. DOMAIN e = {} /\ Range(e) = {} /\ IsFiniteSet(DOMAIN e)
  BY <1>2, FS_EmptySet DEF Range
<1>4. LogOK(NoWarnings)
  BY ScanAssumption DEF NoWarnings, LogOK, Min2
<1>5. IndexOK(EmptyIndex)
  <2>1. PICK x : x = EmptyIndex
    OBVIOUS
  <2>2. /\ x.instance_offsets = e /\ x.thread_object_ids = e /\ x.classes = e
        /\ x.class_dumps = e /\ IndexFields \subseteq DOMAIN x
    BY <1>2, <2>1 DEF EmptyIndex, IndexFields
  <2> QED BY <1>3, <2>1, <2>2 DEF IndexOK, DumpsAre
<1> QED BY <1>1, <1>2, <1>3, <1>4, <1>5 DEF LogsInv

\* No warning of any phase is lost: the list of each phase holds what it raised or
\* has it counted among the suppressed, and stays within its limit, whatever joins
\* it (record_scan.rs push_warning_capped, heap_extraction.rs and mod.rs
\* extend_warnings_capped).
THEOREM WarningsCounted == Spec => []WarningsAccounted
<1>1. Init => OutInv /\ LogsInv
  BY OutInit, LogsInit
<1>2. FirstInv /\ OutInv /\ LogsInv /\ [Next]_engineVars => OutInv' /\ LogsInv'
  BY OutStep, LogsStep DEF FirstInv
<1>3. OutInv /\ LogsInv => WarningsAccounted
  <2> SUFFICES ASSUME OutInv, LogsInv, NEW w \in {log, out.log, roundLog}
               PROVE  w.kept <= MaxWarnings /\ w.kept + w.dropped = w.raised
    BY DEF WarningsAccounted
  <2>1. LogOK(w)
    BY DEF OutInv, OutOK, LogsInv
  <2>2. PICK r \in Nat : r = w.raised /\ w.kept = Min2(r, MaxWarnings)
    BY <2>1 DEF LogOK
  <2>3. w.kept <= MaxWarnings
    BY <2>2, ScanAssumption DEF Min2
  <2> QED BY <2>1, <2>3 DEF LogOK
<1> QED BY <1>1, <1>2, <1>3, FirstPassOrder, PTL DEF Spec


-----------------------------------------------------------------------------
(* Nothing that is lost goes unreported                                    *)

\* Each place up to the end of the last part lies in a part.
LEMMA PartHolding ==
    ASSUME NEW n \in Nat, NEW K \in Nat, NEW P \in [0..K -> 0..n], P[0] = 0,
           NEW i \in 1..P[K]
    PROVE  \E k \in 1..K : i \in (P[k - 1] + 1)..P[k]
<1> DEFINE E == {k \in 0..K : P[k] < i}
<1>1. SUFFICES ASSUME \A k \in 1..K : i \notin (P[k - 1] + 1)..P[k]
               PROVE  FALSE
  OBVIOUS
<1>2. 0 \in E /\ i \in Nat
  OBVIOUS
<1>3. \A k \in 0..(K - 1) : k \in E => k + 1 \in E
  <2> SUFFICES ASSUME NEW k \in 0..(K - 1), P[k] < i
               PROVE  k + 1 \in 0..K /\ P[k + 1] < i
    OBVIOUS
  <2>1. PICK j : j = k + 1 /\ j \in 1..K /\ j \in 0..K /\ j - 1 = k
    OBVIOUS
  <2>2. i \notin (P[k] + 1)..P[j]
    BY <1>1, <2>1
  <2>3. P[k] \in Nat /\ P[j] \in Nat
    BY <2>1
  <2> QED BY <1>2, <2>1, <2>2, <2>3
<1> HIDE DEF E
<1>4. 0..K \subseteq E
  BY <1>2, <1>3, StepInduction
<1>5. K \in E
  BY <1>4
<1> QED BY <1>5 DEF E

\* A chunk that warns.
Warns(c) == c.cut \/ \E s \in Range(c.subs) : s.kind = "class" /\ s.form = "partial"

\* A sub-record that is lost, or partly read, is in a chunk that warns.
LEMMA ReportedWarns ==
    ASSUME NEW h, LaidOut(h), Formed(h), NEW c, NEW K \in Nat, NEW P, IsChunks(h, c, K, P),
           NEW s \in Subs(h), Reported(s)
    PROVE  \E k \in 1..K : Warns(c[k])
<1>1. CASE s.form = "partial"
  <2>1. Yields(s) /\ s.kind = "class" /\ Matters(s)
    BY <1>1 DEF Formed, Yields, Matters
  <2>2. s \in Range(Extracted(h)) /\ Extracted(h) \in Seq(Subs(h))
    BY <2>1, ExtractedIs
  <2>3. PICK n \in Nat : n = Len(Extracted(h)) /\ DOMAIN Extracted(h) = 1..n
    BY <2>2
  <2>4. PICK i \in 1..n : s = Extracted(h)[i]
    BY <2>2, <2>3 DEF Range
  <2>5. P \in [0..K -> 0..n] /\ P[0] = 0 /\ P[K] \in 0..n
    BY <2>3 DEF IsChunks
  <2>6. i \in 1..P[K]
    <3>1. i \notin (P[K] + 1)..n
      BY <2>1, <2>3, <2>4 DEF IsChunks
    <3> QED BY <2>5, <3>1
  <2>7. PICK k \in 1..K : i \in (P[k - 1] + 1)..P[k]
    BY <2>5, <2>6, PartHolding
  <2>8. s \in Range(c[k].subs)
    <3>1. Range(c[k].subs) = Between(Extracted(h), P[k - 1], P[k])
      BY PartsAre
    <3> QED BY <2>4, <2>7, <3>1 DEF Between
  <2> QED BY <1>1, <2>1, <2>8 DEF Warns
<1>2. CASE s.form = "broken" /\ s.left \in Nat \ {0}
  <2>1. \A t \in Subs(h) : ~Yields(t) => t = s
    <3> SUFFICES ASSUME NEW t \in Subs(h), ~Yields(t)
                 PROVE  t = s
      OBVIOUS
    <3>0. DOMAIN h.subs = 1..Len(h.subs)
      BY DEF LaidOut
    <3>1. PICK i \in 1..Len(h.subs), j \in 1..Len(h.subs) : s = h.subs[i] /\ t = h.subs[j]
      BY <3>0 DEF Subs
    <3>2. i = Len(h.subs) /\ j = Len(h.subs)
      BY <1>2, <3>1 DEF LaidOut, Yields
    <3> QED BY <3>1, <3>2
  <2>2. {t \in Subs(h) : ~Yields(t)} = {s}
    BY <1>2, <2>1 DEF Yields
  <2>3. Unread(h) = s.left
    BY <2>2 DEF Unread
  <2>4. Unread(h) > 0
    BY <1>2, <2>3
  <2> QED BY <2>4 DEF IsChunks, Warns
<1> QED BY <1>1, <1>2 DEF Reported

\* A record merged raises a warning for whatever it lost.
LEMMA MergeWarns ==
    ASSUME NEW h, LaidOut(h), Formed(h), NEW o, OutOK(o), NEW r,
           r = MergeAll(o, Chunks(h))
    PROVE  /\ r.log.raised >= o.log.raised
           /\ (\E s \in Subs(h) : Reported(s)) => r.log.raised > o.log.raised
<1>1. PICK c : c = Chunks(h) /\ r = MergeAll(o, c)
  OBVIOUS
<1>2. PICK K \in Nat : \E P : IsChunks(h, c, K, P)
  BY <1>1, ChunksAre
<1>3. PICK P : IsChunks(h, c, K, P)
  BY <1>2
<1>4. PICK v : /\ v[0] = o
               /\ \A k \in 1..K : v[k] = MergeChunk(v[k - 1], c[k])
               /\ r = v[K]
  <2>1. DOMAIN c = 1..K
    BY <1>3 DEF IsChunks
  <2>2. \E v : Merging!Passes(o, c, K, v)
    BY <2>1, Merging!FoldSteps
  <2>3. MergeAll(o, c) = Merging!Fold(o, c)
    BY DEF Merging!Fold, FoldLeft, Merging!FoldLeft, MapThenFoldSet,
       Merging!MapThenFoldSet, Max, Merging!Max, MergeAll
  <2> QED BY <1>1, <2>2, <2>3 DEF Merging!Passes
<1>5. ASSUME NEW k \in 1..K
      PROVE  \E n \in Nat : /\ v[k].log = Warn(v[k - 1].log, n)
                            /\ Warns(c[k]) => n > 0
  <2>1. PICK x, y, z : x = v[k - 1] /\ y = v[k] /\ z = c[k]
    OBVIOUS
  <2>2. y = MergeChunk(x, z)
    BY <1>4, <2>1
  <2>3. z.subs \in Seq(Subs(h)) /\ z.cut \in BOOLEAN
    BY <1>3, <2>1, PartsAre DEF IsChunks
  <2>4. PICK T : T = {s \in Range(z.subs) : s.kind = "class" /\ s.form = "partial"}
    OBVIOUS
  <2>5. Keep(z.subs, T) \in Seq(Subs(h)) /\ Range(Keep(z.subs, T)) = Range(z.subs) \cap T
    BY <2>3, KeepPlaces, KeepRange
  <2>6. PICK a \in Nat : /\ a = Len(Keep(z.subs, T))
                         /\ DOMAIN Keep(z.subs, T) = 1..a
    BY <2>5
  <2>7. T # {} => a > 0
    <3>1. T \subseteq Range(Keep(z.subs, T))
      BY <2>4, <2>5
    <3>2. a = 0 => Range(Keep(z.subs, T)) = {}
      BY <2>6 DEF Range
    <3> QED BY <2>6, <3>1, <3>2
  <2>8. PICK b \in Nat : b = IF z.cut THEN 1 ELSE 0
    OBVIOUS
  <2>9. y.log = Warn(x.log, a + b)
    BY <2>2, <2>4, <2>6, <2>8 DEF MergeChunk
  <2>10. Warns(z) => a + b > 0
    <3>1. Warns(z) => z.cut \/ T # {}
      BY <2>4 DEF Warns
    <3> QED BY <2>7, <2>8, <3>1
  <2> QED BY <2>1, <2>9, <2>10
<1> DEFINE raised(k) == v[k].log.raised
           E == {k \in 0..K : /\ LogOK(v[k].log) /\ raised(k) >= raised(0)
                              /\ (\E j \in 1..k : Warns(c[j])) => raised(k) > raised(0)}
<1>6. LogOK(v[0].log) /\ raised(0) \in Nat
  BY <1>4 DEF OutOK, LogOK
<1>7. 0 \in E
  BY <1>6
<1>8. \A k \in 0..(K - 1) : k \in E => k + 1 \in E
  <2> SUFFICES ASSUME NEW k \in 0..(K - 1), k \in E
               PROVE  k + 1 \in E
    OBVIOUS
  <2>1. PICK j : j = k + 1 /\ j \in 1..K /\ j \in 0..K /\ j - 1 = k
    OBVIOUS
  <2>2. PICK n \in Nat : v[j].log = Warn(v[k].log, n) /\ (Warns(c[j]) => n > 0)
    BY <1>5, <2>1
  <2>3. LogOK(v[j].log) /\ raised(j) = raised(k) + n
    BY <2>2, WarnOK
  <2>4. raised(k) \in Nat /\ raised(k) >= raised(0)
        /\ ((\E i \in 1..k : Warns(c[i])) => raised(k) > raised(0))
    BY DEF LogOK
  <2>5. (\E i \in 1..j : Warns(c[i])) => Warns(c[j]) \/ \E i \in 1..k : Warns(c[i])
    BY <2>1
  <2> HIDE DEF raised
  <2>6. raised(j) >= raised(0) /\ ((\E i \in 1..j : Warns(c[i])) => raised(j) > raised(0))
    BY <1>6, <2>2, <2>3, <2>4, <2>5
  <2> QED BY <2>1, <2>3, <2>6
<1>9. K \in E
  <2> HIDE DEF E
  <2>1. 0..K \subseteq E
    BY <1>7, <1>8, StepInduction
  <2> QED BY <2>1
<1>10. (\E s \in Subs(h) : Reported(s)) => \E k \in 1..K : Warns(c[k])
  BY <1>3, ReportedWarns
<1> QED BY <1>4, <1>9, <1>10


\* What is lost in the records read, at the end of the file, in the heap records
\* merged, has been warned of, and the warnings of the extraction reach the list.
UnreportedInv ==
    /\ \A i \in 1..(next - 1) :
         LET r == file.records[i]
         IN  r.tag \in Known /\ ~(Parses(r) /\ ~LeftOver(r)) => log.raised > 0
    /\ phase # "scan" /\ file.tail # "clean" => log.raised > 0
    /\ \A i \in 1..merged :
         (\E s \in Subs(ranges[i]) : Reported(s)) => out.log.raised > 0
    /\ phase \notin {"scan", "extract", "assemble"} /\ out.log.raised > 0 => log.raised > 0

\* A step of the scan.
LEMMA ScanWarns ==
    ASSUME ScanInv, OrderInv, LogsInv, UnreportedInv, NextScan, UNCHANGED extractVars
    PROVE  UnreportedInv'
<1>1. /\ file' = file /\ out' = out /\ merged' = merged /\ merged = 0 /\ phase = "scan"
      /\ LogOK(log) /\ phase' \in {"scan", "extract"}
  <2>1. phase = "scan" /\ file' = file /\ phase' \in {"scan", "extract"}
    BY DEF NextScan, ScanHeap, ScanOther, ScanKnown, ScanEnd, Scanning, Advance
  <2> QED BY <2>1 DEF LogsInv, OrderInv, extractVars
<1>2. PICK a \in Nat : a = log.raised
  BY <1>1 DEF LogOK
<1>3. PICK n \in Nat : n = next /\ n > 0
  BY Layout DEF ScanInv
<1>4. Warn(log, 1).raised = a + 1
  BY <1>1, <1>2, WarnOK
<1> DEFINE Lost(i) == LET r == file.records[i]
                      IN  r.tag \in Known /\ ~(Parses(r) /\ ~LeftOver(r))
<1>5. \A i \in 1..(n - 1) : Lost(i) => a > 0
  BY <1>2, <1>3 DEF UnreportedInv
<1>6. CASE ScanEnd
  <2>1. next' = n /\ (log' = log \/ log'.raised = a + 1)
        /\ (file.tail # "clean" => log'.raised = a + 1)
    BY <1>3, <1>4, <1>6 DEF ScanEnd
  <2>2. log'.raised >= a /\ (file.tail # "clean" => log'.raised > 0)
    BY <1>2, <2>1
  <2>3. \A i \in 1..(n - 1) : Lost(i) => log'.raised > 0
    <3> HIDE DEF Lost
    <3> QED BY <1>2, <1>5, <2>1
  <2>4. \A i \in 1..merged' : FALSE
    BY <1>1
  <2> QED BY <1>1, <2>1, <2>2, <2>3, <2>4 DEF UnreportedInv
<1>7. CASE ScanHeap \/ ScanOther \/ ScanKnown
  <2>1. next' = n + 1 /\ phase' = "scan"
    BY <1>1, <1>3, <1>7 DEF ScanHeap, ScanOther, ScanKnown, Advance
  <2>2. /\ log' = log \/ log'.raised = a + 1
        /\ Lost(n) => log'.raised = a + 1
    <3>1. CASE ScanHeap \/ ScanOther
      <4>1. log' = log /\ Record.tag \notin Known
        BY <3>1 DEF ScanHeap, ScanOther, Known
      <4> QED BY <1>3, <4>1 DEF Record
    <3>2. CASE ScanKnown
      <4>1. CASE Lost(n)
        <5>1. ~Parses(Record) \/ LeftOver(Record)
          BY <1>3, <4>1 DEF Record
        <5>2. log' = Warn(log, 1)
          BY <3>2, <5>1 DEF ScanKnown
        <5> QED BY <1>4, <5>2
      <4>2. CASE ~Lost(n)
        <5>1. log' = log \/ log' = Warn(log, 1)
          BY <3>2 DEF ScanKnown
        <5> QED BY <1>4, <4>2, <5>1
      <4> QED BY <4>1, <4>2
    <3> QED BY <1>7, <3>1, <3>2
  <2>3. \A i \in 1..n : Lost(i) => log'.raised > 0
    <3> SUFFICES ASSUME NEW i \in 1..n, Lost(i) PROVE log'.raised > 0
      OBVIOUS
    <3> HIDE DEF Lost
    <3>1. i = n \/ i \in 1..(n - 1)
      BY <1>3
    <3>2. CASE i = n
      BY <1>2, <2>2, <3>2
    <3>3. CASE i \in 1..(n - 1)
      BY <1>2, <1>5, <2>2, <3>3
    <3> QED BY <3>1, <3>2, <3>3
  <2>4. \A i \in 1..merged' : FALSE
    BY <1>1
  <2>5. next' - 1 = n
    BY <1>3, <2>1
  <2> QED BY <1>1, <2>1, <2>3, <2>4, <2>5 DEF UnreportedInv
<1> QED BY <1>6, <1>7 DEF NextScan

\* A step of the extraction.
LEMMA ExtractWarns ==
    ASSUME ScanInv, OrderInv, OutInv, UnreportedInv, NextExtraction,
           UNCHANGED <<resolveVars, threadCache>>
    PROVE  UnreportedInv'
<1>1. /\ file' = file /\ next' = next /\ log' = log /\ ranges' = ranges
      /\ phase = "extract" /\ phase' \in {"extract", "assemble"}
  BY DEF NextExtraction, ExtractNext, StartBatch, FinishTask, MergeNext, EndExtraction,
     Extracting, scanVars
<1>2. [Next]_engineVars
  BY DEF Next
<1>3. CASE UNCHANGED <<out, merged>>
  BY <1>1, <1>3 DEF UnreportedInv
<1>4. CASE /\ merged < Len(ranges)
           /\ out' = MergeAll(out, Chunks(ranges[merged + 1]))
           /\ merged' = merged + 1
  <2>1. PICK h, o, r : h = ranges[merged + 1] /\ o = out /\ r = MergeAll(o, Chunks(h))
    OBVIOUS
  <2>2. PICK m \in Nat : m = merged /\ m + 1 \in 1..Len(ranges)
    BY <1>4, RangesLaid DEF OrderInv, HeapsLaid
  <2>3. LaidOut(h) /\ Formed(h)
    BY <2>1, <2>2, RangesLaid DEF HeapsLaid
  <2>4. OutOK(o)
    BY <2>1 DEF OutInv
  <2>5. /\ r.log.raised >= o.log.raised
        /\ (\E s \in Subs(h) : Reported(s)) => r.log.raised > o.log.raised
    BY <2>1, <2>3, <2>4, MergeWarns
  <2>6. o.log.raised \in Nat /\ r.log.raised \in Nat
    <3>1. OutOK(r)
      BY <2>1, <2>3, <2>4, MergeHeap
    <3> QED BY <2>4, <3>1 DEF OutOK, LogOK
  <2>7. out' = r /\ merged' = m + 1
    BY <1>4, <2>1, <2>2
  <2>8. \A i \in 1..(m + 1) :
          (\E s \in Subs(ranges[i]) : Reported(s)) => r.log.raised > 0
    <3> SUFFICES ASSUME NEW i \in 1..(m + 1), \E s \in Subs(ranges[i]) : Reported(s)
                 PROVE  r.log.raised > 0
      OBVIOUS
    <3>1. CASE i = m + 1
      BY <2>1, <2>2, <2>5, <2>6, <3>1
    <3>2. CASE i \in 1..m
      <4>1. o.log.raised > 0
        BY <2>1, <2>2, <3>2 DEF UnreportedInv
      <4> QED BY <2>5, <2>6, <4>1
    <3> QED BY <3>1, <3>2
  <2> QED BY <1>1, <2>7, <2>8 DEF UnreportedInv
<1> QED BY <1>1, <1>2, <1>3, <1>4, MergeShape

\* A step after both.
LEMMA LateWarns ==
    ASSUME OutInv, LogsInv, UnreportedInv, NextResolution
    PROVE  UnreportedInv'
<1>1. /\ file' = file /\ next' = next /\ ranges' = ranges /\ out' = out
      /\ merged' = merged /\ phase \notin {"scan", "extract"}
      /\ phase' \notin {"scan", "extract", "assemble"}
  <2>1. CASE Assemble \/ Correlate \/ Round0 \/ Round1
    BY <2>1 DEF Assemble, Correlate, Round0, Round1, EndRounds, ToRound, RoundConst,
       scanConst, extractVars
  <2>2. CASE Round2 \/ CheckClass \/ FinishPass
    BY <2>2 DEF Round2, CheckClass, FinishPass, EndRounds, RoundConst, scanConst,
       extractVars
  <2> QED BY <2>1, <2>2 DEF NextResolution
<1>2. LogOK(log) /\ LogOK(roundLog) /\ LogOK(out.log)
  BY DEF LogsInv, OutInv, OutOK
<1>3. PICK a \in Nat, b \in Nat, c \in Nat :
        a = log.raised /\ b = roundLog.raised /\ c = out.log.raised
  BY <1>2 DEF LogOK
<1>4. /\ log'.raised \in Nat /\ log'.raised >= a
      /\ phase = "assemble" => log'.raised >= a + c
  <2>1. CASE Assemble
    <3>1. log'.raised >= a + c
      BY <1>3, <2>1, AssembleLogs
    <3>2. log'.raised \in Nat
      BY <2>1, AssembleLogs DEF LogsInv, LogOK
    <3> QED BY <1>3, <3>1, <3>2
  <2>2. CASE FinishPass
    <3>1. log' = Absorb(log, roundLog) /\ phase = "validate"
      BY <2>2 DEF FinishPass
    <3>2. log'.raised = a + b
      BY <1>2, <1>3, <3>1, AbsorbOK
    <3> QED BY <1>3, <3>1, <3>2
  <2>3. CASE Correlate \/ Round0 \/ Round1 \/ Round2 \/ CheckClass
    <3>1. log' = log /\ phase # "assemble"
      BY <2>3 DEF Correlate, Round0, Round1, Round2, CheckClass, RoundConst
    <3> QED BY <1>3, <3>1
  <2> QED BY <2>1, <2>2, <2>3 DEF NextResolution
<1>5. log.raised > 0 => log'.raised > 0
  BY <1>3, <1>4
<1>6. out.log.raised > 0 => log'.raised > 0
  <2>1. CASE phase = "assemble"
    BY <1>3, <1>4, <2>1
  <2>2. CASE phase # "assemble"
    BY <1>1, <1>5, <2>2 DEF UnreportedInv
  <2> QED BY <2>1, <2>2
<1> QED BY <1>1, <1>5, <1>6 DEF UnreportedInv

LEMMA UnreportedStep ==
    ScanInv /\ OrderInv /\ OutInv /\ LogsInv /\ UnreportedInv /\ [Next]_engineVars
      => UnreportedInv'
<1> SUFFICES ASSUME ScanInv, OrderInv, OutInv, LogsInv, UnreportedInv, [Next]_engineVars
             PROVE  UnreportedInv'
  OBVIOUS
<1>1. CASE NextScan /\ UNCHANGED <<extractVars, resolveVars, threadCache>>
  BY <1>1, ScanWarns
<1>2. CASE \/ ResolveThread \/ GetLocals \/ ExpandObject \/ GetStatics \/ ListThreads
           \/ UNCHANGED engineVars
  <2>1. UNCHANGED <<file, next, phase, log, ranges, out, merged>>
    <3>1. CASE ResolveThread \/ GetLocals \/ ExpandObject \/ GetStatics \/ ListThreads
      BY <3>1 DEF ResolveThread, GetLocals, ExpandObject, GetStatics, ListThreads, Open,
         scanConst, extractVars
    <3>2. CASE UNCHANGED engineVars
      BY <3>2 DEF engineVars, scanVars, extractVars
    <3> QED BY <1>2, <3>1, <3>2
  <2> QED BY <2>1 DEF UnreportedInv
<1> QED BY <1>1, <1>2, ExtractWarns, LateWarns DEF Next

\* A dump that opens without a warning was read to the last byte: what any phase
\* skipped, cut off or read in part is in the list of warnings
\* (engine_impl/mod.rs is_fully_indexed).
THEOREM NothingUnreported == Spec => []UnreportedIsWhole
<1>1. Init => OutInv /\ LogsInv
  BY OutInit, LogsInit
<1>2. Init => UnreportedInv
  <2> SUFFICES ASSUME Init PROVE UnreportedInv
    OBVIOUS
  <2>1. next = 1 /\ phase = "scan" /\ merged = 0
    BY DEF Init, InitScan, InitExtraction
  <2>2. \A i \in 1..0 : FALSE
    OBVIOUS
  <2>3. next - 1 = 0
    BY <2>1
  <2> QED BY <2>1, <2>2, <2>3 DEF UnreportedInv
<1>3. FirstInv /\ OutInv /\ LogsInv /\ UnreportedInv /\ [Next]_engineVars
        => OutInv' /\ LogsInv' /\ UnreportedInv'
  BY OutStep, LogsStep, UnreportedStep DEF FirstInv
<1>4. FirstInv /\ OutInv /\ LogsInv /\ UnreportedInv => UnreportedIsWhole
  <2> SUFFICES ASSUME ScanInv, OrderInv, OutInv, LogsInv, UnreportedInv, Opened, FullyIndexed
               PROVE  Whole
    BY DEF FirstInv, UnreportedIsWhole
  <2>1. phase = "open"
    BY DEF Opened
  <2>2. log.raised = 0
    <3>1. LogOK(log) /\ invalid \in Nat /\ log.kept + invalid = 0
      BY DEF LogsInv, FullyIndexed
    <3>2. PICK k \in Nat, a \in Nat : k = log.kept /\ a = log.raised /\ k = Min2(a, MaxWarnings)
      BY <3>1 DEF LogOK
    <3>3. k = 0
      BY <3>1, <3>2
    <3> QED BY <3>2, <3>3, ScanAssumption DEF Min2
  <2>3. file.tail = "clean"
    BY <2>1, <2>2 DEF UnreportedInv
  <2>4. ASSUME NEW r \in Range(file.records), r.tag \in Known
        PROVE  Parses(r) /\ ~LeftOver(r)
    <3>1. PICK n \in Nat : n = Len(file.records) /\ DOMAIN file.records = 1..n
      BY Layout DEF ScanInv
    <3>2. PICK i \in 1..n : r = file.records[i]
      BY <3>1 DEF Range
    <3>3. next - 1 = n
      BY <2>1, <3>1 DEF ScanInv
    <3>4. ~(log.raised > 0)
      BY <2>2
    <3> QED BY <2>4, <3>2, <3>3, <3>4 DEF UnreportedInv
  <2>5. ASSUME NEW h \in Heaps, NEW s \in Subs(h)
        PROVE  Clean(s)
    <3>1. HeapsLaid(ranges) /\ ranges = HeapRecords
      BY <2>1, RangesLaid, AllScanned
    <3>2. PICK n \in Nat : n = Len(ranges) /\ DOMAIN ranges = 1..n
      BY <3>1 DEF HeapsLaid
    <3>3. PICK i \in 1..n : h = ranges[i]
      BY <2>5, <3>1, <3>2 DEF Heaps, Range
    <3>4. merged = n
      BY <2>1, <3>2 DEF OrderInv
    <3>5. ~Reported(s)
      <4>1. ~(out.log.raised > 0)
        BY <2>1, <2>2 DEF UnreportedInv
      <4> QED BY <2>5, <3>3, <3>4, <4>1 DEF UnreportedInv
    <3>6. Formed(h)
      BY <3>1, <3>2, <3>3 DEF HeapsLaid
    <3> QED BY <2>5, <3>5, <3>6 DEF Formed
  <2> QED BY <2>3, <2>4, <2>5 DEF Whole, Clean
<1> QED BY <1>1, <1>2, <1>3, <1>4, FirstPassOrder, PTL DEF Spec

-----------------------------------------------------------------------------
(* The cycles of the class hierarchy                                       *)

\* More places than values: two places have the same.
LEMMA TwoAlike ==
    ASSUME NEW D, IsFiniteSet(D), NEW n \in Nat, n = Cardinality(D),
           NEW f, \A i \in 0..n : f[i] \in D
    PROVE  \E i \in 0..n : \E j \in (i + 1)..n : f[i] = f[j]
<1> DEFINE g == [i \in 0..n |-> f[i]]
<1>1. g \in [0..n -> D]
  OBVIOUS
<1>2. IsFiniteSet(0..n) /\ Cardinality(0..n) = n + 1
  BY FS_Interval
<1>3. PICK i \in 0..n, j \in 0..n : i # j /\ g[i] = g[j]
  <2> HIDE DEF g
  <2> QED BY <1>1, <1>2, FS_PigeonHole
<1>4. i < j \/ j < i
  BY <1>3
<1> QED BY <1>3, <1>4

\* The hierarchy that class dumps d tell of, and what is on a cycle of it: what is in
\* every set of classes that holds its super-class and goes up to the root.
SuperIn(d, c) == IF c \in DOMAIN d THEN d[c].super ELSE NoClass
GoesUp(d, T)  == \A x \in T : x # NoClass => SuperIn(d, x) \in T
OnCycle(d, c) == /\ c # NoClass
                 /\ \A T : GoesUp(d, T) /\ SuperIn(d, c) \in T => c \in T

\* A class without a dump is on no cycle.
LEMMA CycleHasDumps ==
    ASSUME NEW d, NEW c, OnCycle(d, c)
    PROVE  c \in DOMAIN d
<1> SUFFICES ASSUME c \notin DOMAIN d PROVE FALSE
  OBVIOUS
<1>1. PICK T : T = {NoClass}
  OBVIOUS
<1>2. GoesUp(d, T) /\ SuperIn(d, c) \in T
  BY <1>1 DEF GoesUp, SuperIn
<1>3. c \in T /\ c # NoClass
  BY <1>2 DEF OnCycle
<1> QED BY <1>1, <1>3

\* What Ancestors goes through.
Climbs(d, c, n, a) ==
    /\ a[0] = c
    /\ \A i \in 1..n : a[i] = IF a[i - 1] = NoClass THEN NoClass ELSE SuperIn(d, a[i - 1])

LEMMA AncestorsAre ==
    ASSUME NEW c, NEW d, d = index.class_dumps, IsFiniteSet(DOMAIN d),
           NEW n, n = Cardinality(DOMAIN d)
    PROVE  n \in Nat /\ \E a : Climbs(d, c, n, a) /\ Ancestors(c) = {a[i] : i \in 1..n}
<1> DEFINE V == DOMAIN d \cup {SuperIn(d, x) : x \in DOMAIN d} \cup {c, NoClass}
           Up(x) == IF x = NoClass THEN NoClass ELSE SuperIn(d, x)
           G(v) == [i \in 0..n |-> IF i = 0 THEN c ELSE Up(v[i - 1])]
           g == CHOOSE v : v = G(v)
           step == [i \in 1..n |-> [x \in V |-> Up(x)]]
<1>1. n \in Nat
  BY FS_CardinalityType
<1>2. \A x : Super(x) = SuperIn(d, x)
  BY DEF Super, SuperIn
<1>3. Ancestors(c) = {g[i] : i \in 1..n}
  BY <1>2 DEF Ancestors
<1>4. c \in V /\ \A x \in V : Up(x) \in V
  BY DEF SuperIn
<1> HIDE DEF V, Up
<1>5. step \in [1..n -> [V -> V]]
  BY <1>4
<1>6. PICK v \in [0..n -> V] : Follows(v, n, c, step)
  <2> HIDE DEF step
  <2> QED BY <1>1, <1>4, <1>5, StepsExist
<1>7. v = G(v)
  <2>1. ASSUME NEW i \in 0..n
        PROVE  v[i] = IF i = 0 THEN c ELSE Up(v[i - 1])
    <3>1. CASE i = 0
      BY <1>6, <3>1 DEF Follows
    <3>2. CASE i # 0
      <4>1. i \in 1..n /\ i - 1 \in 0..n
        BY <1>1, <3>2
      <4> QED BY <1>6, <3>2, <4>1 DEF Follows
    <3> QED BY <3>1, <3>2
  <2> HIDE DEF step
  <2> QED BY <1>6, <2>1
<1>8. g = G(g)
  <2>1. \E x : x = G(x)
    BY <1>7
  <2> HIDE DEF G
  <2> QED BY <2>1
<1>9. Climbs(d, c, n, g)
  <2>1. \A i \in 0..n : g[i] = IF i = 0 THEN c ELSE Up(g[i - 1])
    <3> HIDE DEF g
    <3> QED BY <1>8
  <2> HIDE DEF g
  <2>2. 0 \in 0..n /\ \A i \in 1..n : i \in 0..n /\ i # 0
    BY <1>1
  <2> QED BY <2>1, <2>2 DEF Climbs, Up
<1> HIDE DEF g
<1> QED BY <1>1, <1>3, <1>9

\* A class is on a cycle if it is its own ancestor, and only then.
LEMMA OwnAncestor ==
    ASSUME NEW c, NEW d, d = index.class_dumps, IsFiniteSet(DOMAIN d), c \in DOMAIN d,
           c # NoClass
    PROVE  OnCycle(d, c) <=> c \in Ancestors(c)
<1>1. PICK n : n = Cardinality(DOMAIN d)
  OBVIOUS
<1>2. n \in Nat /\ \E a : Climbs(d, c, n, a) /\ Ancestors(c) = {a[i] : i \in 1..n}
  BY <1>1, AncestorsAre
<1>3. PICK a : Climbs(d, c, n, a) /\ Ancestors(c) = {a[i] : i \in 1..n}
  BY <1>2
<1>4. \A i \in 0..(n - 1) : /\ i + 1 \in 1..n /\ (i + 1) - 1 = i
                            /\ a[i + 1] = IF a[i] = NoClass THEN NoClass ELSE SuperIn(d, a[i])
  BY <1>2, <1>3 DEF Climbs
<1>5. ASSUME c \in Ancestors(c)
      PROVE  OnCycle(d, c)
  <2> SUFFICES ASSUME NEW T, GoesUp(d, T), SuperIn(d, c) \in T PROVE c \in T
    BY DEF OnCycle
  <2>1. PICK m \in 1..n : c = a[m]
    BY <1>3, <1>5
  <2> DEFINE E == {i \in 0..n : i = 0 \/ a[i] \in T \cup {NoClass}}
  <2>2. \A i \in 0..(n - 1) : i \in E => i + 1 \in E
    <3> SUFFICES ASSUME NEW i \in 0..(n - 1), i = 0 \/ a[i] \in T \cup {NoClass}
                 PROVE  a[i + 1] \in T \cup {NoClass} /\ i + 1 \in 0..n
      OBVIOUS
    <3>1. CASE i = 0
      BY <1>3, <1>4, <3>1 DEF Climbs
    <3>2. CASE i # 0
      BY <1>4, <3>2 DEF GoesUp
    <3> QED BY <3>1, <3>2
  <2>3. 0..n \subseteq E
    <3>1. 0 \in E
      BY <1>2
    <3> HIDE DEF E
    <3> QED BY <1>2, <2>2, <3>1, StepInduction
  <2>4. m \in E
    BY <1>2, <2>3
  <2> QED BY <2>1, <2>4
<1>6. ASSUME OnCycle(d, c), c \notin Ancestors(c)
      PROVE  FALSE
  <2>1. PICK T : T = {a[i] : i \in 1..n} \cup {NoClass}
    OBVIOUS
  <2>2. c \notin T
    BY <1>3, <1>6, <2>1
  <2>3. SuperIn(d, c) \in T
    <3>1. n # 0
      BY <1>1, FS_EmptySet
    <3>2. 0 \in 0..(n - 1)
      BY <1>2, <3>1
    <3>3. a[0 + 1] = SuperIn(d, c) /\ 0 + 1 \in 1..n
      BY <1>3, <1>4, <3>2 DEF Climbs
    <3> QED BY <2>1, <3>3
  <2>4. ASSUME NEW x \in T, x # NoClass
        PROVE  SuperIn(d, x) \in T
    <3>1. PICK m \in 1..n : x = a[m]
      BY <2>1, <2>4
    <3>2. CASE m # n
      <4>1. m \in 0..(n - 1)
        BY <1>2, <3>2
      <4>2. a[m + 1] = SuperIn(d, x) /\ m + 1 \in 1..n
        BY <1>4, <2>4, <3>1, <4>1
      <4> QED BY <2>1, <4>2
    <3>3. CASE x \notin DOMAIN d
      BY <2>1, <3>3 DEF SuperIn
    <3>4. CASE m = n /\ x \in DOMAIN d
      <4> DEFINE E == {k \in 0..n : a[n - k] # NoClass /\ a[n - k] \in DOMAIN d}
      <4>1. 0 \in E
        BY <1>2, <2>4, <3>1, <3>4
      <4>2. \A k \in 0..(n - 1) : k \in E => k + 1 \in E
        <5> SUFFICES ASSUME NEW k \in 0..(n - 1), a[n - k] # NoClass
                     PROVE  /\ k + 1 \in 0..n
                            /\ a[n - (k + 1)] # NoClass /\ a[n - (k + 1)] \in DOMAIN d
          OBVIOUS
        <5>1. PICK i : i = n - (k + 1) /\ i \in 0..(n - 1) /\ i + 1 = n - k
          BY <1>2
        <5>2. a[i + 1] = IF a[i] = NoClass THEN NoClass ELSE SuperIn(d, a[i])
          BY <1>4, <5>1
        <5> QED BY <1>2, <5>1, <5>2 DEF SuperIn
      <4>3. \A i \in 0..n : a[i] # NoClass /\ a[i] \in DOMAIN d
        <5>1. 0..n \subseteq E
          <6> HIDE DEF E
          <6> QED BY <1>2, <4>1, <4>2, StepInduction
        <5> TAKE i \in 0..n
        <5>2. n - i \in 0..n /\ n - (n - i) = i
          BY <1>2
        <5> QED BY <5>1, <5>2
      <4>4. PICK i \in 0..n : \E j \in (i + 1)..n : a[i] = a[j]
        BY <1>1, <1>2, <4>3, TwoAlike
      <4>5. PICK j \in (i + 1)..n : a[i] = a[j]
        BY <4>4
      <4>6. i # 0
        <5>1. i = 0 => a[j] = c /\ j \in 1..n
          BY <1>2, <1>3, <4>5 DEF Climbs
        <5> QED BY <1>3, <1>6, <5>1
      <4> DEFINE F == {k \in 0..(n - j) : a[i + k] = a[j + k]}
      <4>7. 0 \in F /\ n - j \in Nat
        BY <1>2, <4>5
      <4>8. \A k \in 0..((n - j) - 1) : k \in F => k + 1 \in F
        <5> SUFFICES ASSUME NEW k \in 0..((n - j) - 1), a[i + k] = a[j + k]
                     PROVE  k + 1 \in 0..(n - j) /\ a[i + (k + 1)] = a[j + (k + 1)]
          OBVIOUS
        <5>1. PICK p, q : /\ p = i + k /\ q = j + k /\ p \in 0..(n - 1) /\ q \in 0..(n - 1)
                          /\ i + (k + 1) = p + 1 /\ j + (k + 1) = q + 1
                          /\ k + 1 \in 0..(n - j)
          BY <1>2
        <5>2. a[p + 1] = a[q + 1]
          BY <1>4, <5>1
        <5> QED BY <5>1, <5>2
      <4>9. PICK k : k = n - j /\ k \in 0..(n - j)
        BY <1>2, <4>7
      <4>10. a[i + k] = a[j + k]
        <5>1. 0..(n - j) \subseteq F
          <6> HIDE DEF F
          <6> QED BY <4>7, <4>8, StepInduction
        <5> QED BY <4>9, <5>1
      <4>11. /\ j + k = n /\ i + k \in 0..(n - 1) /\ (i + k) + 1 \in 1..n
        BY <1>2, <4>5, <4>6, <4>9
      <4>12. a[(i + k) + 1] = SuperIn(d, x)
        BY <1>4, <2>4, <3>1, <3>4, <4>10, <4>11
      <4> QED BY <2>1, <4>11, <4>12
    <3> QED BY <3>2, <3>3, <3>4
  <2> QED BY <1>6, <2>2, <2>3, <2>4 DEF OnCycle, GoesUp
<1> QED BY <1>5, <1>6

\* A walk up from a class: over classes no walk has passed, each once.
Stuck(d, v, s) == SuperIn(d, s[Len(s)]) \in v \cup {NoClass} \cup Range(s)
WalksUp(d, v, start, s) ==
    /\ IsSeq(s) /\ Len(s) >= 1 /\ s[1] = start
    /\ \A i \in 1..Len(s) :
         /\ s[i] \notin v
         /\ i < Len(s) => s[i + 1] = SuperIn(d, s[i]) /\ s[i + 1] # NoClass
         /\ \A j \in 1..Len(s) : i < j => s[i] # s[j]

\* One class more.
LEMMA WalkOn ==
    ASSUME NEW d, NEW v, NEW start, NEW s, WalksUp(d, v, start, s), ~Stuck(d, v, s)
    PROVE  LET t == Append(s, SuperIn(d, s[Len(s)]))
           IN  WalksUp(d, v, start, t) /\ Len(t) = Len(s) + 1
<1>1. PICK n \in Nat : n = Len(s) /\ n >= 1 /\ DOMAIN s = 1..n
  BY DEF WalksUp, IsSeq
<1>2. PICK x : x = SuperIn(d, s[n])
  OBVIOUS
<1>3. PICK t : t = Append(s, x)
  OBVIOUS
<1>4. /\ Len(t) = n + 1 /\ t[n + 1] = x /\ \A i \in 1..n : t[i] = s[i]
  BY <1>1, <1>3 DEF WalksUp, IsSeq
<1>5. IsSeq(t)
  BY <1>3, IsSeqAppend DEF WalksUp
<1>6. x \notin v /\ x # NoClass /\ \A i \in 1..n : s[i] # x
  BY <1>1, <1>2 DEF Stuck, Range
<1>7. /\ s[1] = start
      /\ \A i \in 1..n :
           /\ s[i] \notin v
           /\ i < n => s[i + 1] = SuperIn(d, s[i]) /\ s[i + 1] # NoClass
           /\ \A j \in 1..n : i < j => s[i] # s[j]
  BY <1>1 DEF WalksUp
<1>8. ASSUME NEW i \in 1..(n + 1)
      PROVE  /\ t[i] \notin v
             /\ i < n + 1 => t[i + 1] = SuperIn(d, t[i]) /\ t[i + 1] # NoClass
             /\ \A j \in 1..(n + 1) : i < j => t[i] # t[j]
  <2>1. CASE i = n + 1
    BY <1>1, <1>4, <1>6, <2>1
  <2>2. CASE i \in 1..n
    <3>1. t[i] = s[i] /\ t[i] \notin v
      BY <1>4, <1>7, <2>2
    <3>2. t[i + 1] = SuperIn(d, t[i]) /\ t[i + 1] # NoClass
      <4>1. CASE i = n
        BY <1>2, <1>4, <1>6, <3>1, <4>1
      <4>2. CASE i < n
        <5>1. i + 1 \in 1..n
          BY <2>2, <4>2
        <5> QED BY <1>4, <1>7, <2>2, <3>1, <4>2, <5>1
      <4> QED BY <2>2, <4>1, <4>2
    <3>3. ASSUME NEW j \in 1..(n + 1), i < j
          PROVE  t[i] # t[j]
      <4>1. CASE j = n + 1
        BY <1>4, <1>6, <2>2, <3>1, <4>1
      <4>2. CASE j \in 1..n
        BY <1>4, <1>7, <2>2, <3>1, <3>3, <4>2
      <4> QED BY <4>1, <4>2
    <3> QED BY <3>1, <3>2, <3>3
  <2> QED BY <2>1, <2>2
<1>9. t[1] = start /\ n + 1 >= 1
  BY <1>1, <1>4, <1>7
<1>10. WalksUp(d, v, start, t)
  BY <1>4, <1>5, <1>8, <1>9 DEF WalksUp
<1> QED BY <1>1, <1>2, <1>3, <1>4, <1>10

\* The walk of the cycle check from a class, as far as it goes.
LEMMA PathIs ==
    ASSUME NEW d, d = index.class_dumps, IsFiniteSet(DOMAIN d),
           NEW c \in DOMAIN d, c \notin visited
    PROVE  WalksUp(d, visited, c, Path(c)) /\ Stuck(d, visited, Path(c))
<1> DEFINE Good(s) == WalksUp(d, visited, c, s)
           On(s) == IF Stuck(d, visited, s) THEN s ELSE Append(s, SuperIn(d, s[Len(s)]))
           W == DOMAIN d \cup {SuperIn(d, x) : x \in DOMAIN d} \cup {NoClass}
           V == Seq(W)
           b == <<c>>
<1>1. PICK n \in Nat : n = Cardinality(DOMAIN d)
  BY FS_CardinalityType
<1> DEFINE Raw(s) == LET x == Super(Last(s))
                     IN  IF x = NoClass \/ x \in visited \/ x \in Range(s) THEN s
                         ELSE Append(s, x)
           G(v) == [i \in 0..n |-> IF i = 0 THEN b ELSE Raw(v[i - 1])]
           g == CHOOSE v : v = G(v)
           step == [i \in 1..n |-> [s \in V |-> Raw(s)]]
<1>2. Path(c) = g[n]
  BY <1>1 DEF Path
<1>3. ASSUME NEW s
      PROVE  Raw(s) = On(s)
  <2>1. Last(s) = s[Len(s)] /\ \A x : Super(x) = SuperIn(d, x)
    BY DEF Last, Super, SuperIn
  <2>2. Stuck(d, visited, s) <=> \/ Super(Last(s)) = NoClass \/ Super(Last(s)) \in visited
                                 \/ Super(Last(s)) \in Range(s)
    BY <2>1 DEF Stuck
  <2> QED BY <2>1, <2>2
<1>4. b \in V
  OBVIOUS
<1>5. \A s \in V : Raw(s) \in V
  <2> SUFFICES ASSUME NEW s \in Seq(W) PROVE On(s) \in Seq(W)
    BY <1>3
  <2>1. SuperIn(d, s[Len(s)]) \in W
    BY DEF SuperIn
  <2> HIDE DEF W
  <2>2. Append(s, SuperIn(d, s[Len(s)])) \in Seq(W)
    BY <2>1
  <2> QED BY <2>2
<1> HIDE DEF V, Raw, b
<1>6. step \in [1..n -> [V -> V]]
  BY <1>5
<1>7. PICK v \in [0..n -> V] : Follows(v, n, b, step)
  <2> HIDE DEF step
  <2> QED BY <1>4, <1>6, StepsExist
<1>8. v = G(v)
  <2>1. ASSUME NEW i \in 0..n
        PROVE  v[i] = IF i = 0 THEN b ELSE Raw(v[i - 1])
    <3>1. CASE i = 0
      BY <1>7, <3>1 DEF Follows
    <3>2. CASE i # 0
      <4>1. i \in 1..n /\ i - 1 \in 0..n
        BY <3>2
      <4> QED BY <1>7, <3>2, <4>1 DEF Follows
    <3> QED BY <3>1, <3>2
  <2> HIDE DEF step
  <2> QED BY <1>7, <2>1
<1>9. g = G(g)
  <2>1. \E x : x = G(x)
    BY <1>8
  <2> HIDE DEF G
  <2> QED BY <2>1
<1>10. g[0] = b /\ \A i \in 1..n : g[i] = On(g[i - 1])
  <2>1. \A i \in 0..n : g[i] = IF i = 0 THEN b ELSE Raw(g[i - 1])
    <3> HIDE DEF g
    <3> QED BY <1>9
  <2> HIDE DEF g, On
  <2>2. 0 \in 0..n /\ \A i \in 1..n : i \in 0..n /\ i # 0
    OBVIOUS
  <2> QED BY <1>3, <2>1, <2>2
<1> HIDE DEF g
<1>11. Good(b) /\ Len(b) = 1
  BY DEF b, WalksUp, IsSeq, Range
<1> DEFINE E == {k \in 0..n : /\ Good(g[k])
                              /\ Len(g[k]) = k + 1 \/ Stuck(d, visited, g[k])}
<1>12. 0 \in E
  BY <1>10, <1>11
<1>13. \A k \in 0..(n - 1) : k \in E => k + 1 \in E
  <2> SUFFICES ASSUME NEW k \in 0..(n - 1), Good(g[k]),
                      Len(g[k]) = k + 1 \/ Stuck(d, visited, g[k])
               PROVE  k + 1 \in E
    OBVIOUS
  <2>1. PICK j : j = k + 1 /\ j \in 1..n /\ j \in 0..n /\ j - 1 = k
    OBVIOUS
  <2>2. g[j] = On(g[k])
    BY <1>10, <2>1
  <2>3. CASE Stuck(d, visited, g[k])
    <3>1. g[j] = g[k]
      BY <2>2, <2>3
    <3> QED BY <2>1, <2>3, <3>1
  <2>4. CASE ~Stuck(d, visited, g[k])
    <3>1. g[j] = Append(g[k], SuperIn(d, g[k][Len(g[k])]))
      BY <2>2, <2>4
    <3>2. Good(g[j]) /\ Len(g[j]) = Len(g[k]) + 1
      BY <2>4, <3>1, WalkOn
    <3>3. Len(g[j]) = j + 1
      BY <2>1, <2>4, <3>2
    <3> QED BY <2>1, <3>2, <3>3
  <2> QED BY <2>3, <2>4
<1>14. n \in E
  <2> HIDE DEF E
  <2>1. 0..n \subseteq E
    BY <1>12, <1>13, StepInduction
  <2> QED BY <2>1
<1>15. PICK s : s = g[n]
  OBVIOUS
<1>16. WalksUp(d, visited, c, s) /\ (Len(s) = n + 1 \/ Stuck(d, visited, s))
  BY <1>14, <1>15
<1>17. Stuck(d, visited, s)
  <2> SUFFICES ASSUME Len(s) = n + 1, ~Stuck(d, visited, s) PROVE FALSE
    BY <1>16
  <2> DEFINE f == [i \in 0..n |-> s[i + 1]]
  <2>1. \A i \in 0..n : f[i] \in DOMAIN d
    <3> TAKE i \in 0..n
    <3>1. CASE i = n
      <4>1. SuperIn(d, s[n + 1]) # NoClass
        BY DEF Stuck
      <4> QED BY <3>1, <4>1 DEF SuperIn
    <3>2. CASE i < n
      <4>1. i + 1 \in 1..Len(s) /\ i + 1 < Len(s)
        BY <3>2
      <4>2. SuperIn(d, s[i + 1]) # NoClass
        BY <1>16, <4>1 DEF WalksUp
      <4> QED BY <4>2 DEF SuperIn
    <3> QED BY <3>1, <3>2
  <2>2. \A i \in 0..n : \A j \in (i + 1)..n : f[i] # f[j]
    <3> TAKE i \in 0..n
    <3> TAKE j \in (i + 1)..n
    <3>1. /\ i + 1 \in 1..Len(s) /\ j + 1 \in 1..Len(s) /\ i + 1 < j + 1
          /\ f[i] = s[i + 1] /\ f[j] = s[j + 1]
      OBVIOUS
    <3> HIDE DEF f
    <3> QED BY <1>16, <3>1 DEF WalksUp
  <2> HIDE DEF f
  <2> QED BY <1>1, <2>1, <2>2, TwoAlike
<1> QED BY <1>2, <1>15, <1>16, <1>17

\* Where the walk came to an end: at its first class again, at a class of an earlier
\* walk or above the root.  On a cycle are the classes from the one it came back to.
LEMMA WalkEnds ==
    ASSUME NEW d, NEW v, \A x \in v : SuperIn(d, x) \in v \cup {NoClass},
           NEW start, NEW p, WalksUp(d, v, start, p), Stuck(d, v, p),
           NEW stop, stop = SuperIn(d, p[Len(p)])
    PROVE  /\ \A x \in v \cup Range(p) : SuperIn(d, x) \in v \cup Range(p) \cup {NoClass}
           /\ InLoop(p, stop) = {x \in Range(p) : OnCycle(d, x)}
<1>1. PICK n \in Nat : n = Len(p) /\ n >= 1 /\ DOMAIN p = 1..n
  BY DEF WalksUp, IsSeq
<1>2. /\ \A i \in 1..n : p[i] \notin v
      /\ \A i \in 1..(n - 1) : p[i + 1] = SuperIn(d, p[i]) /\ p[i + 1] # NoClass
      /\ \A i \in 1..n : \A j \in (i + 1)..n : p[i] # p[j]
  <2>1. \A i \in 1..(n - 1) : i \in 1..n /\ i < n
    OBVIOUS
  <2>2. \A i \in 1..n : \A j \in (i + 1)..n : j \in 1..n /\ i < j
    OBVIOUS
  <2> QED BY <1>1, <2>1, <2>2 DEF WalksUp
<1>3. stop = SuperIn(d, p[n]) /\ stop \in v \cup {NoClass} \cup {p[i] : i \in 1..n}
  BY <1>1 DEF Stuck, Range
<1>4. Range(p) = {p[i] : i \in 1..n}
  BY <1>1 DEF Range
<1>5. ASSUME NEW i \in 1..n
      PROVE  SuperIn(d, p[i]) = IF i = n THEN stop ELSE p[i + 1]
  BY <1>2, <1>3
<1>6. \A x \in v \cup Range(p) : SuperIn(d, x) \in v \cup Range(p) \cup {NoClass}
  BY <1>3, <1>4, <1>5
<1>7. ASSUME NEW j \in 1..n, stop # NoClass, NEW k \in 1..j, p[k] = stop
      PROVE  OnCycle(d, p[j])
  <2>1. \A i \in k..n : p[i] # NoClass
    <3> TAKE i \in k..n
    <3>1. CASE i = k
      BY <1>7, <3>1
    <3>2. CASE i # k
      <4>1. i - 1 \in 1..(n - 1) /\ (i - 1) + 1 = i
        BY <3>2
      <4> QED BY <1>2, <4>1
    <3> QED BY <3>1, <3>2
  <2>2. p[j] # NoClass
    BY <2>1
  <2> SUFFICES ASSUME NEW T, GoesUp(d, T), SuperIn(d, p[j]) \in T PROVE p[j] \in T
    BY <2>2 DEF OnCycle
  <2> DEFINE E == {m \in 0..(n - j) : SuperIn(d, p[j + m]) \in T}
  <2>3. n - j \in Nat /\ 0 \in E
    BY <1>1
  <2>4. \A m \in 0..((n - j) - 1) : m \in E => m + 1 \in E
    <3> SUFFICES ASSUME NEW m \in 0..((n - j) - 1), SuperIn(d, p[j + m]) \in T
                 PROVE  SuperIn(d, p[j + (m + 1)]) \in T /\ m + 1 \in 0..(n - j)
      OBVIOUS
    <3>1. PICK i : i = j + m /\ i \in 1..(n - 1) /\ j + (m + 1) = i + 1 /\ i + 1 \in k..n
                   /\ m + 1 \in 0..(n - j)
      BY <1>1
    <3>2. p[i + 1] \in T /\ p[i + 1] # NoClass
      BY <1>2, <2>1, <3>1
    <3> QED BY <3>1, <3>2 DEF GoesUp
  <2>5. stop \in T
    <3>1. 0..(n - j) \subseteq E
      <4> HIDE DEF E
      <4> QED BY <2>3, <2>4, StepInduction
    <3>2. n - j \in 0..(n - j) /\ j + (n - j) = n
      BY <1>1, <2>3
    <3>3. n - j \in E
      BY <3>1, <3>2
    <3> QED BY <1>3, <3>2, <3>3
  <2> DEFINE F == {m \in 0..(j - k) : p[k + m] \in T}
  <2>6. j - k \in Nat /\ 0 \in F
    BY <1>7, <2>5
  <2>7. \A m \in 0..((j - k) - 1) : m \in F => m + 1 \in F
    <3> SUFFICES ASSUME NEW m \in 0..((j - k) - 1), p[k + m] \in T
                 PROVE  p[k + (m + 1)] \in T /\ m + 1 \in 0..(j - k)
      OBVIOUS
    <3>1. PICK i : i = k + m /\ i \in 1..(n - 1) /\ i \in k..n /\ k + (m + 1) = i + 1
                   /\ m + 1 \in 0..(j - k)
      BY <1>1
    <3>2. SuperIn(d, p[i]) \in T
      BY <2>1, <3>1 DEF GoesUp
    <3> QED BY <1>2, <3>1, <3>2
  <2>8. 0..(j - k) \subseteq F
    <3> HIDE DEF F
    <3> QED BY <2>6, <2>7, StepInduction
  <2>9. j - k \in F /\ k + (j - k) = j
    BY <2>6, <2>8
  <2> QED BY <2>9
<1>8. ASSUME NEW j \in 1..n, OnCycle(d, p[j])
      PROVE  stop # NoClass /\ \E k \in 1..j : p[k] = stop
  <2> SUFFICES ASSUME stop = NoClass \/ \A k \in 1..j : p[k] # stop PROVE FALSE
    OBVIOUS
  <2>1. PICK T : T = v \cup {NoClass} \cup {p[i] : i \in (j + 1)..n}
    OBVIOUS
  <2>2. stop \in T
    <3> SUFFICES ASSUME NEW i \in 1..n, stop = p[i], stop # NoClass PROVE stop \in T
      BY <1>3, <2>1
    <3>1. i \notin 1..j
      OBVIOUS
    <3>2. i \in (j + 1)..n
      BY <3>1
    <3> QED BY <2>1, <3>2
  <2>3. ASSUME NEW i \in j..n
        PROVE  SuperIn(d, p[i]) \in T
    <3>1. CASE i = n
      BY <1>3, <2>2, <3>1
    <3>2. CASE i # n
      <4>1. i \in 1..(n - 1) /\ i + 1 \in (j + 1)..n
        BY <3>2
      <4> QED BY <1>2, <2>1, <4>1
    <3> QED BY <3>1, <3>2
  <2>4. j \in j..n /\ \A i \in (j + 1)..n : i \in j..n
    OBVIOUS
  <2>5. GoesUp(d, T)
    <3> SUFFICES ASSUME NEW x \in T, x # NoClass PROVE SuperIn(d, x) \in T
      BY DEF GoesUp
    <3>1. CASE x \in v
      BY <2>1, <3>1
    <3>2. CASE x \in {p[i] : i \in (j + 1)..n}
      BY <2>3, <2>4, <3>2
    <3> QED BY <2>1, <3>1, <3>2
  <2>6. p[j] \in T /\ p[j] # NoClass
    BY <1>8, <2>3, <2>4, <2>5 DEF OnCycle
  <2> QED BY <1>2, <2>1, <2>6
<1>9. InLoop(p, stop) = {x \in Range(p) : OnCycle(d, x)}
  <2>1. ASSUME NEW j \in 1..n
        PROVE  (stop # NoClass /\ \E k \in 1..j : p[k] = stop) <=> OnCycle(d, p[j])
    BY <1>7, <1>8
  <2> QED BY <1>1, <1>4, <2>1 DEF InLoop
<1> QED BY <1>6, <1>9


\* While the classes are checked: a walk ended where it found nothing new, so that the
\* classes passed lead up to classes passed, and those on a cycle have been told from
\* the others.
CyclesInv ==
    /\ "class_dumps" \in DOMAIN index
    /\ phase \notin {"validate", "open"} => visited = {} /\ inCycle = {}
    /\ phase \in {"validate", "open"} =>
         LET d == index.class_dumps
         IN  /\ IsFiniteSet(DOMAIN d)
             /\ \A x \in visited : SuperIn(d, x) \in visited \cup {NoClass}
             /\ inCycle = {x \in visited : OnCycle(d, x)}
             /\ unchecked \subseteq DOMAIN d /\ DOMAIN d \subseteq visited \cup unchecked
    /\ phase = "open" => unchecked = {}

\* One class checked.
LEMMA CheckedRight ==
    ASSUME CyclesInv, CheckClass
    PROVE  CyclesInv'
<1>1. phase = "validate" /\ phase' = phase /\ index' = index
  BY DEF CheckClass
<1>2. PICK d : d = index.class_dumps
  OBVIOUS
<1>3. /\ IsFiniteSet(DOMAIN d)
      /\ \A x \in visited : SuperIn(d, x) \in visited \cup {NoClass}
      /\ inCycle = {x \in visited : OnCycle(d, x)}
      /\ unchecked \subseteq DOMAIN d /\ DOMAIN d \subseteq visited \cup unchecked
  BY <1>1, <1>2 DEF CyclesInv
<1>4. PICK c \in unchecked :
        /\ unchecked' = unchecked \ {c}
        /\ IF c \in visited THEN UNCHANGED <<visited, inCycle>>
           ELSE LET path == Path(c)
                IN  /\ visited' = visited \cup Range(path)
                    /\ inCycle' = inCycle \cup InLoop(path, Super(Last(path)))
  BY DEF CheckClass
<1>5. /\ c \in visited'
      /\ visited \subseteq visited'
      /\ \A x \in visited' : SuperIn(d, x) \in visited' \cup {NoClass}
      /\ inCycle' = {x \in visited' : OnCycle(d, x)}
  <2>1. CASE c \in visited
    BY <1>3, <1>4, <2>1
  <2>2. CASE c \notin visited
    <3>1. PICK p, stop : p = Path(c) /\ stop = SuperIn(d, p[Len(p)])
      OBVIOUS
    <3>2. c \in DOMAIN d
      BY <1>3, <1>4
    <3>3. WalksUp(d, visited, c, p) /\ Stuck(d, visited, p)
      BY <1>2, <1>3, <2>2, <3>1, <3>2, PathIs
    <3>4. /\ \A x \in visited \cup Range(p) :
               SuperIn(d, x) \in visited \cup Range(p) \cup {NoClass}
          /\ InLoop(p, stop) = {x \in Range(p) : OnCycle(d, x)}
      BY <1>3, <3>1, <3>3, WalkEnds
    <3>5. Super(Last(p)) = stop
      BY <1>2, <3>1 DEF Super, SuperIn, Last
    <3>6. visited' = visited \cup Range(p) /\ inCycle' = inCycle \cup InLoop(p, stop)
      BY <1>4, <2>2, <3>1, <3>5
    <3>7. c \in Range(p)
      <4>1. p[1] = c /\ 1 \in DOMAIN p
        BY <3>3 DEF WalksUp, IsSeq
      <4> QED BY <4>1 DEF Range
    <3> QED BY <1>3, <3>4, <3>6, <3>7
  <2> QED BY <2>1, <2>2
<1>6. unchecked' \subseteq DOMAIN d /\ DOMAIN d \subseteq visited' \cup unchecked'
  BY <1>3, <1>4, <1>5
<1> QED BY <1>1, <1>2, <1>3, <1>5, <1>6 DEF CyclesInv

\* Nothing to check before the rounds are over, the same classes ever after.
LEMMA CyclesStep ==
    LogsInv /\ LogsInv' /\ CyclesInv /\ [Next]_engineVars => CyclesInv'
<1> SUFFICES ASSUME LogsInv, LogsInv', CyclesInv, [Next]_engineVars
             PROVE  CyclesInv'
  OBVIOUS
<1>1. phase' # "open" => "class_dumps" \in DOMAIN index' /\ IsFiniteSet(DOMAIN index'.class_dumps)
  BY DEF LogsInv, IndexOK, IndexFields, DumpsAre
<1>2. CASE /\ phase \notin {"validate", "open"} /\ phase' \notin {"validate", "open"}
           /\ UNCHANGED <<visited, inCycle>>
  BY <1>1, <1>2 DEF CyclesInv
<1>3. CASE /\ phase \notin {"validate", "open"} /\ phase' = "validate"
           /\ unchecked' = DOMAIN index.class_dumps
           /\ UNCHANGED <<visited, inCycle>>
           /\ index'.class_dumps = index.class_dumps
  BY <1>1, <1>3 DEF CyclesInv
<1>4. CASE /\ phase \in {"validate", "open"} /\ phase' \in {phase, "open"}
           /\ (phase = phase' \/ unchecked = {})
           /\ UNCHANGED <<unchecked, visited, inCycle>>
           /\ index'.class_dumps = index.class_dumps
           /\ "class_dumps" \in DOMAIN index'
  BY <1>4 DEF CyclesInv
<1>5. CASE UNCHANGED <<phase, index, unchecked, visited, inCycle>>
  BY <1>5 DEF CyclesInv
<1>6. ASSUME NEW f, index' = [index EXCEPT !.instance_offsets = f]
      PROVE  index'.class_dumps = index.class_dumps /\ "class_dumps" \in DOMAIN index'
  BY <1>6 DEF CyclesInv
<1>7. CASE NextScan /\ UNCHANGED <<extractVars, resolveVars, threadCache>>
  <2>1. phase = "scan" /\ phase' \in {"scan", "extract"} /\ UNCHANGED <<visited, inCycle>>
    BY <1>7 DEF NextScan, ScanHeap, ScanOther, ScanKnown, ScanEnd, Scanning, Advance,
       resolveVars
  <2> QED BY <1>2, <2>1
<1>8. CASE NextExtraction /\ UNCHANGED <<resolveVars, threadCache>>
  <2>1. phase = "extract" /\ phase' \in {"extract", "assemble"} /\ UNCHANGED <<visited, inCycle>>
    BY <1>8 DEF NextExtraction, ExtractNext, StartBatch, FinishTask, MergeNext,
       EndExtraction, Extracting, resolveVars, scanVars
  <2> QED BY <1>2, <2>1
<1>9. CASE Assemble \/ Correlate
  <2>1. /\ phase \in {"assemble", "correlate"} /\ phase' \in {"correlate", "round0"}
        /\ UNCHANGED <<visited, inCycle>>
    BY <1>9 DEF Assemble, Correlate, resolveVars
  <2> QED BY <1>2, <2>1
<1>10. CASE Round0 \/ Round1 \/ Round2
  <2>1. phase \in {"round0", "round1", "round2"} /\ UNCHANGED <<visited, inCycle>>
    BY <1>10 DEF Round0, Round1, Round2, EndRounds, ToRound
  <2>2. index' = index \/ \E f : index' = [index EXCEPT !.instance_offsets = f]
    BY <1>10 DEF Round0, Round1, Round2, RunBatchRound
  <2>3. EndRounds \/ phase' \in {"round1", "round2"}
    BY <1>10 DEF Round0, Round1, Round2, ToRound
  <2>4. index'.class_dumps = index.class_dumps
    BY <1>6, <2>2
  <2> QED BY <1>2, <1>3, <2>1, <2>3, <2>4 DEF EndRounds
<1>11. CASE FinishPass
  <2>1. /\ phase = "validate" /\ phase' = "open" /\ unchecked = {} /\ index' = index
        /\ UNCHANGED <<unchecked, visited, inCycle>>
    BY <1>11 DEF FinishPass
  <2> QED BY <1>4, <2>1 DEF CyclesInv
<1>12. CASE ResolveThread \/ GetLocals \/ ExpandObject \/ GetStatics \/ ListThreads
  <2>1. phase = "open" /\ phase' = phase /\ UNCHANGED <<unchecked, visited, inCycle>>
    BY <1>12 DEF ResolveThread, GetLocals, ExpandObject, GetStatics, ListThreads, Open,
       resolveVars
  <2>2. index' = index \/ \E ids : index' = Learnt(ids)
    BY <1>12 DEF ResolveThread, GetLocals, ExpandObject, GetStatics, ListThreads
  <2>3. index' = index \/ \E f : index' = [index EXCEPT !.instance_offsets = f]
    BY <2>2 DEF Learnt
  <2>4. index'.class_dumps = index.class_dumps /\ "class_dumps" \in DOMAIN index'
    BY <1>6, <2>3 DEF CyclesInv
  <2> QED BY <1>4, <2>1, <2>4
<1>13. CASE UNCHANGED engineVars
  BY <1>5, <1>13 DEF engineVars, scanVars, resolveVars
<1> QED BY <1>7, <1>8, <1>9, <1>10, <1>11, <1>12, <1>13, CheckedRight DEF Next, NextResolution

\* The cycle check reports the classes that are their own ancestor, all of them and no
\* other, whatever the class dumps say and from whatever class it starts
\* (validation.rs check_super_class_cycles).
THEOREM CyclesCorrect == Spec => []CyclesExact
<1>1. Init => OutInv /\ LogsInv /\ CyclesInv
  <2>1. Init => CyclesInv
    BY DEF Init, InitScan, InitResolution, EmptyIndex, CyclesInv
  <2> QED BY <2>1, OutInit, LogsInit
<1>2. FirstInv /\ OutInv /\ LogsInv /\ CyclesInv /\ [Next]_engineVars
        => OutInv' /\ LogsInv' /\ CyclesInv'
  BY OutStep, LogsStep, CyclesStep DEF FirstInv
<1>3. CyclesInv => CyclesExact
  <2> SUFFICES ASSUME CyclesInv, phase = "open"
               PROVE  inCycle = {c \in DOMAIN index.class_dumps \ {NoClass} : c \in Ancestors(c)}
    BY DEF CyclesExact, Opened
  <2>1. PICK d : d = index.class_dumps
    OBVIOUS
  <2>2. /\ IsFiniteSet(DOMAIN d) /\ DOMAIN d \subseteq visited
        /\ inCycle = {x \in visited : OnCycle(d, x)}
    BY <2>1 DEF CyclesInv
  <2>3. ASSUME NEW c, OnCycle(d, c)
        PROVE  c \in DOMAIN d \ {NoClass}
    BY <2>3, CycleHasDumps DEF OnCycle
  <2>4. ASSUME NEW c \in DOMAIN d \ {NoClass}
        PROVE  OnCycle(d, c) <=> c \in Ancestors(c)
    BY <2>1, <2>2, OwnAncestor
  <2> QED BY <2>1, <2>2, <2>3, <2>4
<1> QED BY <1>1, <1>2, <1>3, FirstPassOrder, PTL DEF Spec
=============================================================================
