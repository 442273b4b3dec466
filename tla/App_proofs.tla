----------------------------- MODULE App_proofs -----------------------------
(***************************************************************************)
(* Theorems about the application loop, for every heap, set of threads,    *)
(* page size and number of favorites.                                      *)
(***************************************************************************)
EXTENDS App, Induction, SequenceTheorems

Walks == INSTANCE LeftFold WITH Op <- WalkStep

-----------------------------------------------------------------------------
(* Paths and rows                                                          *)

SegKinds == {"frame", "var", "field", "static", "entry"}

\* A sequence of anything.
IsSeq(p) == p \in Seq(Range(p))

\* A path leads from a frame through segments of the known kinds.
IsPath(p) ==
    /\ IsSeq(p) /\ p # <<>>
    /\ \A i \in DOMAIN p : p[i][1] \in SegKinds
    /\ p[1] = FrameSeg(p[1][2])

\* The path begins in the stack s.
Within(s, p) == p[1] \in {FrameSeg(f) : f \in Range(s.frames)}

\* A row of the stack s.
IsRow(s, r) ==
    /\ r = Row(r.kind, r.path)
    /\ r.kind # "noframes" => IsPath(r.path) /\ Within(s, r.path)
    /\ r.kind = "noframes" => r.path = <<>>

\* What a path is made of.
LEMMA PathParts ==
    ASSUME NEW p, IsPath(p)
    PROVE  /\ Len(p) \in Nat /\ Len(p) >= 1 /\ DOMAIN p = 1..Len(p)
           /\ \A i \in 1..Len(p) : p[i][1] \in SegKinds
           /\ p[1] = FrameSeg(p[1][2]) /\ p[1][1] = "frame"
<1>1. p \in Seq(Range(p)) /\ p # <<>>
  BY DEF IsPath, IsSeq
<1>2. Len(p) \in Nat /\ DOMAIN p = 1..Len(p)
  BY <1>1
<1>3. Len(p) # 0
  BY <1>1, EmptySeq
<1> QED BY <1>2, <1>3 DEF IsPath, FrameSeg

\* A sequence over any set is one.
LEMMA SeqIsSeq ==
    ASSUME NEW S, NEW p \in Seq(S)
    PROVE  IsSeq(p)
<1>1. Len(p) \in Nat /\ DOMAIN p = 1..Len(p) /\ p = [i \in 1..Len(p) |-> p[i]]
  BY ElementOfSeq, LenProperties
<1>2. \A i \in 1..Len(p) : p[i] \in Range(p)
  BY <1>1 DEF Range
<1> DEFINE R == Range(p)
<1>3. \A i \in 1..Len(p) : p[i] \in R
  BY <1>2
<1> HIDE DEF R
<1>4. p \in Seq(R)
  BY <1>1, <1>3, SeqDef
<1> QED BY <1>4 DEF IsSeq, R

\* One segment more.
LEMMA PathAppend ==
    ASSUME NEW p, IsPath(p), NEW seg, seg[1] \in SegKinds
    PROVE  /\ IsPath(Append(p, seg)) /\ Append(p, seg)[1] = p[1]
           /\ Len(Append(p, seg)) = Len(p) + 1
<1> DEFINE S == Range(p) \union {seg}
           q == Append(p, seg)
<1>1. p \in Seq(S) /\ seg \in S
  <2>1. p \in Seq(Range(p)) /\ Range(p) \subseteq S
    BY DEF IsPath, IsSeq
  <2> HIDE DEF S
  <2>2. p \in Seq(S)
    BY <2>1
  <2> QED BY <2>2 DEF S
<1>2. Len(p) \in Nat /\ Len(p) >= 1 /\ DOMAIN p = 1..Len(p)
  BY PathParts
<1> HIDE DEF S
<1>3. /\ q \in Seq(S) /\ Len(q) = Len(p) + 1
      /\ \A i \in 1..Len(p) : q[i] = p[i]
      /\ q[Len(p) + 1] = seg
  BY <1>1
<1>4. DOMAIN q = 1..(Len(p) + 1)
  BY <1>3
<1>5. IsSeq(q)
  BY <1>3, SeqIsSeq
<1>6. q[1] = p[1]
  BY <1>2, <1>3
<1>7. q # <<>>
  <2>1. Len(<<>>) = 0
    OBVIOUS
  <2> HIDE DEF q
  <2> QED BY <1>2, <1>3, <2>1
<1>8. \A i \in DOMAIN q : q[i][1] \in SegKinds
  <2> HIDE DEF q
  <2> SUFFICES ASSUME NEW i \in 1..(Len(p) + 1)
               PROVE  q[i][1] \in SegKinds
    BY <1>4
  <2>1. CASE i \in 1..Len(p)
    BY <1>3, <2>1, PathParts
  <2>2. CASE i = Len(p) + 1
    BY <1>3, <2>2
  <2> QED BY <1>2, <2>1, <2>2
<1>9. p[1] = FrameSeg(p[1][2])
  BY DEF IsPath
<1> QED
  <2> HIDE DEF q
  <2>1. IsPath(q)
    BY <1>5, <1>6, <1>7, <1>8, <1>9 DEF IsPath
  <2> QED BY <1>3, <1>6, <2>1 DEF q

\* The first segments.
LEMMA PathPrefix ==
    ASSUME NEW p, IsPath(p), NEW n \in 1..Len(p)
    PROVE  IsPath(Prefix(p, n)) /\ Prefix(p, n)[1] = p[1] /\ Len(Prefix(p, n)) = n
<1> DEFINE S == Range(p)
           q == SubSeq(p, 1, n)
<1>1. p \in Seq(S)
  BY DEF IsPath, IsSeq
<1>2. Len(p) \in Nat /\ Len(p) >= 1 /\ DOMAIN p = 1..Len(p)
  BY PathParts
<1> HIDE DEF S
<1>3. /\ q \in Seq(S) /\ Len(q) = n
      /\ \A i \in 1..n : q[i] = p[i]
  BY <1>1, <1>2, SubSeqProperties
<1>4. DOMAIN q = 1..n
  BY <1>3
<1>5. IsSeq(q)
  BY <1>3, SeqIsSeq
<1>6. q[1] = p[1]
  BY <1>2, <1>3
<1> HIDE DEF q
<1>7. q # <<>>
  <2>1. Len(<<>>) = 0
    OBVIOUS
  <2> QED BY <1>2, <1>3, <2>1
<1>8. \A i \in DOMAIN q : q[i][1] \in SegKinds
  BY <1>2, <1>3, <1>4, PathParts
<1>9. IsPath(q)
  BY <1>5, <1>6, <1>7, <1>8 DEF IsPath
<1> QED BY <1>3, <1>6, <1>9 DEF q, Prefix

\* All segments but the last.
LEMMA PathFront ==
    ASSUME NEW p, IsPath(p), Len(p) > 1
    PROVE  IsPath(Front(p)) /\ Front(p)[1] = p[1]
<1>1. Len(p) - 1 \in 1..Len(p)
  BY PathParts
<1>2. Front(p) = Prefix(p, Len(p) - 1)
  BY DEF Front, Prefix
<1> QED BY <1>1, <1>2, PathPrefix

\* A frame alone.
LEMMA FramePath ==
    ASSUME NEW f
    PROVE  IsPath(<<FrameSeg(f)>>)
<1> DEFINE p == <<FrameSeg(f)>>
<1>1. p \in Seq({FrameSeg(f)}) /\ p # <<>> /\ DOMAIN p = 1..1 /\ p[1] = FrameSeg(f)
  OBVIOUS
<1> HIDE DEF p
<1>2. IsSeq(p)
  BY <1>1, SeqIsSeq
<1>3. FrameSeg(f)[1] = "frame" /\ FrameSeg(f)[2] = f
  BY DEF FrameSeg
<1>4. \A i \in DOMAIN p : p[i][1] \in SegKinds
  BY <1>1, <1>3 DEF SegKinds
<1>5. IsPath(p)
  BY <1>1, <1>2, <1>3, <1>4 DEF IsPath
<1> QED BY <1>5 DEF p

-----------------------------------------------------------------------------
(* The stack panel                                                         *)

\* The fields of a stack, and of what is known of a collection.
Has(r, L)   == DOMAIN r = L /\ r = [x \in L |-> r[x]]
StackFields == {"frames", "expanded", "vars", "phases", "fields", "statics",
                "chunks", "sections", "home", "cursor"}
IsStack(s)  == Has(s, StackFields)
IsChunks(r) == Has(r, {"total", "eager", "pages"}) /\ 0 \notin DOMAIN r.pages

StackOK(s) ==
    /\ IsStack(s)
    /\ IsSeq(s.frames)
    /\ IsRow(s, s.cursor)
    /\ \A p \in DOMAIN s.phases : IsPath(p)
    /\ \A c \in DOMAIN s.chunks : IsChunks(s.chunks[c])

\* What the changes of a stack that are not about collections leave alone.
Keeps(s, t) == StackOK(t) /\ t.frames = s.frames /\ t.chunks = s.chunks

\* The rows below the row of p are rows of p or of one segment more.
RowsBelow(p, rows) ==
    \A r \in rows : /\ r = Row(r.kind, r.path) /\ r.kind # "noframes"
                    /\ \/ r.path = p
                       \/ \E seg : seg[1] \in SegKinds /\ r.path = Append(p, seg)

\* What a row is.
LEMMA RowIs ==
    ASSUME NEW k, NEW p
    PROVE  /\ Row(k, p) = Row(Row(k, p).kind, Row(k, p).path)
           /\ Row(k, p).kind = k /\ Row(k, p).path = p
           /\ At(p) = Row("at", p)
BY DEF Row, At

\* Each kind of segment.
LEMMA SegIs ==
    ASSUME NEW x, NEW y
    PROVE  /\ FrameSeg(x)[1] \in SegKinds /\ VarSeg(x)[1] \in SegKinds
           /\ FieldSeg(x)[1] \in SegKinds /\ StaticSeg(x)[1] \in SegKinds
           /\ EntrySeg(x, y)[1] \in SegKinds
BY DEF FrameSeg, VarSeg, FieldSeg, StaticSeg, EntrySeg, SegKinds

\* One row below p.
LEMMA RowBelow ==
    ASSUME NEW p, NEW k, k # "noframes", NEW seg, seg[1] \in SegKinds
    PROVE  RowsBelow(p, {Row(k, p)}) /\ RowsBelow(p, {Row(k, Append(p, seg))})
<1>1. ASSUME NEW q, q = p \/ q = Append(p, seg), NEW r, r = Row(k, q)
      PROVE  /\ r = Row(r.kind, r.path) /\ r.kind # "noframes"
             /\ \/ r.path = p
                \/ \E x : x[1] \in SegKinds /\ r.path = Append(p, x)
  <2>1. r.kind = k /\ r.path = q /\ r = Row(r.kind, r.path)
    BY <1>1, RowIs
  <2> QED BY <1>1, <2>1
<1> QED BY <1>1 DEF RowsBelow

\* The same of At.
LEMMA AtBelow ==
    ASSUME NEW p, NEW seg, seg[1] \in SegKinds
    PROVE  RowsBelow(p, {At(Append(p, seg))})
<1>1. At(Append(p, seg)) = Row("at", Append(p, seg))
  BY DEF At
<1> QED BY <1>1, RowBelow

\* Rows may be put together.
LEMMA RowsTogether ==
    ASSUME NEW p, NEW R, RowsBelow(p, R), NEW T, RowsBelow(p, T)
    PROVE  RowsBelow(p, R \union T)
BY DEF RowsBelow

\* The rows below any row.
LEMMA ChildRowsBelow ==
    ASSUME NEW s, NEW p
    PROVE  RowsBelow(p, ChildRows(s, p))
<1>0. RowsBelow(p, {})
  BY DEF RowsBelow
<1>1. ASSUME NEW cid
      PROVE  RowsBelow(p, CollectionRows(s, p, cid))
  <2> SUFFICES ASSUME NEW r \in CollectionRows(s, p, cid)
               PROVE  RowsBelow(p, {r})
    BY DEF RowsBelow
  <2>1. \/ \E i \in Loaded(s, cid) : r = At(Append(p, EntrySeg(cid, i)))
        \/ \E o \in ChunkOffsets(s.chunks[cid].total) :
              r = Row("chunk", Append(p, EntrySeg(cid, o)))
    BY DEF CollectionRows
  <2>2. \A i : EntrySeg(cid, i)[1] \in SegKinds
    BY SegIs
  <2> QED BY <2>1, <2>2, RowBelow, AtBelow
<1>2. ASSUME NEW o
      PROVE  RowsBelow(p, ObjectRows(s, p, o))
  <2> SUFFICES ASSUME NEW r \in ObjectRows(s, p, o)
               PROVE  RowsBelow(p, {r})
    BY DEF RowsBelow
  <2>1. \/ r = Row("loading", p)
        \/ r \in StaticRows(s, p, o)
        \/ r \in FieldRows(p, o)
    BY DEF ObjectRows
  <2>2. CASE r = Row("loading", p)
    <3>1. FieldSeg(1)[1] \in SegKinds
      BY SegIs
    <3> QED BY <2>2, <3>1, RowBelow
  <2>3. CASE r \in StaticRows(s, p, o)
    <3>1. \/ r = Row("section", p)
          \/ \E i \in DOMAIN Statics[o] : r = At(Append(p, StaticSeg(i)))
      BY <2>3 DEF StaticRows
    <3>2. \A i : StaticSeg(i)[1] \in SegKinds
      BY SegIs
    <3> QED BY <3>1, <3>2, RowBelow, AtBelow
  <2>4. CASE r \in FieldRows(p, o)
    <3>1. PICK i \in DOMAIN Fields[o] : r = FieldRow(Append(p, FieldSeg(i)), Fields[o][i])
      BY <2>4 DEF FieldRows
    <3>2. \/ r = Row("cyclic", Append(p, FieldSeg(i)))
          \/ r = At(Append(p, FieldSeg(i)))
      BY <3>1 DEF FieldRow
    <3>3. FieldSeg(i)[1] \in SegKinds
      BY SegIs
    <3> QED BY <3>2, <3>3, RowBelow, AtBelow
  <2> QED BY <2>1, <2>2, <2>3, <2>4
<1>3. ASSUME NEW v
      PROVE  RowsBelow(p, ValueRows(s, p, v))
  <2>1. \/ ValueRows(s, p, v) = {}
        \/ ValueRows(s, p, v) = CollectionRows(s, p, v.id)
        \/ ValueRows(s, p, v) = ObjectRows(s, p, v.id)
    BY DEF ValueRows
  <2> QED BY <1>0, <1>1, <1>2, <2>1
<1>4. ASSUME NEW r \in {At(Append(p, VarSeg(i))) : i \in DOMAIN Vars[p[1][2]] \union {1}}
      PROVE  RowsBelow(p, {r})
  <2>1. PICK i : r = At(Append(p, VarSeg(i)))
    OBVIOUS
  <2>2. VarSeg(i)[1] \in SegKinds
    BY SegIs
  <2> QED BY <2>1, <2>2, AtBelow
<1>5. RowsBelow(p, {At(Append(p, VarSeg(i))) : i \in DOMAIN Vars[p[1][2]] \union {1}})
  BY <1>4 DEF RowsBelow
<1>6. \/ ChildRows(s, p) = ValueRows(s, p, HeapAt(p))
      \/ ChildRows(s, p) = {}
      \/ ChildRows(s, p) = {At(Append(p, VarSeg(i))) : i \in DOMAIN Vars[p[1][2]] \union {1}}
  BY DEF ChildRows
<1> QED BY <1>0, <1>3, <1>5, <1>6

\* The rows of the frames.
LEMMA FrameRow ==
    ASSUME NEW s, IsSeq(s.frames), NEW i \in DOMAIN s.frames
    PROVE  IsRow(s, At(<<FrameSeg(s.frames[i])>>))
<1> DEFINE p == <<FrameSeg(s.frames[i])>>
<1>1. IsPath(p) /\ p[1] = FrameSeg(s.frames[i])
  BY FramePath
<1>2. s.frames[i] \in Range(s.frames)
  BY DEF Range
<1>3. Within(s, p)
  BY <1>1, <1>2 DEF Within
<1> HIDE DEF p
<1>4. IsRow(s, At(p))
  BY <1>1, <1>3, RowIs DEF IsRow
<1> QED BY <1>4 DEF p

\* The first row is one.
LEMMA FirstRowOK ==
    ASSUME NEW s, IsSeq(s.frames)
    PROVE  IsRow(s, FirstRow(s))
<1>1. CASE s.frames = <<>>
  <2>1. FirstRow(s) = Row("noframes", <<>>)
    BY <1>1 DEF FirstRow, NoFrames
  <2> QED BY <2>1, RowIs DEF IsRow
<1>2. CASE s.frames # <<>>
  <2> DEFINE S == Range(s.frames)
  <2>1. s.frames \in Seq(S)
    BY DEF IsSeq
  <2> HIDE DEF S
  <2>2. 1 \in DOMAIN s.frames /\ Head(s.frames) = s.frames[1]
    BY <1>2, <2>1
  <2>3. FirstRow(s) = At(<<FrameSeg(s.frames[1])>>)
    BY <1>2, <2>2 DEF FirstRow
  <2> QED BY <2>2, <2>3, FrameRow
<1> QED BY <1>1, <1>2

\* The rows on the screen are rows of the stack.
LEMMA FlatOK ==
    ASSUME NEW s, StackOK(s), NEW r \in FlatItems(s)
    PROVE  IsRow(s, r)
<1>0. IsSeq(s.frames) /\ \A p \in DOMAIN s.phases : IsPath(p)
  BY DEF StackOK
<1>1. CASE s.frames = <<>>
  <2>1. r = Row("noframes", <<>>)
    BY <1>1 DEF FlatItems, NoFrames
  <2> QED BY <2>1, RowIs DEF IsRow
<1>2. CASE s.frames # <<>>
  <2> DEFINE below == [p \in FramePaths(s) \union DOMAIN s.phases |-> ChildRows(s, p)]
  <2>1. \/ \E p \in FramePaths(s) : r = At(p)
        \/ \E p \in DOMAIN below : Prefix(p, 1) \in FramePaths(s) /\ r \in below[p]
    <3>1. r \in Reached(FramePaths(s), below)
      BY <1>2 DEF FlatItems
    <3> HIDE DEF below
    <3> QED BY <3>1 DEF Reached
  <2>2. ASSUME NEW p \in FramePaths(s)
        PROVE  IsPath(p) /\ Within(s, p) /\ IsRow(s, At(p))
    <3>1. PICK i \in DOMAIN s.frames : p = <<FrameSeg(s.frames[i])>>
      BY DEF FramePaths
    <3>2. IsRow(s, At(p))
      BY <1>0, <3>1, FrameRow
    <3> QED BY <3>2, RowIs DEF IsRow
  <2>3. ASSUME NEW p \in DOMAIN below, Prefix(p, 1) \in FramePaths(s), r \in below[p]
        PROVE  IsRow(s, r)
    <3>1. p \in FramePaths(s) \/ p \in DOMAIN s.phases
      OBVIOUS
    <3>2. IsPath(p)
      BY <1>0, <2>2, <3>1
    <3>3. Within(s, p)
      <4>1. 1 \in 1..Len(p)
        BY <3>2, PathParts
      <4>2. Prefix(p, 1)[1] = p[1]
        BY <3>2, <4>1, PathPrefix
      <4>3. Within(s, Prefix(p, 1))
        BY <2>2, <2>3
      <4> QED BY <4>2, <4>3 DEF Within
    <3>4. RowsBelow(p, below[p])
      BY <2>3, ChildRowsBelow
    <3> HIDE DEF below
    <3>5. /\ r = Row(r.kind, r.path) /\ r.kind # "noframes"
          /\ \/ r.path = p
             \/ \E seg : seg[1] \in SegKinds /\ r.path = Append(p, seg)
      BY <2>3, <3>4 DEF RowsBelow
    <3>6. IsPath(r.path) /\ r.path[1] = p[1]
      BY <3>2, <3>5, PathAppend
    <3> QED BY <3>3, <3>5, <3>6 DEF IsRow, Within
  <2> QED BY <2>1, <2>2, <2>3
<1> QED BY <1>1, <1>2

\* The row the cursor's parent is.
LEMMA ParentOK ==
    ASSUME NEW s, IsRow(s, s.cursor), NEW r \in ParentCursor(s)
    PROVE  IsRow(s, r)
<1> DEFINE p == s.cursor.path
<1>1. \/ s.cursor.kind = "section" /\ r = At(p)
      \/ s.cursor.kind # "section" /\ Len(p) > 1 /\ r = At(Front(p))
  BY DEF ParentCursor
<1>2. CASE s.cursor.kind = "section" /\ r = At(p)
  BY <1>2, RowIs DEF IsRow
<1>3. CASE s.cursor.kind # "section" /\ Len(p) > 1 /\ r = At(Front(p))
  <2>1. Len(<<>>) = 0
    OBVIOUS
  <2>2. s.cursor.kind # "noframes"
    BY <1>3, <2>1 DEF IsRow
  <2>3. IsPath(p) /\ Within(s, p)
    BY <2>2 DEF IsRow
  <2>4. IsPath(Front(p)) /\ Front(p)[1] = p[1]
    BY <1>3, <2>3, PathFront
  <2>5. Within(s, Front(p))
    BY <2>3, <2>4 DEF Within
  <2>6. r = Row(r.kind, r.path) /\ r.kind = "at" /\ r.path = Front(p)
    BY <1>3, RowIs
  <2> QED BY ONLY <2>4, <2>5, <2>6 DEF IsRow
<1> QED BY <1>1, <1>2, <1>3

\* Rows are rows of any stack with the same frames.
LEMMA SameRows ==
    ASSUME NEW s, NEW t, t.frames = s.frames, NEW r, IsRow(s, r)
    PROVE  IsRow(t, r)
BY DEF IsRow, Within

\* A stack just opened.
LEMMA NewStackOK ==
    ASSUME NEW frames, IsSeq(frames)
    PROVE  /\ StackOK(NewStack(frames)) /\ NewStack(frames).frames = frames
           /\ DOMAIN NewStack(frames).chunks = {}
<1> DEFINE s == NewStack(frames)
<1>1. IsStack(s) /\ s.frames = frames /\ s.phases = <<>> /\ s.chunks = <<>>
  BY DEF IsStack, Has, StackFields, NewStack
<1>2. s.cursor = FirstRow(s)
  BY DEF NewStack, FirstRow
<1>3. DOMAIN <<>> = {}
  OBVIOUS
<1> HIDE DEF s
<1>4. DOMAIN s.phases = {} /\ DOMAIN s.chunks = {}
  BY <1>1, <1>3
<1>5. IsRow(s, s.cursor)
  BY <1>1, <1>2, FirstRowOK
<1>6. StackOK(s)
  BY <1>1, <1>4, <1>5 DEF StackOK
<1> QED BY <1>1, <1>4, <1>6 DEF s

\* A phase is set.
LEMMA SetPhaseOK ==
    ASSUME NEW s, StackOK(s), NEW p, IsPath(p), NEW ph
    PROVE  /\ Keeps(s, SetPhase(s, p, ph))
           /\ SetPhase(s, p, ph).phases = Put(s.phases, p, ph)
<1> DEFINE t == SetPhase(s, p, ph)
<1>1. /\ IsStack(t) /\ t.frames = s.frames /\ t.chunks = s.chunks
      /\ t.cursor = s.cursor /\ t.phases = Put(s.phases, p, ph)
  BY DEF StackOK, IsStack, Has, StackFields, SetPhase
<1>2. DOMAIN Put(s.phases, p, ph) = DOMAIN s.phases \union {p}
  BY DEF Put
<1> HIDE DEF t
<1>3. IsRow(t, t.cursor)
  BY <1>1, SameRows DEF StackOK
<1>4. Keeps(s, t)
  BY <1>1, <1>2, <1>3 DEF Keeps, StackOK
<1> QED BY <1>1, <1>4 DEF t

\* The cursor is moved to a row of the stack.
LEMMA SetCursorOK ==
    ASSUME NEW s, StackOK(s), NEW r, IsRow(s, r)
    PROVE  /\ Keeps(s, SetCursor(s, r))
           /\ SetCursor(s, r).phases = s.phases
<1> DEFINE t == SetCursor(s, r)
<1>1. /\ IsStack(t) /\ t.frames = s.frames /\ t.chunks = s.chunks
      /\ t.cursor = r /\ t.phases = s.phases
  BY DEF StackOK, IsStack, Has, StackFields, SetCursor
<1> HIDE DEF t
<1>2. IsRow(t, t.cursor)
  BY <1>1, SameRows
<1>3. Keeps(s, t)
  BY <1>1, <1>2 DEF Keeps, StackOK
<1> QED BY <1>1, <1>3 DEF t

\* A path is collapsed.
LEMMA CollapseAtPathOK ==
    ASSUME NEW s, StackOK(s), NEW p
    PROVE  /\ Keeps(s, CollapseAtPath(s, p))
           /\ CollapseAtPath(s, p).cursor = s.cursor
<1> DEFINE t == CollapseAtPath(s, p)
           D == {q \in DOMAIN s.phases : IsPrefix(p, q)}
<1>1. /\ IsStack(t) /\ t.frames = s.frames /\ t.chunks = s.chunks
      /\ t.cursor = s.cursor
      /\ t.phases = Without(s.phases, D)
  BY DEF StackOK, IsStack, Has, StackFields, CollapseAtPath
<1> HIDE DEF t, D
<1>2. DOMAIN t.phases \subseteq DOMAIN s.phases
  BY <1>1 DEF Without, Restrict
<1>3. IsRow(t, t.cursor)
  BY <1>1, SameRows DEF StackOK
<1>4. Keeps(s, t)
  BY <1>1, <1>2, <1>3 DEF Keeps, StackOK
<1> QED BY <1>1, <1>4 DEF t

\* The cursor is brought back to a row that is shown.
LEMMA ResyncOK ==
    ASSUME NEW s, StackOK(s)
    PROVE  Keeps(s, Resync(s))
<1>1. \/ Resync(s) = s
      \/ \E r : Resync(s) = SetCursor(s, r) /\ IsRow(s, r)
  <2> DEFINE flat == FlatItems(s)
             r == CHOOSE x \in ParentCursor(s) : TRUE
  <2>1. Resync(s) = Resynced(s, flat)
    BY DEF Resync
  <2> HIDE DEF flat
  <2>2. CASE s.cursor \in flat
    BY <2>1, <2>2 DEF Resynced
  <2>3. CASE s.cursor \notin flat /\ ParentCursor(s) \intersect flat # {}
    <3>1. Resync(s) = SetCursor(s, r)
      BY <2>1, <2>3 DEF Resynced
    <3>2. r \in ParentCursor(s)
      BY <2>3
    <3> HIDE DEF r
    <3>3. IsRow(s, r)
      BY <3>2, ParentOK DEF StackOK
    <3> QED BY <3>1, <3>3
  <2>4. CASE s.cursor \notin flat /\ ~(ParentCursor(s) \intersect flat # {})
    <3>1. Resync(s) = SetCursor(s, FirstRow(s))
      BY <2>1, <2>4 DEF Resynced
    <3> QED BY <3>1, FirstRowOK DEF StackOK
  <2> QED BY <2>2, <2>3, <2>4
<1>2. Keeps(s, s)
  BY DEF Keeps
<1> QED BY <1>1, <1>2, SetCursorOK

\* A section is opened or closed.
LEMMA ToggleSectionOK ==
    ASSUME NEW s, StackOK(s), NEW p, IsPath(p), Within(s, p)
    PROVE  Keeps(s, ToggleSection(s, p))
<1> DEFINE t == ToggleSection(s, p)
<1>1. /\ IsStack(t) /\ t.frames = s.frames /\ t.chunks = s.chunks
      /\ t.cursor = Row("section", p) /\ t.phases = s.phases
  BY DEF StackOK, IsStack, Has, StackFields, ToggleSection
<1> HIDE DEF t
<1>2. IsRow(s, Row("section", p))
  BY RowIs DEF IsRow
<1>3. IsRow(t, t.cursor)
  BY <1>1, <1>2, SameRows
<1>4. Keeps(s, t)
  BY <1>1, <1>3 DEF Keeps, StackOK
<1> QED BY <1>4 DEF t

\* Objects are collapsed.
LEMMA CollapseByIdOK ==
    ASSUME NEW s, StackOK(s), NEW os
    PROVE  /\ Keeps(s, CollapseById(s, os))
           /\ CollapseById(s, os).phases = s.phases
           /\ CollapseById(s, os).cursor = s.cursor
<1> DEFINE t == CollapseById(s, os)
<1>1. /\ IsStack(t) /\ t.frames = s.frames /\ t.chunks = s.chunks
      /\ t.cursor = s.cursor /\ t.phases = s.phases
  BY DEF StackOK, IsStack, Has, StackFields, CollapseById
<1> HIDE DEF t
<1>2. IsRow(t, t.cursor)
  BY <1>1, SameRows DEF StackOK
<1>3. Keeps(s, t)
  BY <1>1, <1>2 DEF Keeps, StackOK
<1> QED BY <1>1, <1>3 DEF t

\* A frame is opened.
LEMMA ExpandFrameOK ==
    ASSUME NEW s, StackOK(s), NEW f
    PROVE  Keeps(s, ExpandFrame(s, f))
<1> DEFINE t == ExpandFrame(s, f)
<1>1. /\ IsStack(t) /\ t.frames = s.frames /\ t.chunks = s.chunks
      /\ t.cursor = s.cursor /\ t.phases = s.phases
  BY DEF StackOK, IsStack, Has, StackFields, ExpandFrame
<1> HIDE DEF t
<1>2. IsRow(t, t.cursor)
  BY <1>1, SameRows DEF StackOK
<1>3. Keeps(s, t)
  BY <1>1, <1>2 DEF Keeps, StackOK
<1> QED BY <1>3 DEF t

\* A frame is closed.
LEMMA CollapseFrameOK ==
    ASSUME NEW s, StackOK(s), NEW f
    PROVE  Keeps(s, CollapseFrame(s, f))
<1>1. PICK t, D :
        /\ StackOK(t) /\ t.frames = s.frames /\ t.chunks = s.chunks /\ t.cursor = s.cursor
        /\ CollapseFrame(s, f) =
             [t EXCEPT !.expanded = @ \ {f},
                       !.phases   = Without(@, D),
                       !.sections = @ \ D,
                       !.cursor   = IF @.path # <<>> /\ @.path[1] = FrameSeg(f)
                                    THEN At(<<FrameSeg(f)>>) ELSE @]
  <2> DEFINE roots == {v.id : v \in {Vars[f][i] : i \in DOMAIN Vars[f]}} \ {NoId}
             t == CollapseById(s, Descendants(s, roots))
  <2>1. StackOK(t) /\ t.frames = s.frames /\ t.chunks = s.chunks /\ t.cursor = s.cursor
    <3> DEFINE os == Descendants(s, roots)
    <3> HIDE DEF os
    <3> QED BY CollapseByIdOK DEF Keeps
  <2> DEFINE under == {p \in DOMAIN t.phases \union t.sections : p[1] = FrameSeg(f)}
  <2>2. CollapseFrame(s, f) =
             [t EXCEPT !.expanded = @ \ {f},
                       !.phases   = Without(@, under),
                       !.sections = @ \ under,
                       !.cursor   = IF @.path # <<>> /\ @.path[1] = FrameSeg(f)
                                    THEN At(<<FrameSeg(f)>>) ELSE @]
    BY DEF CollapseFrame
  <2> HIDE DEF t, under
  <2> QED BY <2>1, <2>2
<1> DEFINE z == CollapseFrame(s, f)
           c == t.cursor
<1>2. /\ IsStack(z) /\ z.frames = s.frames /\ z.chunks = s.chunks
      /\ z.phases = Without(t.phases, D)
      /\ z.cursor = IF c.path # <<>> /\ c.path[1] = FrameSeg(f)
                    THEN At(<<FrameSeg(f)>>) ELSE c
  BY <1>1 DEF StackOK, IsStack, Has, StackFields
<1> HIDE DEF z
<1>3. DOMAIN z.phases \subseteq DOMAIN t.phases
  BY <1>2 DEF Without, Restrict
<1>4. IsRow(z, c)
  BY <1>1, <1>2, SameRows DEF StackOK
<1>5. ASSUME c.path # <<>> /\ c.path[1] = FrameSeg(f)
      PROVE  IsRow(z, At(<<FrameSeg(f)>>))
  <2> DEFINE p == <<FrameSeg(f)>>
  <2>1. Within(z, c.path)
    BY <1>4, <1>5 DEF IsRow
  <2>2. IsPath(p) /\ p[1] = FrameSeg(f)
    BY FramePath
  <2> HIDE DEF p
  <2>3. Within(z, p)
    BY <1>5, <2>1, <2>2 DEF Within
  <2>4. IsRow(z, At(p))
    BY <2>2, <2>3, RowIs DEF IsRow
  <2> QED BY <2>4 DEF p
<1>6. IsRow(z, z.cursor)
  BY <1>2, <1>4, <1>5
<1>7. Keeps(s, z)
  BY <1>1, <1>2, <1>3, <1>6 DEF Keeps, StackOK
<1> QED BY <1>7 DEF z

\* An answer is shown.
LEMMA ExpansionDoneOK ==
    ASSUME NEW s, StackOK(s), NEW p, IsPath(p), NEW o
    PROVE  /\ Keeps(s, ExpansionDone(s, p, o))
           /\ ExpansionDone(s, p, o).phases = Put(s.phases, p, "Expanded")
<1>1. PICK t : t = SetPhase(s, p, "Expanded")
  OBVIOUS
<1>2. Keeps(s, t) /\ t.phases = Put(s.phases, p, "Expanded")
  BY <1>1, SetPhaseOK
<1> DEFINE z == ExpansionDone(s, p, o)
<1>3. /\ IsStack(z) /\ z.frames = t.frames /\ z.chunks = t.chunks
      /\ z.cursor = t.cursor /\ z.phases = t.phases
  BY <1>1, <1>2 DEF Keeps, StackOK, IsStack, Has, StackFields, ExpansionDone
<1> HIDE DEF z
<1>4. IsRow(z, z.cursor)
  BY <1>2, <1>3, SameRows DEF StackOK, Keeps
<1>5. Keeps(s, z)
  BY <1>2, <1>3, <1>4 DEF Keeps, StackOK
<1> QED BY <1>2, <1>3, <1>5 DEF z

\* A failure is shown.
LEMMA ExpansionFailedOK ==
    ASSUME NEW s, StackOK(s), NEW p, IsPath(p), NEW o
    PROVE  /\ Keeps(s, ExpansionFailed(s, p, o))
           /\ ExpansionFailed(s, p, o).phases = Put(s.phases, p, "Failed")
<1>1. PICK t : t = SetPhase(s, p, "Failed")
  OBVIOUS
<1>2. Keeps(s, t) /\ t.phases = Put(s.phases, p, "Failed")
  BY <1>1, SetPhaseOK
<1> DEFINE z == WithFailure(s, p, o)
<1>3. /\ IsStack(z) /\ z.frames = t.frames /\ z.chunks = t.chunks
      /\ z.cursor = t.cursor /\ z.phases = t.phases
  BY <1>1, <1>2 DEF Keeps, StackOK, IsStack, Has, StackFields, WithFailure
<1> HIDE DEF z
<1>4. IsRow(z, z.cursor)
  BY <1>2, <1>3, SameRows DEF StackOK, Keeps
<1>5. Keeps(s, z)
  BY <1>2, <1>3, <1>4 DEF Keeps, StackOK
<1>6. \/ ExpansionFailed(s, p, o) = z
      \/ \E r : ExpansionFailed(s, p, o) = SetCursor(z, r) /\ IsRow(z, r)
  <2> DEFINE flat == FlatItems(z)
             here == {At(z.cursor.path)} \intersect flat
             up   == ParentCursor(z) \intersect flat
             r    == CHOOSE x \in IF here # {} THEN here ELSE up : TRUE
  <2>1. ExpansionFailed(s, p, o) = IF z.cursor \in flat \/ here \union up = {} THEN z
                                   ELSE SetCursor(z, r)
    BY DEF ExpansionFailed, Reseated, z
  <2>2. ASSUME here \union up # {}
        PROVE  r \in flat
    BY <2>2
  <2> HIDE DEF r, here, up
  <2>3. r \in flat => IsRow(z, r)
    BY <1>5, FlatOK DEF Keeps
  <2> QED BY <2>1, <2>2, <2>3
<1>7. CASE ExpansionFailed(s, p, o) = z
  BY <1>2, <1>3, <1>5, <1>7
<1>8. CASE \E r : ExpansionFailed(s, p, o) = SetCursor(z, r) /\ IsRow(z, r)
  <2>1. PICK r : ExpansionFailed(s, p, o) = SetCursor(z, r) /\ IsRow(z, r)
    BY <1>8
  <2>2. Keeps(z, SetCursor(z, r)) /\ SetCursor(z, r).phases = z.phases
    BY <1>5, <2>1, SetCursorOK DEF Keeps
  <2> QED BY <1>2, <1>3, <2>1, <2>2 DEF Keeps
<1> QED BY <1>6, <1>7, <1>8

\* The cursor is put on a path.
LEMMA PositionCursorOK ==
    ASSUME NEW s, StackOK(s), NEW p
    PROVE  Keeps(s, PositionCursor(s, p))
<1>1. \/ PositionCursor(s, p) = s
      \/ \E r : PositionCursor(s, p) = SetCursor(s, r) /\ IsRow(s, r)
  <2>1. \/ PositionCursor(s, p) = s
        \/ At(p) \in FlatItems(s) /\ PositionCursor(s, p) = SetCursor(s, At(p))
        \/ PositionCursor(s, p) = SetCursor(s, FirstRow(s))
    BY DEF PositionCursor
  <2>2. IsRow(s, FirstRow(s)) /\ (At(p) \in FlatItems(s) => IsRow(s, At(p)))
    BY FirstRowOK, FlatOK DEF StackOK
  <2> QED BY <2>1, <2>2
<1>2. Keeps(s, s)
  BY DEF Keeps
<1> QED BY <1>1, <1>2, SetCursorOK

-----------------------------------------------------------------------------
(* What the handlers change                                                *)

UiFields == {"highlighted", "focus", "opened", "stack", "expansions", "pages",
             "nav", "spinner"}

\* Pages are asked for by collection and offset, for a row or for none.
PagesOK(g) ==
    \A k \in DOMAIN g : /\ k = <<k[1], k[2]>>
                        /\ "parent" \in DOMAIN g[k]
                        /\ g[k].parent = NoPath \/ IsPath(g[k].parent)

\* A walk that waits knows its way.
NavOK(n) ==
    n # NoNav => /\ IsPath(n.orig) /\ n.done \in 0..Len(n.orig)
                 /\ n.thread \in Threads

UiOK(u) ==
    /\ Has(u, UiFields)
    /\ StackOK(u.stack)
    /\ \A p \in DOMAIN u.expansions : IsPath(p)
    /\ PagesOK(u.pages)
    /\ NavOK(u.nav)

\* The collections of ChunksHaveSource.
Sources(chunks, g) ==
    \A c \in DOMAIN chunks :
        /\ ~chunks[c].eager => <<c, 0>> \in DOMAIN g
        /\ \A o \in DOMAIN chunks[c].pages :
              chunks[c].pages[o] = "Loading" => <<c, o>> \in DOMAIN g

Sourced(u) == Sources(u.stack.chunks, u.pages)

\* The pending work of WorkOfOpenThread.
Rooted(u) ==
    /\ \A p \in DOMAIN u.expansions : Within(u.stack, p)
    /\ \A k \in DOMAIN u.pages :
          u.pages[k].parent = NoPath \/ Within(u.stack, u.pages[k].parent)

\* The handler stays in the thread and the panel, and starts no walk.
Same(u, v) ==
    /\ v.highlighted = u.highlighted /\ v.focus = u.focus /\ v.opened = u.opened
    /\ v.stack.frames = u.stack.frames

Quiet(u, v) ==
    /\ UiOK(v) /\ Same(u, v)
    /\ v.nav = u.nav \/ v.nav = NoNav
    /\ Sourced(u) => Sourced(v)
    /\ Rooted(u) => Rooted(v)

\* A handler that does nothing.
LEMMA QuietSelf ==
    ASSUME NEW u, UiOK(u)
    PROVE  Quiet(u, u)
BY DEF Quiet, Same

\* One after the other.
LEMMA QuietTwice ==
    ASSUME NEW u, NEW v, Quiet(u, v), NEW w, Quiet(v, w)
    PROVE  Quiet(u, w)
BY DEF Quiet, Same

\* Paths stay within a stack whose frames stay.
LEMMA WithinSame ==
    ASSUME NEW s, NEW t, t.frames = s.frames, NEW p, Within(s, p)
    PROVE  Within(t, p)
BY DEF Within

\* The stack changes and its collections do not.
LEMMA QuietStack ==
    ASSUME NEW u, UiOK(u), NEW s, Keeps(u.stack, s)
    PROVE  Quiet(u, [u EXCEPT !.stack = s])
<1> DEFINE v == [u EXCEPT !.stack = s]
<1>1. /\ Has(v, UiFields) /\ v.stack = s /\ v.highlighted = u.highlighted
      /\ v.focus = u.focus /\ v.opened = u.opened /\ v.nav = u.nav
      /\ v.expansions = u.expansions /\ v.pages = u.pages
  BY DEF UiOK, Has, UiFields
<1> HIDE DEF v
<1>2. StackOK(s) /\ s.frames = u.stack.frames /\ s.chunks = u.stack.chunks
  BY DEF Keeps
<1>3. UiOK(v) /\ Same(u, v)
  BY <1>1, <1>2 DEF UiOK, Same
<1>4. Sourced(u) => Sourced(v)
  BY <1>1, <1>2 DEF Sourced
<1>5. Rooted(u) => Rooted(v)
  BY <1>1, <1>2, WithinSame DEF Rooted
<1>6. Quiet(u, v)
  BY <1>1, <1>3, <1>4, <1>5 DEF Quiet
<1> QED BY <1>6 DEF v

\* Expansions are given up.
LEMMA QuietLess ==
    ASSUME NEW u, UiOK(u), NEW e, DOMAIN e \subseteq DOMAIN u.expansions
    PROVE  Quiet(u, [u EXCEPT !.expansions = e])
<1> DEFINE v == [u EXCEPT !.expansions = e]
<1>1. /\ Has(v, UiFields) /\ v.stack = u.stack /\ v.highlighted = u.highlighted
      /\ v.focus = u.focus /\ v.opened = u.opened /\ v.nav = u.nav
      /\ v.expansions = e /\ v.pages = u.pages
  BY DEF UiOK, Has, UiFields
<1> HIDE DEF v
<1>2. UiOK(v) /\ Same(u, v)
  BY <1>1 DEF UiOK, Same
<1>3. (Sourced(u) => Sourced(v)) /\ (Rooted(u) => Rooted(v))
  BY <1>1 DEF Sourced, Rooted
<1>4. Quiet(u, v)
  BY <1>1, <1>2, <1>3 DEF Quiet
<1> QED BY <1>4 DEF v

\* Dropping the work for an object.
LEMMA QuietDropping ==
    ASSUME NEW u, UiOK(u), NEW o
    PROVE  Quiet(u, Dropping(u, o))
<1> DEFINE D == {p \in DOMAIN u.expansions : u.expansions[p].id = o}
           e == Without(u.expansions, D)
<1>1. Dropping(u, o) = [u EXCEPT !.expansions = e]
  BY DEF Dropping
<1>2. DOMAIN e \subseteq DOMAIN u.expansions
  BY DEF Without, Restrict
<1> HIDE DEF e
<1> QED BY <1>1, <1>2, QuietLess

\* The walk is given up.
LEMMA QuietFailed ==
    ASSUME NEW u, UiOK(u), NEW r
    PROVE  Quiet(u, Failed(u, r))
<1>1. CASE Failed(u, r) = u
  BY <1>1, QuietSelf
<1>2. CASE Failed(u, r) = [u EXCEPT !.nav = NoNav, !.spinner = "Idle"]
  <2> DEFINE v == [u EXCEPT !.nav = NoNav, !.spinner = "Idle"]
  <2>1. /\ Has(v, UiFields) /\ v.stack = u.stack /\ v.highlighted = u.highlighted
        /\ v.focus = u.focus /\ v.opened = u.opened /\ v.nav = NoNav
        /\ v.expansions = u.expansions /\ v.pages = u.pages
    BY DEF UiOK, Has, UiFields
  <2> HIDE DEF v
  <2>2. UiOK(v) /\ Same(u, v)
    BY <2>1 DEF UiOK, Same, NavOK
  <2>3. (Sourced(u) => Sourced(v)) /\ (Rooted(u) => Rooted(v))
    BY <2>1 DEF Sourced, Rooted
  <2>4. Quiet(u, v)
    BY <2>1, <2>2, <2>3 DEF Quiet
  <2> QED BY <1>2, <2>4 DEF v
<1> QED BY <1>1, <1>2 DEF Failed

\* A row's object is asked for: the row decides whether the work is rooted.
LEMMA StartExpansionOK ==
    ASSUME NEW u, UiOK(u), NEW o, NEW p, IsPath(p)
    PROVE  /\ UiOK(StartExpansion(u, o, p)) /\ Same(u, StartExpansion(u, o, p))
           /\ StartExpansion(u, o, p).nav = u.nav
           /\ StartExpansion(u, o, p).stack = u.stack
           /\ Sourced(u) => Sourced(StartExpansion(u, o, p))
           /\ Rooted(u) /\ Within(u.stack, p) => Rooted(StartExpansion(u, o, p))
<1> DEFINE e == Put(u.expansions, p, [id |-> o, shown |-> FALSE])
           v == [u EXCEPT !.expansions = e]
<1>1. CASE p \in DOMAIN u.expansions
  BY <1>1 DEF StartExpansion, Same
<1>2. CASE p \notin DOMAIN u.expansions
  <2>1. StartExpansion(u, o, p) = v
    BY <1>2 DEF StartExpansion
  <2>2. DOMAIN e = DOMAIN u.expansions \union {p}
    BY DEF Put
  <2> HIDE DEF e
  <2>3. /\ Has(v, UiFields) /\ v.stack = u.stack /\ v.highlighted = u.highlighted
        /\ v.focus = u.focus /\ v.opened = u.opened /\ v.nav = u.nav
        /\ v.expansions = e /\ v.pages = u.pages
    BY DEF UiOK, Has, UiFields
  <2> HIDE DEF v
  <2>4. UiOK(v) /\ Same(u, v)
    BY <2>2, <2>3 DEF UiOK, Same
  <2>5. (Sourced(u) => Sourced(v)) /\ (Rooted(u) /\ Within(u.stack, p) => Rooted(v))
    BY <2>2, <2>3 DEF Sourced, Rooted
  <2> QED BY <2>1, <2>3, <2>4, <2>5
<1> QED BY <1>1, <1>2

\* The same of a row of the stack.
LEMMA QuietExpansion ==
    ASSUME NEW u, UiOK(u), NEW o, NEW p, IsPath(p), Within(u.stack, p)
    PROVE  Quiet(u, StartExpansion(u, o, p))
BY StartExpansionOK DEF Quiet

\* A page is asked for.
LEMMA LoadPageOK ==
    ASSUME NEW u, UiOK(u), NEW c, NEW o
    PROVE  /\ Quiet(u, LoadPage(u, c, o))
           /\ LoadPage(u, c, o).nav = u.nav
           /\ LoadPage(u, c, o).stack = u.stack
           /\ DOMAIN LoadPage(u, c, o).pages = DOMAIN u.pages \union {<<c, o>>}
<1> DEFINE g == Put(u.pages, <<c, o>>, [shown |-> FALSE, parent |-> NoPath])
           v == [u EXCEPT !.pages = g]
<1>1. CASE <<c, o>> \in DOMAIN u.pages
  <2>1. LoadPage(u, c, o) = u
    BY <1>1 DEF LoadPage
  <2> QED BY <1>1, <2>1, QuietSelf
<1>2. CASE <<c, o>> \notin DOMAIN u.pages
  <2>1. LoadPage(u, c, o) = v
    BY <1>2 DEF LoadPage
  <2>2. /\ DOMAIN g = DOMAIN u.pages \union {<<c, o>>}
        /\ \A k \in DOMAIN u.pages : g[k] = u.pages[k]
        /\ g[<<c, o>>].parent = NoPath /\ "parent" \in DOMAIN g[<<c, o>>]
    BY <1>2 DEF Put
  <2> HIDE DEF g
  <2>3. /\ Has(v, UiFields) /\ v.stack = u.stack /\ v.highlighted = u.highlighted
        /\ v.focus = u.focus /\ v.opened = u.opened /\ v.nav = u.nav
        /\ v.expansions = u.expansions /\ v.pages = g
    BY DEF UiOK, Has, UiFields
  <2> HIDE DEF v
  <2>4. PagesOK(g)
    <3>1. <<c, o>> = <<(<<c, o>>)[1], (<<c, o>>)[2]>>
      OBVIOUS
    <3> QED BY <2>2, <3>1 DEF UiOK, PagesOK
  <2>5. UiOK(v) /\ Same(u, v)
    BY <2>3, <2>4 DEF UiOK, Same
  <2>6. Sourced(u) => Sourced(v)
    BY <2>2, <2>3 DEF Sourced, Sources
  <2>7. Rooted(u) => Rooted(v)
    BY <2>2, <2>3 DEF Rooted
  <2>8. Quiet(u, v)
    BY <2>3, <2>5, <2>6, <2>7 DEF Quiet
  <2> QED BY <2>1, <2>2, <2>3, <2>8
<1> QED BY <1>1, <1>2

\* The pages that are asked for change, and with them the collections.
Rest(u, v) ==
    /\ Has(v, UiFields)
    /\ v.highlighted = u.highlighted /\ v.focus = u.focus /\ v.opened = u.opened
    /\ v.expansions = u.expansions /\ v.nav = u.nav

LEMMA QuietPages ==
    ASSUME NEW u, UiOK(u), NEW v, Rest(u, v),
           StackOK(v.stack), v.stack.frames = u.stack.frames,
           PagesOK(v.pages),
           \A k \in DOMAIN v.pages :
              \/ k \in DOMAIN u.pages /\ v.pages[k].parent = u.pages[k].parent
              \/ Within(u.stack, v.pages[k].parent),
           Sources(u.stack.chunks, u.pages) => Sources(v.stack.chunks, v.pages)
    PROVE  Quiet(u, v)
<1>1. UiOK(v) /\ Same(u, v)
  BY DEF UiOK, Same, Rest
<1>2. Sourced(u) => Sourced(v)
  BY DEF Sourced
<1>3. Rooted(u) => Rooted(v)
  <2>1. \A p : Within(u.stack, p) => Within(v.stack, p)
    BY WithinSame
  <2> QED BY <2>1 DEF Rooted, Rest
<1> QED BY <1>1, <1>2, <1>3 DEF Quiet, Rest

\* What is known of the collections changes.
LEMMA WithChunks ==
    ASSUME NEW s, StackOK(s), NEW ch, \A c \in DOMAIN ch : IsChunks(ch[c])
    PROVE  LET t == [s EXCEPT !.chunks = ch]
           IN  StackOK(t) /\ t.frames = s.frames /\ t.chunks = ch /\ t.phases = s.phases
<1> DEFINE t == [s EXCEPT !.chunks = ch]
<1>1. /\ IsStack(t) /\ t.frames = s.frames /\ t.chunks = ch
      /\ t.cursor = s.cursor /\ t.phases = s.phases
  BY DEF StackOK, IsStack, Has, StackFields
<1> HIDE DEF t
<1>2. IsRow(t, t.cursor)
  BY <1>1, SameRows DEF StackOK
<1>3. StackOK(t)
  BY <1>1, <1>2 DEF StackOK
<1> QED BY <1>1, <1>3 DEF t

\* A collection is forgotten, and at most pages of it are given up.
LEMMA QuietForgotten ==
    ASSUME NEW u, UiOK(u), NEW v, Rest(u, v), NEW c,
           StackOK(v.stack), v.stack.frames = u.stack.frames,
           v.stack.chunks = Without(u.stack.chunks, {c}),
           NEW D, v.pages = Without(u.pages, D), \A k \in D : k[1] = c
    PROVE  Quiet(u, v)
<1>1. /\ DOMAIN v.pages = DOMAIN u.pages \ D
      /\ \A k \in DOMAIN v.pages : v.pages[k] = u.pages[k]
  BY DEF Without, Restrict
<1>2. /\ DOMAIN v.stack.chunks = DOMAIN u.stack.chunks \ {c}
      /\ \A x \in DOMAIN v.stack.chunks : v.stack.chunks[x] = u.stack.chunks[x]
  BY DEF Without, Restrict
<1>3. PagesOK(v.pages)
  BY <1>1 DEF UiOK, PagesOK
<1>4. ASSUME Sources(u.stack.chunks, u.pages)
      PROVE  Sources(v.stack.chunks, v.pages)
  <2>1. \A x, o : x # c /\ <<x, o>> \in DOMAIN u.pages => <<x, o>> \in DOMAIN v.pages
    <3> SUFFICES ASSUME NEW x, NEW o, x # c, <<x, o>> \in DOMAIN u.pages
                 PROVE  <<x, o>> \notin D
      BY <1>1
    <3>1. (<<x, o>>)[1] = x
      OBVIOUS
    <3> QED BY <3>1
  <2> QED BY <1>2, <1>4, <2>1 DEF Sources
<1> QED BY <1>1, <1>3, <1>4, QuietPages

\* The sections of a collection are closed at first, and none begins at 0.
LEMMA SectionsOK ==
    ASSUME NEW n
    PROVE  /\ 0 \notin DOMAIN Sections(n)
           /\ \A o \in DOMAIN Sections(n) : Sections(n)[o] = "Collapsed"
<1>1. 0 \notin ChunkOffsets(n)
  BY DEF ChunkOffsets
<1> QED BY <1>1 DEF Sections

\* A collection is opened: its first page is asked for.
LEMMA QuietCollection ==
    ASSUME NEW u, UiOK(u), NEW p, IsPath(p), Within(u.stack, p), NEW c
    PROVE  Quiet(u, OpenCollection(u, p, c))
<1> DEFINE r == [total |-> c.count, eager |-> FALSE, pages |-> Sections(c.count)]
           s == [SetPhase(u.stack, p, "Expanded") EXCEPT !.chunks = Put(@, c.id, r)]
           w == [u EXCEPT !.stack = s]
           x == LoadPage(w, c.id, 0)
           v == [x EXCEPT !.pages[<<c.id, 0>>].parent = p]
           k0 == <<c.id, 0>>
<1>1. OpenCollection(u, p, c) = v
  BY DEF OpenCollection
<1>2. /\ IsChunks(r) /\ ~r.eager
      /\ \A o \in DOMAIN r.pages : r.pages[o] # "Loading"
  BY SectionsOK DEF IsChunks, Has
<1> HIDE DEF r
<1>3. /\ StackOK(s) /\ s.frames = u.stack.frames
      /\ DOMAIN s.chunks = DOMAIN u.stack.chunks \union {c.id}
      /\ s.chunks[c.id] = r
      /\ \A y \in DOMAIN u.stack.chunks : y # c.id => s.chunks[y] = u.stack.chunks[y]
  <2> DEFINE t  == SetPhase(u.stack, p, "Expanded")
             ch == Put(t.chunks, c.id, r)
  <2>1. StackOK(t) /\ t.frames = u.stack.frames /\ t.chunks = u.stack.chunks
    BY SetPhaseOK DEF UiOK, Keeps
  <2> HIDE DEF t
  <2>2. /\ DOMAIN ch = DOMAIN u.stack.chunks \union {c.id} /\ ch[c.id] = r
        /\ \A y \in DOMAIN u.stack.chunks : y # c.id => ch[y] = u.stack.chunks[y]
    BY <2>1 DEF Put
  <2>3. \A y \in DOMAIN ch : IsChunks(ch[y])
    BY <1>2, <2>2 DEF UiOK, StackOK
  <2>4. s = [t EXCEPT !.chunks = ch]
    BY DEF t
  <2> HIDE DEF ch, s
  <2> QED BY <2>1, <2>2, <2>3, <2>4, WithChunks
<1> HIDE DEF s
<1>4. /\ Rest(u, w) /\ w.stack = s /\ w.pages = u.pages
      /\ UiOK(w)
  <2>1. Rest(u, w) /\ w.stack = s /\ w.pages = u.pages
    BY DEF UiOK, Has, UiFields, Rest
  <2> HIDE DEF w
  <2> QED BY <1>3, <2>1 DEF UiOK, Rest
<1> HIDE DEF w
<1>5. /\ Quiet(w, x) /\ x.nav = w.nav /\ x.stack = s
      /\ DOMAIN x.pages = DOMAIN u.pages \union {k0}
      /\ x.expansions = w.expansions
      /\ \A k \in DOMAIN u.pages : x.pages[k] = u.pages[k]
  <2>1. x.expansions = w.expansions /\ \A k \in DOMAIN u.pages : x.pages[k] = u.pages[k]
    <3> DEFINE fresh == [shown |-> FALSE, parent |-> NoPath]
    <3>1. x = w \/ /\ <<c.id, 0>> \notin DOMAIN w.pages
                   /\ x = [w EXCEPT !.pages = Put(@, <<c.id, 0>>, fresh)]
      BY DEF LoadPage
    <3> HIDE DEF x, fresh
    <3> QED BY <1>4, <3>1 DEF Put, UiOK, Has, UiFields
  <2> QED BY <1>4, <2>1, LoadPageOK
<1> HIDE DEF x
<1>6. /\ Rest(u, v) /\ v.stack = s
      /\ DOMAIN v.pages = DOMAIN u.pages \union {k0}
      /\ \A k \in DOMAIN u.pages : k # k0 => v.pages[k] = u.pages[k]
      /\ v.pages[k0] = [x.pages[k0] EXCEPT !.parent = p]
  <2>1. Has(x, UiFields) /\ PagesOK(x.pages)
    BY <1>5 DEF Quiet, UiOK
  <2> QED BY <1>4, <1>5, <2>1 DEF Rest, Has, UiFields, Quiet, Same
<1>7. "parent" \in DOMAIN v.pages[k0] /\ v.pages[k0].parent = p
  <2>1. "parent" \in DOMAIN x.pages[k0]
    BY <1>5 DEF Quiet, UiOK, PagesOK
  <2> HIDE DEF v
  <2> QED BY <1>6, <2>1
<1> HIDE DEF v
<1>8. PagesOK(v.pages)
  <2>1. k0 = <<k0[1], k0[2]>>
    OBVIOUS
  <2> QED BY <1>6, <1>7, <2>1 DEF UiOK, PagesOK
<1>9. ASSUME Sources(u.stack.chunks, u.pages)
      PROVE  Sources(v.stack.chunks, v.pages)
  <2> SUFFICES ASSUME NEW y \in DOMAIN s.chunks
               PROVE  /\ ~s.chunks[y].eager => <<y, 0>> \in DOMAIN v.pages
                      /\ \A o \in DOMAIN s.chunks[y].pages :
                            s.chunks[y].pages[o] = "Loading" => <<y, o>> \in DOMAIN v.pages
    BY <1>6 DEF Sources
  <2>1. CASE y = c.id
    BY <1>2, <1>3, <1>6, <2>1
  <2>2. CASE y # c.id
    <3>1. y \in DOMAIN u.stack.chunks /\ s.chunks[y] = u.stack.chunks[y]
      BY <1>3, <2>2
    <3> QED BY <1>6, <1>9, <3>1 DEF Sources
  <2> QED BY <2>1, <2>2
<1>10. Quiet(u, v)
  <2>1. \A k \in DOMAIN v.pages :
           \/ k \in DOMAIN u.pages /\ v.pages[k].parent = u.pages[k].parent
           \/ Within(u.stack, v.pages[k].parent)
    BY <1>6, <1>7
  <2> QED BY <1>3, <1>6, <1>8, <1>9, <2>1, QuietPages
<1> QED BY <1>1, <1>10

\* A page that cannot be had.
LEMMA QuietGone ==
    ASSUME NEW u, UiOK(u), NEW k
    PROVE  Quiet(u, PageGone(u, k))
<1> DEFINE ch == Without(u.stack.chunks, {k[1]})
           s  == [u.stack EXCEPT !.chunks = ch]
           t  == IF k[2] = 0 THEN CollapseById(s, {k[1]}) ELSE s
           g  == Without(u.pages, {k})
           v  == [u EXCEPT !.pages = g, !.stack = t]
<1>1. PageGone(u, k) = v
  BY DEF PageGone, ForgetChunks
<1>2. StackOK(t) /\ t.frames = u.stack.frames /\ t.chunks = ch
  <2>1. \A c \in DOMAIN ch : IsChunks(ch[c])
    BY DEF UiOK, StackOK, Without, Restrict
  <2> HIDE DEF ch
  <2>2. StackOK(s) /\ s.frames = u.stack.frames /\ s.chunks = ch
    BY <2>1, WithChunks DEF UiOK
  <2> HIDE DEF s
  <2> QED BY <2>2, CollapseByIdOK DEF Keeps
<1> HIDE DEF ch, t, g
<1>3. Rest(u, v) /\ v.stack = t /\ v.pages = g
  BY DEF UiOK, Has, UiFields, Rest
<1> HIDE DEF v
<1>4. Quiet(u, v)
  BY <1>2, <1>3, QuietForgotten DEF ch, g
<1> QED BY <1>1, <1>4

\* The chunks of a collection are closed and its pages given up.
LEMMA QuietClosed ==
    ASSUME NEW u, UiOK(u), NEW p, NEW c
    PROVE  Quiet(u, DroppingPages([u EXCEPT !.stack =
                                     ForgetChunks(CollapseAtPath(@, p), c)], c))
<1> DEFINE z  == CollapseAtPath(u.stack, p)
           ch == Without(u.stack.chunks, {c})
           t  == ForgetChunks(z, c)
           w  == [u EXCEPT !.stack = ForgetChunks(CollapseAtPath(@, p), c)]
           D  == {k \in DOMAIN w.pages : k[1] = c}
           v  == DroppingPages(w, c)
<1>1. StackOK(z) /\ z.frames = u.stack.frames /\ z.chunks = u.stack.chunks
  BY CollapseAtPathOK DEF UiOK, Keeps
<1>2. /\ w.stack = t /\ Has(w, UiFields) /\ w.pages = u.pages
      /\ w.highlighted = u.highlighted /\ w.focus = u.focus /\ w.opened = u.opened
      /\ w.expansions = u.expansions /\ w.nav = u.nav
  BY DEF UiOK, Has, UiFields
<1> HIDE DEF z
<1>3. StackOK(t) /\ t.frames = u.stack.frames /\ t.chunks = ch
  <2>1. \A x \in DOMAIN ch : IsChunks(ch[x])
    BY DEF UiOK, StackOK, Without, Restrict
  <2>2. t = [z EXCEPT !.chunks = ch]
    BY <1>1 DEF ForgetChunks
  <2> HIDE DEF ch, t
  <2> QED BY <1>1, <2>1, <2>2, WithChunks
<1> HIDE DEF t, ch
<1>4. Rest(u, w) /\ w.stack = t /\ w.pages = u.pages
  BY <1>2 DEF Rest
<1>5. v = [w EXCEPT !.pages = Without(@, D)]
  BY DEF DroppingPages
<1> HIDE DEF w, D
<1>6. Rest(u, v) /\ v.stack = t /\ v.pages = Without(u.pages, D)
  <2> HIDE DEF v
  <2> QED BY <1>4, <1>5 DEF Has, UiFields, Rest
<1> HIDE DEF v
<1>7. \A k \in D : k[1] = c
  BY DEF D
<1>8. Quiet(u, v)
  BY <1>3, <1>6, <1>7, QuietForgotten DEF ch
<1> QED BY <1>8 DEF v, w

\* t differs from s in the phase x of the chunk at o of the collection c.
ChunkSet(s, t, c, o, x) ==
    /\ StackOK(t) /\ t.frames = s.frames /\ DOMAIN t.chunks = DOMAIN s.chunks
    /\ \A y \in DOMAIN s.chunks : y # c => t.chunks[y] = s.chunks[y]
    /\ t.chunks[c].eager = s.chunks[c].eager
    /\ DOMAIN t.chunks[c].pages = DOMAIN s.chunks[c].pages \union {o}
    /\ t.chunks[c].pages[o] = x
    /\ \A y \in DOMAIN s.chunks[c].pages :
          y # o => t.chunks[c].pages[y] = s.chunks[c].pages[y]

\* The phase of a chunk is set.
LEMMA SetChunkOK ==
    ASSUME NEW s, StackOK(s), NEW c, c \in DOMAIN s.chunks, NEW o, o # 0, NEW x
    PROVE  ChunkSet(s, SetChunk(s, c, o, x), c, o, x)
<1> DEFINE r  == s.chunks[c]
           g  == Put(r.pages, o, x)
           q  == [r EXCEPT !.pages = g]
           ch == [s.chunks EXCEPT ![c] = q]
           t  == [s EXCEPT !.chunks = ch]
<1>1. IsChunks(r)
  BY DEF StackOK
<1>2. /\ DOMAIN g = DOMAIN r.pages \union {o} /\ g[o] = x
      /\ \A y \in DOMAIN r.pages : y # o => g[y] = r.pages[y]
  BY DEF Put
<1>3. SetChunk(s, c, o, x) = t
  BY DEF SetChunk, StackOK, IsStack, Has, StackFields
<1> HIDE DEF g
<1>4. IsChunks(q) /\ q.pages = g /\ q.eager = r.eager
  BY <1>1, <1>2 DEF IsChunks, Has
<1> HIDE DEF q
<1>5. /\ DOMAIN ch = DOMAIN s.chunks /\ ch[c] = q
      /\ \A y \in DOMAIN s.chunks : y # c => ch[y] = s.chunks[y]
  OBVIOUS
<1>6. \A y \in DOMAIN ch : IsChunks(ch[y])
  BY <1>4, <1>5 DEF StackOK
<1> HIDE DEF ch
<1>7. StackOK(t) /\ t.frames = s.frames /\ t.chunks = ch
  BY <1>6, WithChunks
<1> HIDE DEF t
<1> QED BY <1>2, <1>3, <1>4, <1>5, <1>7 DEF ChunkSet

\* All that is asked for in g is asked for in h, but for the page at o of c.
AllBut(g, h, c, o) ==
    \A x, y : <<x, y>> \in DOMAIN g /\ <<x, y>> # <<c, o>> => <<x, y>> \in DOMAIN h

\* A page arrives: it is no longer waited for.
LEMMA PageArrivedOK ==
    ASSUME NEW s, StackOK(s), NEW c, NEW o
    PROVE  LET t == PageArrived(s, c, o)
           IN  /\ StackOK(t) /\ t.frames = s.frames
               /\ \A g, h : Sources(s.chunks, g) /\ AllBut(g, h, c, o) => Sources(t.chunks, h)
<1> DEFINE t == PageArrived(s, c, o)
           r == s.chunks[c]
<1>1. CASE c \notin DOMAIN s.chunks
  <2>1. t = s
    BY <1>1 DEF PageArrived
  <2>2. ASSUME NEW g, NEW h, Sources(s.chunks, g),
               AllBut(g, h, c, o)
        PROVE  Sources(s.chunks, h)
    <3>1. \A x \in DOMAIN s.chunks : \A y : <<x, y>> # <<c, o>>
      BY <1>1
    <3> QED BY <2>2, <3>1 DEF Sources, AllBut
  <2> QED BY <2>1, <2>2
<1>2. CASE c \in DOMAIN s.chunks /\ o # 0
  <2>1. t = SetChunk(s, c, o, "Loaded")
    BY <1>2 DEF PageArrived
  <2> HIDE DEF t
  <2>2. /\ StackOK(t) /\ t.frames = s.frames /\ DOMAIN t.chunks = DOMAIN s.chunks
        /\ \A y \in DOMAIN s.chunks : y # c => t.chunks[y] = s.chunks[y]
        /\ t.chunks[c].eager = r.eager /\ DOMAIN t.chunks[c].pages = DOMAIN r.pages \union {o}
        /\ t.chunks[c].pages[o] = "Loaded"
        /\ \A y \in DOMAIN r.pages : y # o => t.chunks[c].pages[y] = r.pages[y]
    <3>1. ChunkSet(s, t, c, o, "Loaded")
      BY <1>2, <2>1, SetChunkOK
    <3> QED BY <3>1 DEF ChunkSet
  <2>3. ASSUME NEW g, NEW h, Sources(s.chunks, g),
               AllBut(g, h, c, o)
        PROVE  Sources(t.chunks, h)
    <3> SUFFICES ASSUME NEW y \in DOMAIN s.chunks
                 PROVE  /\ ~t.chunks[y].eager => <<y, 0>> \in DOMAIN h
                        /\ \A z \in DOMAIN t.chunks[y].pages :
                             t.chunks[y].pages[z] = "Loading" => <<y, z>> \in DOMAIN h
      BY <2>2 DEF Sources
    <3>1. CASE y = c
      <4>1. ~t.chunks[y].eager => <<y, 0>> \in DOMAIN h
        <5>1. <<c, 0>> # <<c, o>>
          BY <1>2
        <5> QED BY <1>2, <2>2, <2>3, <3>1, <5>1 DEF Sources, AllBut
      <4>2. ASSUME NEW z \in DOMAIN t.chunks[y].pages, t.chunks[y].pages[z] = "Loading"
            PROVE  <<y, z>> \in DOMAIN h
        <5>1. z # o
          BY <2>2, <3>1, <4>2
        <5>2. z \in DOMAIN r.pages /\ r.pages[z] = "Loading"
          BY <2>2, <3>1, <4>2, <5>1
        <5>3. <<c, z>> \in DOMAIN g
          BY <1>2, <2>3, <5>2 DEF Sources
        <5>4. <<c, z>> # <<c, o>>
          BY <5>1
        <5> QED BY <2>3, <3>1, <5>3, <5>4 DEF AllBut
      <4> QED BY <4>1, <4>2
    <3>2. CASE y # c
      <4>1. t.chunks[y] = s.chunks[y]
        BY <2>2, <3>2
      <4>2. \A z : <<y, z>> # <<c, o>>
        BY <3>2
      <4> QED BY <2>3, <4>1, <4>2 DEF Sources, AllBut
    <3> QED BY <3>1, <3>2
  <2> QED BY <2>2, <2>3 DEF t
<1>3. CASE c \in DOMAIN s.chunks /\ o = 0
  <2> DEFINE total == Len(Entries[c])
             first == [total |-> total, eager |-> TRUE, pages |-> Sections(total)]
             q     == IF r.total = 0 THEN first ELSE [r EXCEPT !.eager = TRUE]
             ch    == [s.chunks EXCEPT ![c] = q]
             z     == [s EXCEPT !.chunks = ch]
  <2>1. t = CollapseById(z, {c})
    BY <1>3 DEF PageArrived, StackOK, IsStack, Has, StackFields
  <2>2. IsChunks(r)
    BY <1>3 DEF StackOK
  <2>3. /\ IsChunks(q) /\ q.eager
        /\ \A x \in DOMAIN q.pages : q.pages[x] = "Loading" =>
              x \in DOMAIN r.pages /\ r.pages[x] = "Loading" /\ x # 0
    <3>1. IsChunks(first) /\ first.eager /\ first.pages = Sections(total)
      BY SectionsOK DEF IsChunks, Has
    <3>2. \A x \in DOMAIN first.pages : first.pages[x] = "Collapsed"
      BY <3>1, SectionsOK
    <3> DEFINE e == [r EXCEPT !.eager = TRUE]
    <3>3. IsChunks(e) /\ e.eager /\ e.pages = r.pages
      BY <2>2 DEF IsChunks, Has
    <3>4. q = first \/ q = e
      OBVIOUS
    <3>5. 0 \notin DOMAIN r.pages
      BY <2>2 DEF IsChunks
    <3> HIDE DEF first, e, q
    <3> QED BY <3>1, <3>2, <3>3, <3>4, <3>5
  <2> HIDE DEF q
  <2>4. /\ DOMAIN ch = DOMAIN s.chunks /\ ch[c] = q
        /\ \A y \in DOMAIN s.chunks : y # c => ch[y] = s.chunks[y]
    BY <1>3
  <2>5. \A y \in DOMAIN ch : IsChunks(ch[y])
    BY <2>3, <2>4 DEF StackOK
  <2> HIDE DEF ch
  <2>6. StackOK(z) /\ z.frames = s.frames /\ z.chunks = ch
    BY <2>5, WithChunks
  <2> HIDE DEF z, t
  <2>7. StackOK(t) /\ t.frames = s.frames /\ t.chunks = ch
    BY <2>1, <2>6, CollapseByIdOK DEF Keeps
  <2>8. ASSUME NEW g, NEW h, Sources(s.chunks, g),
               AllBut(g, h, c, o)
        PROVE  Sources(t.chunks, h)
    <3> SUFFICES ASSUME NEW y \in DOMAIN s.chunks
                 PROVE  /\ ~ch[y].eager => <<y, 0>> \in DOMAIN h
                        /\ \A x \in DOMAIN ch[y].pages :
                             ch[y].pages[x] = "Loading" => <<y, x>> \in DOMAIN h
      BY <2>4, <2>7 DEF Sources
    <3>1. CASE y = c
      <4>1. ASSUME NEW x \in DOMAIN ch[y].pages, ch[y].pages[x] = "Loading"
            PROVE  <<y, x>> \in DOMAIN h
        <5>1. x \in DOMAIN r.pages /\ r.pages[x] = "Loading" /\ x # o
          BY <1>3, <2>3, <2>4, <3>1, <4>1
        <5>2. <<c, x>> \in DOMAIN g
          BY <1>3, <2>8, <5>1 DEF Sources
        <5>3. <<c, x>> # <<c, o>>
          BY <5>1
        <5> QED BY <2>8, <3>1, <5>2, <5>3 DEF AllBut
      <4> QED BY <2>3, <2>4, <3>1, <4>1
    <3>2. CASE y # c
      <4>1. ch[y] = s.chunks[y]
        BY <2>4, <3>2
      <4>2. \A x : <<y, x>> # <<c, o>>
        BY <3>2
      <4> QED BY <2>8, <4>1, <4>2 DEF Sources, AllBut
    <3> QED BY <3>1, <3>2
  <2> QED BY <2>7, <2>8 DEF t
<1> QED BY <1>1, <1>2, <1>3

-----------------------------------------------------------------------------
(* Go to pin                                                               *)

\* The page of an entry is asked for.
LEMMA EnsureEntryOK ==
    ASSUME NEW u, UiOK(u), NEW c, NEW i
    PROVE  Quiet(u, EnsureEntry(u, c, i)) /\ EnsureEntry(u, c, i).nav = u.nav
<1> DEFINE fresh == [total |-> 0, eager |-> FALSE, pages |-> <<>>]
           ch    == Put(u.stack.chunks, c, fresh)
           s     == [u.stack EXCEPT !.chunks = ch]
           w     == [u EXCEPT !.stack.chunks = Put(@, c, fresh)]
           v     == LoadPage(w, c, 0)
           total  == u.stack.chunks[c].total
           holder == {o \in ChunkOffsets(total) : i \in o..(o + ChunkLimit(total, o) - 1)}
           k0     == <<c, 0>>
<1>1. CASE c \in DOMAIN u.stack.chunks
  <2>1. \/ EnsureEntry(u, c, i) = u
        \/ EnsureEntry(u, c, i) = LoadPage(u, c, 0)
        \/ EnsureEntry(u, c, i) = LoadPage(u, c, CHOOSE o \in holder : TRUE)
    BY <1>1 DEF EnsureEntry
  <2> HIDE DEF holder
  <2> QED BY <2>1, LoadPageOK, QuietSelf
<1>2. CASE c \notin DOMAIN u.stack.chunks
  <2>1. EnsureEntry(u, c, i) = v
    BY <1>2 DEF EnsureEntry
  <2>2. IsChunks(fresh) /\ \A x \in DOMAIN fresh.pages : FALSE
    <3>1. DOMAIN <<>> = {}
      OBVIOUS
    <3> QED BY <3>1 DEF IsChunks, Has
  <2> HIDE DEF fresh
  <2>3. /\ DOMAIN ch = DOMAIN u.stack.chunks \union {c} /\ ch[c] = fresh
        /\ \A y \in DOMAIN u.stack.chunks : ch[y] = u.stack.chunks[y]
    BY <1>2 DEF Put
  <2>4. \A y \in DOMAIN ch : IsChunks(ch[y])
    BY <2>2, <2>3 DEF UiOK, StackOK
  <2>5. /\ Rest(u, w) /\ w.stack = s /\ w.pages = u.pages
    BY DEF UiOK, StackOK, IsStack, Has, StackFields, UiFields, Rest
  <2> HIDE DEF ch, w
  <2>6. StackOK(s) /\ s.frames = u.stack.frames /\ s.chunks = ch
    BY <2>4, WithChunks DEF UiOK
  <2> HIDE DEF s
  <2>7. UiOK(w)
    BY <2>5, <2>6 DEF UiOK, Rest
  <2>8. /\ Quiet(w, v) /\ v.nav = w.nav /\ v.stack = s
        /\ DOMAIN v.pages = DOMAIN u.pages \union {k0}
    BY <2>5, <2>7, LoadPageOK
  <2> HIDE DEF v
  <2>9. UiOK(v) /\ Same(u, v) /\ v.nav = u.nav
    BY <2>5, <2>6, <2>8 DEF Quiet, Same, Rest
  <2>10. ASSUME Sourced(u)
         PROVE  Sourced(v)
    <3> SUFFICES ASSUME NEW y \in DOMAIN ch
                 PROVE  /\ ~ch[y].eager => <<y, 0>> \in DOMAIN v.pages
                        /\ \A o \in DOMAIN ch[y].pages :
                              ch[y].pages[o] = "Loading" => <<y, o>> \in DOMAIN v.pages
      BY <2>6, <2>8 DEF Sourced, Sources
    <3>1. CASE y = c
      BY <2>2, <2>3, <2>8, <3>1
    <3>2. CASE y # c
      <4>1. y \in DOMAIN u.stack.chunks /\ ch[y] = u.stack.chunks[y]
        BY <2>3, <3>2
      <4> QED BY <2>8, <2>10, <4>1 DEF Sourced, Sources
    <3> QED BY <3>1, <3>2
  <2>11. ASSUME Rooted(u)
         PROVE  Rooted(v)
    <3>1. \A p : Within(u.stack, p) => Within(s, p)
      BY <2>6, WithinSame
    <3>2. Rooted(w)
      BY <2>5, <2>11, <3>1 DEF Rooted, Rest
    <3> QED BY <2>8, <3>2 DEF Quiet
  <2>12. Quiet(u, v)
    BY <2>9, <2>10, <2>11 DEF Quiet
  <2> QED BY <2>1, <2>9, <2>12
<1> QED BY <1>1, <1>2

\* Opening a thread.
LEMMA OpenStackOK ==
    ASSUME NEW u, UiOK(u), NEW t \in Threads
    PROVE  LET v == OpenStack(u, t)
           IN  /\ UiOK(v) /\ v.opened = t /\ v.focus = "stack" /\ v.nav = u.nav
               /\ v.highlighted = IF t \in listed THEN t ELSE u.highlighted
               /\ u.opened = t => v.stack = u.stack
               /\ Sourced(u) => Sourced(v)
               /\ Rooted(u) => Rooted(v)
<1> DEFINE h == IF t \in listed THEN t ELSE u.highlighted
           w == [u EXCEPT !.highlighted = IF t \in listed THEN t ELSE @, !.focus = "stack"]
           s == NewStack(Frames[t])
           z == [w EXCEPT !.opened = t, !.stack = s, !.expansions = <<>>, !.pages = <<>>]
           v == OpenStack(u, t)
<1>1. v = IF u.opened = t THEN w ELSE z
  BY DEF OpenStack
<1> HIDE DEF v
<1>2. /\ Has(w, UiFields) /\ w.highlighted = h /\ w.focus = "stack"
      /\ w.opened = u.opened /\ w.stack = u.stack /\ w.nav = u.nav
      /\ w.expansions = u.expansions /\ w.pages = u.pages
  BY DEF UiOK, Has, UiFields
<1> HIDE DEF h, w
<1>3. /\ Has(z, UiFields) /\ z.highlighted = h /\ z.focus = "stack"
      /\ z.opened = t /\ z.stack = s /\ z.nav = u.nav
      /\ z.expansions = <<>> /\ z.pages = <<>>
  BY <1>2 DEF Has, UiFields
<1> HIDE DEF z, s
<1>4. CASE u.opened = t
  <2>1. UiOK(w) /\ (Sourced(u) => Sourced(w)) /\ (Rooted(u) => Rooted(w))
    BY <1>2 DEF UiOK, Sourced, Rooted
  <2> QED BY <1>1, <1>2, <1>4, <2>1 DEF v, h
<1>5. CASE u.opened # t
  <2>1. StackOK(s) /\ DOMAIN s.chunks = {}
    <3>1. IsSeq(Frames[t])
      BY ThreadAssumption DEF IsSeq, Threads
    <3> QED BY <3>1, NewStackOK DEF s
  <2>2. DOMAIN <<>> = {}
    OBVIOUS
  <2>3. UiOK(z) /\ Sourced(z) /\ Rooted(z)
    BY <1>3, <2>1, <2>2 DEF UiOK, PagesOK, Sourced, Sources, Rooted
  <2> QED BY <1>1, <1>3, <1>5, <2>3 DEF v, h
<1> QED BY <1>4, <1>5

WalkFields == {"ui", "path", "thread", "done", "steps", "prereq", "object", "over"}

\* What a walk that waits remembers is rooted as well.
NavRooted(u) ==
    Rooted(u) /\ (u.nav # NoNav /\ u.nav.done >= 1 => Within(u.stack, u.nav.orig))

\* Where a walk that began as b stands at w.
Going(b, w) ==
    /\ Has(w, WalkFields)
    /\ w.path = b.path /\ w.thread = b.thread /\ w.thread \in Threads /\ IsPath(w.path)
    /\ w.done \in 0..Len(w.path) /\ w.over \in BOOLEAN
    /\ UiOK(w.ui) /\ Same(b.ui, w.ui)
    /\ w.ui.nav # NoNav => w.over = TRUE /\ w.ui.nav.thread = w.thread
    /\ Sourced(b.ui) => Sourced(w.ui)
    /\ Rooted(b.ui) /\ (b.done >= 1 => Within(b.ui.stack, b.path)) =>
         NavRooted(w.ui) /\ (w.done >= 1 => Within(w.ui.stack, w.path))

\* The step was taken, or the walk is over.
Stepped(b, w, v) == Going(b, v) /\ (v.over = TRUE \/ v.done = w.done + 1)

\* The walk changes the application, quietly.
LEMMA GoingUi ==
    ASSUME NEW b, NEW w, Going(b, w), NEW u, UiOK(u), Same(w.ui, u), u.nav = w.ui.nav,
           Sourced(w.ui) => Sourced(u),
           Rooted(w.ui) /\ (w.done >= 1 => Within(w.ui.stack, w.path)) => Rooted(u)
    PROVE  /\ Going(b, [w EXCEPT !.ui = u])
           /\ [w EXCEPT !.ui = u].done = w.done /\ [w EXCEPT !.ui = u].over = w.over
           /\ [w EXCEPT !.ui = u].ui = u /\ [w EXCEPT !.ui = u].path = w.path
<1> DEFINE v == [w EXCEPT !.ui = u]
<1>1. /\ Has(v, WalkFields) /\ v.ui = u /\ v.path = w.path /\ v.thread = w.thread
      /\ v.done = w.done /\ v.over = w.over
  BY DEF Going, Has, WalkFields
<1> HIDE DEF v
<1>2. Same(b.ui, u)
  BY DEF Going, Same
<1>3. \A p : Within(w.ui.stack, p) => Within(u.stack, p)
  BY WithinSame DEF Same
<1>4. Going(b, v)
  BY <1>1, <1>2, <1>3 DEF Going, NavRooted
<1> QED BY <1>1, <1>4 DEF v

\* The same of a quiet change.
LEMMA GoingQuiet ==
    ASSUME NEW b, NEW w, Going(b, w), NEW u, Quiet(w.ui, u), u.nav = w.ui.nav
    PROVE  /\ Going(b, [w EXCEPT !.ui = u])
           /\ [w EXCEPT !.ui = u].done = w.done /\ [w EXCEPT !.ui = u].over = w.over
           /\ [w EXCEPT !.ui = u].ui = u /\ [w EXCEPT !.ui = u].path = w.path
BY GoingUi DEF Quiet

\* The cursor is put on what is done of the path.
LEMMA PlacedOK ==
    ASSUME NEW b, NEW w, Going(b, w)
    PROVE  Going(b, Placed(w)) /\ Placed(w).done = w.done /\ Placed(w).over = w.over
<1> DEFINE s == PositionCursor(w.ui.stack, Done(w))
           u == [w.ui EXCEPT !.stack = s]
<1>1. Keeps(w.ui.stack, s) /\ UiOK(w.ui)
  BY PositionCursorOK DEF Going, UiOK
<1>2. Quiet(w.ui, u) /\ u.nav = w.ui.nav
  <2>1. u.nav = w.ui.nav
    BY <1>1 DEF UiOK, Has, UiFields
  <2> HIDE DEF s
  <2>2. Quiet(w.ui, u)
    BY <1>1, QuietStack
  <2> QED BY <2>1, <2>2
<1>3. Placed(w) = [w EXCEPT !.ui = u]
  BY DEF Placed, Going, Has, WalkFields
<1> HIDE DEF u
<1> QED BY <1>2, <1>3, GoingQuiet

\* The walk ends on what is not there.
LEMMA BrokenOK ==
    ASSUME NEW b, NEW w, Going(b, w), w.ui.nav = NoNav
    PROVE  Stepped(b, w, Broken(w))
<1> DEFINE v == Broken(w)
<1>1. /\ Has(v, WalkFields) /\ v.ui = w.ui /\ v.path = w.path /\ v.thread = w.thread
      /\ v.done = w.done /\ v.over = TRUE
  BY DEF Broken, Going, Has, WalkFields
<1> HIDE DEF v
<1>2. Going(b, v)
  BY <1>1 DEF Going
<1> QED BY <1>1, <1>2 DEF Stepped, v

\* The walk is to be resumed.
LEMMA DeferredOK ==
    ASSUME NEW b, NEW w, Going(b, w), NEW a
    PROVE  /\ Stepped(b, w, Deferred(w, a)) /\ Stepped(b, w, Placed(Deferred(w, a)))
<1> DEFINE n == [orig |-> w.path, thread |-> w.thread, done |-> w.done,
                 awaited |-> a, prereq |-> w.prereq]
           u == [w.ui EXCEPT !.nav = n, !.spinner = "NavigatingToPin"]
           v == Deferred(w, a)
<1>1. /\ Has(v, WalkFields) /\ v.ui = u /\ v.path = w.path /\ v.thread = w.thread
      /\ v.done = w.done /\ v.over = TRUE
  BY DEF Deferred, Going, Has, WalkFields, UiOK, UiFields
<1>2. /\ Has(u, UiFields) /\ u.stack = w.ui.stack /\ u.highlighted = w.ui.highlighted
      /\ u.focus = w.ui.focus /\ u.opened = w.ui.opened /\ u.nav = n
      /\ u.expansions = w.ui.expansions /\ u.pages = w.ui.pages
  BY DEF Going, Has, UiOK, UiFields
<1>3. n.orig = w.path /\ n.thread = w.thread /\ n.done = w.done
  OBVIOUS
<1> HIDE DEF v, u, n
<1>4. NavOK(n)
  BY <1>3 DEF Going, NavOK
<1>5. UiOK(u) /\ Same(b.ui, u)
  BY <1>2, <1>4 DEF Going, UiOK, Same
<1>6. Sourced(b.ui) => Sourced(u)
  BY <1>2 DEF Going, Sourced
<1>7. ASSUME Rooted(b.ui) /\ (b.done >= 1 => Within(b.ui.stack, b.path))
      PROVE  NavRooted(u) /\ (v.done >= 1 => Within(u.stack, v.path))
  <2>1. NavRooted(w.ui) /\ (w.done >= 1 => Within(w.ui.stack, w.path))
    BY <1>7 DEF Going
  <2>2. Rooted(u)
    BY <1>2, <2>1 DEF NavRooted, Rooted
  <2> QED BY <1>1, <1>2, <1>3, <2>1, <2>2 DEF NavRooted
<1>8. Going(b, v)
  BY <1>1, <1>2, <1>3, <1>5, <1>6, <1>7 DEF Going
<1>9. Going(b, Placed(v)) /\ Placed(v).over = TRUE
  BY <1>1, <1>8, PlacedOK
<1> QED BY <1>1, <1>8, <1>9 DEF Stepped, v

\* The walk goes a segment further.
LEMMA AdvancedOK ==
    ASSUME NEW b, NEW w, Going(b, w), w.done < Len(w.path), NEW o,
           w.done = 0 => Within(w.ui.stack, w.path)
    PROVE  Stepped(b, w, Advanced(w, o))
<1> DEFINE z == [w EXCEPT !.done = @ + 1, !.steps = @ + 1, !.object = o]
<1>1. Advanced(w, o) = Placed(z)
  BY DEF Advanced
<1>2. /\ Has(z, WalkFields) /\ z.ui = w.ui /\ z.path = w.path /\ z.thread = w.thread
      /\ z.done = w.done + 1 /\ z.over = w.over
  BY DEF Going, Has, WalkFields
<1> HIDE DEF z
<1>3. w.done + 1 \in 0..Len(w.path) /\ (w.done = 0 \/ w.done >= 1)
  BY PathParts DEF Going
<1>4. Going(b, z)
  BY <1>2, <1>3 DEF Going
<1>5. Going(b, Placed(z)) /\ Placed(z).done = w.done + 1
  BY <1>2, <1>4, PlacedOK
<1> QED BY <1>1, <1>5 DEF Stepped

\* A frame of the path.
LEMMA WalkFrameOK ==
    ASSUME NEW b, NEW w, Going(b, w), w.over = FALSE, w.done < Len(w.path),
           w.path[w.done + 1][1] = "frame"
    PROVE  Stepped(b, w, WalkFrame(w, w.path[w.done + 1][2]))
<1> DEFINE f == w.path[w.done + 1][2]
           s == IF f \in w.ui.stack.expanded THEN w.ui.stack ELSE ExpandFrame(w.ui.stack, f)
           u == [w.ui EXCEPT !.stack = s]
           v == [w EXCEPT !.ui = u]
<1>1. CASE f \notin Range(w.ui.stack.frames)
  <2>1. WalkFrame(w, f) = Broken(w)
    BY <1>1 DEF WalkFrame
  <2>2. w.ui.nav = NoNav
    BY DEF Going
  <2> HIDE DEF f
  <2>3. Stepped(b, w, WalkFrame(w, f))
    BY <2>1, <2>2, BrokenOK
  <2> QED BY <2>3 DEF f
<1>2. CASE f \in Range(w.ui.stack.frames)
  <2>1. WalkFrame(w, f) = Advanced(v, NoId)
    BY <1>2 DEF WalkFrame, Going, Has, WalkFields, UiOK, UiFields
  <2>2. Keeps(w.ui.stack, s) /\ UiOK(w.ui)
    BY ExpandFrameOK DEF Going, UiOK, Keeps
  <2>3. w.done = 0 => Within(w.ui.stack, w.path)
    <3>1. w.done = 0 => w.path[1] = FrameSeg(f)
      BY PathParts DEF Going
    <3> QED BY <1>2, <3>1 DEF Within
  <2> HIDE DEF s, f
  <2>4. Quiet(w.ui, u) /\ u.nav = w.ui.nav /\ u.stack = s
    <3>1. u.nav = w.ui.nav /\ u.stack = s
      BY <2>2 DEF UiOK, Has, UiFields
    <3> QED BY <2>2, <3>1, QuietStack
  <2> HIDE DEF u
  <2>5. Going(b, v) /\ v.done = w.done /\ v.ui = u /\ v.path = w.path
    BY <2>4, GoingQuiet
  <2> HIDE DEF v
  <2>6. v.done = 0 => Within(v.ui.stack, v.path)
    BY <2>2, <2>3, <2>4, <2>5, WithinSame DEF Keeps
  <2>7. Stepped(b, v, Advanced(v, NoId))
    BY <2>5, <2>6, AdvancedOK
  <2> QED BY <2>1, <2>5, <2>7 DEF Stepped, f
<1> QED BY <1>1, <1>2

\* What is done of a path of which something is done.
LEMMA DoneOK ==
    ASSUME NEW b, NEW w, Going(b, w), w.done >= 1
    PROVE  IsPath(Done(w)) /\ (Within(w.ui.stack, w.path) => Within(w.ui.stack, Done(w)))
<1>1. w.done \in 1..Len(w.path) /\ IsPath(w.path)
  BY PathParts DEF Going
<1>2. IsPath(Done(w)) /\ Done(w)[1] = w.path[1]
  BY <1>1, PathPrefix DEF Done
<1> QED BY <1>2 DEF Within

\* A field of the object reached.
LEMMA WalkMemberOK ==
    ASSUME NEW b, NEW w, Going(b, w), w.over = FALSE, w.done < Len(w.path),
           w.done >= 1, NEW seg
    PROVE  Stepped(b, w, WalkMember(w, seg))
<1> DEFINE u == StartExpansion(w.ui, w.object, Done(w))
           v == [w EXCEPT !.ui = u]
           z == [w EXCEPT !.prereq = @ \union {Done(w)}]
           o == PathStep(w.ui.stack, w.object, seg)
           a == <<"object", w.object>>
<1>0. w.ui.nav = NoNav /\ UiOK(w.ui) /\ Has(w, WalkFields)
  BY DEF Going
<1>1. IsPath(Done(w)) /\ (Within(w.ui.stack, w.path) => Within(w.ui.stack, Done(w)))
  BY DoneOK
<1>2. Stepped(b, w, Placed(Deferred(v, a)))
  <2>1. /\ UiOK(u) /\ Same(w.ui, u) /\ u.nav = w.ui.nav /\ u.stack = w.ui.stack
        /\ Sourced(w.ui) => Sourced(u)
        /\ Rooted(w.ui) /\ Within(w.ui.stack, Done(w)) => Rooted(u)
    BY <1>0, <1>1, StartExpansionOK
  <2> HIDE DEF u
  <2>2. Rooted(w.ui) /\ (w.done >= 1 => Within(w.ui.stack, w.path)) => Rooted(u)
    BY <1>1, <2>1
  <2>3. Going(b, v) /\ v.done = w.done
    BY <2>1, <2>2, GoingUi
  <2> HIDE DEF v, a
  <2>4. Stepped(b, v, Placed(Deferred(v, a)))
    BY <2>3, DeferredOK
  <2> QED BY <2>3, <2>4 DEF Stepped
<1>3. Stepped(b, w, Advanced(z, o))
  <2>1. /\ Has(z, WalkFields) /\ z.ui = w.ui /\ z.path = w.path /\ z.thread = w.thread
        /\ z.done = w.done /\ z.over = w.over
    BY <1>0 DEF Has, WalkFields
  <2> HIDE DEF z, o
  <2>2. Going(b, z)
    BY <2>1 DEF Going
  <2>3. Stepped(b, z, Advanced(z, o))
    BY <2>1, <2>2, AdvancedOK
  <2> QED BY <2>1, <2>3 DEF Stepped
<1>4. Stepped(b, w, Broken(w))
  BY <1>0, BrokenOK
<1>5. \/ WalkMember(w, seg) = Broken(w)
      \/ WalkMember(w, seg) = Placed(Deferred(v, a))
      \/ WalkMember(w, seg) = Advanced(z, o)
  BY DEF WalkMember
<1> QED BY <1>2, <1>3, <1>4, <1>5

\* An entry of a collection.
LEMMA WalkEntryOK ==
    ASSUME NEW b, NEW w, Going(b, w), w.over = FALSE, w.done < Len(w.path),
           w.done >= 1, NEW seg
    PROVE  Stepped(b, w, WalkEntry(w, seg))
<1> DEFINE s == SetPhase(w.ui.stack, Done(w), "Expanded")
           u == [w.ui EXCEPT !.stack = s]
           v == [w EXCEPT !.ui = u]
           x == EnsureEntry(v.ui, seg[2], seg[3])
           y == [v EXCEPT !.ui = x]
           o == PathStep(v.ui.stack, v.object, seg)
           a == <<"page", seg[2]>>
<1>0. w.ui.nav = NoNav /\ UiOK(w.ui) /\ Has(w, WalkFields)
  BY DEF Going
<1>1. \/ WalkEntry(w, seg) = Advanced(v, o)
      \/ WalkEntry(w, seg) = Placed(Deferred(y, a))
  <2>1. v = [w EXCEPT !.ui.stack = SetPhase(@, Done(w), "Expanded")]
    BY <1>0 DEF Has, WalkFields, UiOK, UiFields
  <2> HIDE DEF v
  <2> QED BY <2>1 DEF WalkEntry
<1>2. IsPath(Done(w))
  BY DoneOK
<1>3. Keeps(w.ui.stack, s)
  BY <1>0, <1>2, SetPhaseOK DEF UiOK
<1> HIDE DEF s
<1>4. u.nav = w.ui.nav /\ Quiet(w.ui, u)
  <2>1. u.nav = w.ui.nav
    BY <1>0 DEF UiOK, Has, UiFields
  <2> QED BY <1>0, <1>3, <2>1, QuietStack
<1> HIDE DEF u
<1>5. Going(b, v) /\ v.done = w.done /\ v.over = w.over /\ v.ui = u /\ v.path = w.path
  BY <1>4, GoingQuiet
<1> HIDE DEF v
<1>6. Stepped(b, w, Advanced(v, o))
  <2> HIDE DEF o
  <2>1. Stepped(b, v, Advanced(v, o))
    BY <1>5, AdvancedOK
  <2> QED BY <1>5, <2>1 DEF Stepped
<1>7. Stepped(b, w, Placed(Deferred(y, a)))
  <2>1. Quiet(v.ui, x) /\ x.nav = v.ui.nav
    BY <1>4, <1>5, EnsureEntryOK DEF Quiet
  <2> HIDE DEF x
  <2>2. Going(b, y) /\ y.done = w.done
    BY <1>5, <2>1, GoingQuiet
  <2> HIDE DEF y, a
  <2>3. Stepped(b, y, Placed(Deferred(y, a)))
    BY <2>2, DeferredOK
  <2> QED BY <2>2, <2>3 DEF Stepped
<1> QED BY <1>1, <1>6, <1>7

\* One step of a walk.
LEMMA WalkStepOK ==
    ASSUME NEW b, NEW w, Going(b, w), w.over = FALSE => w.done < Len(w.path),
           NEW seg, w.over = FALSE => seg = w.path[w.done + 1]
    PROVE  Stepped(b, w, WalkStep(w, seg))
<1>1. CASE w.over = TRUE
  <2>1. WalkStep(w, seg) = w
    BY <1>1 DEF WalkStep
  <2> QED BY <1>1, <2>1 DEF Stepped
<1>2. CASE w.over = FALSE
  <2>1. CASE w.steps >= StepCap
    <3>1. WalkStep(w, seg) = Deferred(w, <<"continue">>)
      BY <1>2, <2>1 DEF WalkStep
    <3> QED BY <3>1, DeferredOK
  <2>2. CASE ~(w.steps >= StepCap)
    <3>1. seg = w.path[w.done + 1] /\ w.done < Len(w.path)
      BY <1>2
    <3>2. w.done \in Nat /\ (w.done = 0 \/ w.done >= 1) /\ w.done + 1 \in 1..Len(w.path)
      BY <3>1, PathParts DEF Going
    <3>3. seg[1] \in SegKinds /\ (w.done = 0 => seg[1] = "frame")
      BY <3>1, <3>2, PathParts DEF Going
    <3>4. CASE seg[1] = "frame"
      <4>1. WalkStep(w, seg) = WalkFrame(w, seg[2])
        BY <1>2, <2>2, <3>4 DEF WalkStep
      <4> QED BY <1>2, <3>1, <3>4, <4>1, WalkFrameOK
    <3>5. CASE seg[1] = "var"
      <4>1. WalkStep(w, seg) = Advanced(w, RootOf(w.ui.stack, w.path))
        BY <1>2, <2>2, <3>5 DEF WalkStep
      <4> QED BY <3>1, <3>2, <3>3, <3>5, <4>1, AdvancedOK
    <3>6. CASE seg[1] \in {"field", "static"}
      <4>1. WalkStep(w, seg) = WalkMember(w, seg)
        BY <1>2, <2>2, <3>6 DEF WalkStep
      <4> QED BY <1>2, <3>1, <3>2, <3>3, <3>6, <4>1, WalkMemberOK
    <3>7. CASE seg[1] = "entry"
      <4>1. WalkStep(w, seg) = WalkEntry(w, seg)
        BY <1>2, <2>2, <3>7 DEF WalkStep
      <4> QED BY <1>2, <3>1, <3>2, <3>3, <3>7, <4>1, WalkEntryOK
    <3> QED BY <3>3, <3>4, <3>5, <3>6, <3>7 DEF SegKinds
  <2> QED BY <2>1, <2>2
<1> QED BY <1>1, <1>2 DEF Going

\* The whole walk.
LEMMA WalkedOK ==
    ASSUME NEW b, Going(b, b), b.over = FALSE
    PROVE  Going(b, FoldLeft(WalkStep, b, SubSeq(b.path, b.done + 1, Len(b.path))))
<1> DEFINE s == SubSeq(b.path, b.done + 1, Len(b.path))
           n == Len(b.path) - b.done
<1>1. /\ Len(b.path) \in Nat /\ DOMAIN b.path = 1..Len(b.path)
      /\ b.done \in 0..Len(b.path) /\ b.path \in Seq(Range(b.path))
  BY PathParts DEF Going, IsPath, IsSeq
<1>2. n \in Nat /\ DOMAIN s = 1..n /\ \A i \in 1..n : s[i] = b.path[b.done + i]
  <2> DEFINE S == Range(b.path)
  <2>1. b.path \in Seq(S)
    BY <1>1
  <2> HIDE DEF S
  <2>2. /\ s \in Seq(S)
        /\ Len(s) = IF b.done + 1 <= Len(b.path) THEN Len(b.path) - (b.done + 1) + 1 ELSE 0
        /\ \A i \in 1..(Len(b.path) - (b.done + 1) + 1) : s[i] = b.path[b.done + 1 + i - 1]
    BY <1>1, <2>1, SubSeqProperties
  <2> HIDE DEF s
  <2>3. Len(s) = n /\ n \in Nat
    BY ONLY <1>1, <2>2
  <2>4. \A i \in 1..n : s[i] = b.path[b.done + i]
    <3> SUFFICES ASSUME NEW i \in 1..n
                 PROVE  s[i] = b.path[b.done + i]
      OBVIOUS
    <3>1. b.done + 1 + i - 1 = b.done + i /\ i \in 1..(Len(b.path) - (b.done + 1) + 1)
      BY <1>1
    <3> QED BY <2>2, <3>1
  <2> QED BY <2>2, <2>3, <2>4
<1> HIDE DEF s, n
<1>3. PICK v : Walks!Passes(b, s, n, v)
  BY <1>2, Walks!FoldSteps
<1>4. /\ v[0] = b /\ \A i \in 1..n : v[i] = WalkStep(v[i - 1], s[i])
      /\ Walks!Fold(b, s) = v[n]
  BY <1>3 DEF Walks!Passes
<1>5. FoldLeft(WalkStep, b, s) = v[n]
  BY <1>4 DEF Walks!Fold, FoldLeft, Walks!FoldLeft, MapThenFoldSet,
              Walks!MapThenFoldSet, Max, Walks!Max
<1> DEFINE E == {i \in 0..n : Going(b, v[i]) /\ (v[i].over = TRUE \/ v[i].done = b.done + i)}
<1>6. 0 \in E
  BY <1>1, <1>2, <1>4
<1>7. \A i \in 0..(n - 1) : i \in E => i + 1 \in E
  <2> SUFFICES ASSUME NEW i \in 0..(n - 1), i \in E
               PROVE  i + 1 \in E
    OBVIOUS
  <2> DEFINE w == v[i]
  <2>1. Going(b, w) /\ (w.over = TRUE \/ w.done = b.done + i)
    OBVIOUS
  <2>2. i + 1 \in 1..n /\ (i + 1) - 1 = i /\ i + 1 \in 0..n
    BY <1>2
  <2>3. v[i + 1] = WalkStep(w, s[i + 1])
    BY <1>4, <2>2
  <2>4. s[i + 1] = b.path[b.done + (i + 1)] /\ w.path = b.path
    BY <1>2, <2>1, <2>2 DEF Going
  <2>5. /\ w.over = FALSE => w.done < Len(w.path)
        /\ w.over = FALSE => s[i + 1] = w.path[w.done + 1]
    <3>1. b.done + (i + 1) = b.done + i + 1 /\ b.done + i < Len(b.path)
      BY <1>1, <2>2 DEF n
    <3> QED BY <2>1, <2>4, <3>1
  <2> HIDE DEF E, w
  <2>6. Stepped(b, w, WalkStep(w, s[i + 1]))
    BY <2>1, <2>5, WalkStepOK
  <2>7. Going(b, v[i + 1]) /\ (v[i + 1].over = TRUE \/ v[i + 1].done = b.done + (i + 1))
    <3>1. Going(b, v[i + 1]) /\ (v[i + 1].over = TRUE \/ v[i + 1].done = w.done + 1)
      BY <2>3, <2>6 DEF Stepped
    <3>2. CASE w.over = TRUE
      <4>1. v[i + 1] = w
        BY <2>3, <3>2 DEF WalkStep
      <4> QED BY <3>1, <3>2, <4>1
    <3>3. CASE w.done = b.done + i
      <4>1. w.done + 1 = b.done + (i + 1)
        BY <1>1, <3>3
      <4> QED BY <3>1, <4>1
    <3> QED BY <2>1, <3>2, <3>3
  <2> QED BY <2>2, <2>7 DEF E
<1>8. Going(b, v[n])
  <2>1. 0..n \subseteq E
    <3> HIDE DEF E
    <3> QED BY <1>2, <1>6, <1>7, StepInduction
  <2> QED BY <1>2, <2>1
<1> QED BY <1>5, <1>8 DEF s

\* Whether the walk has to open the stack of its thread.
WalkBase(u, t) ==
    IF SelectedThread(u) # t \/ u.opened = NoThread THEN OpenStack(u, t) ELSE u

\* What a walk for the thread t makes of u: v is the application with the thread opened.
Walked(v, t, path, done, r) ==
    /\ UiOK(r) /\ Same(v, r)
    /\ r.nav = NoNav \/ r.nav.thread = t
    /\ Sourced(v) => Sourced(r)
    /\ Rooted(v) /\ (done >= 1 => Within(v.stack, path)) => NavRooted(r)

\* A walk from u.
LEMMA NavigateOK ==
    ASSUME NEW u, UiOK(u), u.nav = NoNav, NEW t \in Threads, NEW path, IsPath(path),
           NEW done \in 0..Len(path)
    PROVE  /\ UiOK(WalkBase(u, t))
           /\ Walked(WalkBase(u, t), t, path, done, NavigateWalk(u, t, path, done))
<1> DEFINE v == WalkBase(u, t)
           o == PathEnd(v.stack, Prefix(path, done))
           b == [ui |-> v, path |-> path, thread |-> t, done |-> done, steps |-> 0,
                 prereq |-> {}, object |-> o, over |-> FALSE]
           w == FoldLeft(WalkStep, b, SubSeq(path, done + 1, Len(path)))
           r == NavigateWalk(u, t, path, done)
<1>1. r = Arrived(w)
  BY DEF NavigateWalk, WalkBase
<1> HIDE DEF r
<1>2. UiOK(v) /\ v.nav = NoNav
  BY OpenStackOK DEF WalkBase
<1> HIDE DEF v, o
<1>3. Going(b, b)
  <2>1. /\ Has(b, WalkFields) /\ b.ui = v /\ b.path = path /\ b.thread = t
        /\ b.done = done /\ b.over = FALSE
    BY DEF Has, WalkFields
  <2>2. Same(v, v)
    BY DEF Same
  <2> HIDE DEF b
  <2> QED BY <1>2, <2>1, <2>2 DEF Going, NavRooted
<1>4. b.over = FALSE /\ b.path = path /\ b.done = done /\ b.ui = v
  OBVIOUS
<1> HIDE DEF b
<1>5. Going(b, w)
  <2>1. Going(b, FoldLeft(WalkStep, b, SubSeq(b.path, b.done + 1, Len(b.path))))
    BY <1>3, <1>4, WalkedOK
  <2> QED BY <1>4, <2>1
<1>6. b.thread = t /\ w.thread = b.thread
  BY <1>5 DEF b, Going
<1> HIDE DEF w
<1>7. CASE w.ui.nav # NoNav
  <2>1. r = w.ui
    BY <1>1, <1>7 DEF Arrived
  <2> QED BY <1>2, <1>4, <1>5, <1>6, <2>1 DEF Walked, Going, r, v
<1>8. CASE w.ui.nav = NoNav
  <2> DEFINE z == Placed(w)
  <2>1. r = [z.ui EXCEPT !.spinner = "Idle"]
    BY <1>1, <1>8 DEF Arrived
  <2>2. Going(b, z)
    BY <1>5, PlacedOK
  <2>3. z.ui.nav = NoNav
    BY <1>5, <1>8 DEF Placed, Going, Has, WalkFields, UiOK, UiFields
  <2> HIDE DEF z
  <2>4. /\ Has(r, UiFields) /\ r.stack = z.ui.stack /\ r.highlighted = z.ui.highlighted
        /\ r.focus = z.ui.focus /\ r.opened = z.ui.opened /\ r.nav = NoNav
        /\ r.expansions = z.ui.expansions /\ r.pages = z.ui.pages
    BY <2>1, <2>2, <2>3 DEF Going, UiOK, Has, UiFields
  <2>5. UiOK(r) /\ Same(v, r)
    BY <1>4, <2>2, <2>4 DEF Going, UiOK, Same, NavOK
  <2>6. (Sourced(v) => Sourced(r))
    BY <1>4, <2>2, <2>4 DEF Going, Sourced
  <2>7. Rooted(v) /\ (done >= 1 => Within(v.stack, path)) => NavRooted(r)
    <3>1. Rooted(v) /\ (done >= 1 => Within(v.stack, path)) => NavRooted(z.ui)
      BY <1>4, <2>2 DEF Going
    <3>2. Rooted(z.ui) => Rooted(r)
      BY <2>4 DEF Rooted
    <3> QED BY <2>4, <3>1, <3>2 DEF NavRooted
  <2> QED BY <1>2, <2>4, <2>5, <2>6, <2>7 DEF Walked, r, v
<1> QED BY <1>7, <1>8

\* A walk that had to wait goes on.
LEMMA ResumeOK ==
    ASSUME NEW u, UiOK(u), u.nav # NoNav
    PROVE  LET z == [u EXCEPT !.nav = NoNav]
               v == WalkBase(z, u.nav.thread)
           IN  /\ UiOK(z) /\ Same(u, z) /\ z.stack = u.stack /\ z.nav = NoNav
               /\ u.nav.thread \in Threads
               /\ Sourced(u) => Sourced(z)
               /\ Rooted(u) => Rooted(z)
               /\ UiOK(v)
               /\ \E done \in 0..u.nav.done :
                     Walked(v, u.nav.thread, u.nav.orig, done, Resume(u))
<1> DEFINE z == [u EXCEPT !.nav = NoNav]
           t == u.nav.thread
           v == WalkBase(z, t)
           stale == \E p \in u.nav.prereq : Phase(u.stack, p) # "Expanded"
           done  == IF stale THEN 0 ELSE u.nav.done
<1>1. /\ Has(z, UiFields) /\ z.stack = u.stack /\ z.highlighted = u.highlighted
      /\ z.focus = u.focus /\ z.opened = u.opened /\ z.nav = NoNav
      /\ z.expansions = u.expansions /\ z.pages = u.pages
  BY DEF UiOK, Has, UiFields
<1>2. Resume(u) = NavigateWalk(z, t, u.nav.orig, done)
  BY DEF Resume
<1> HIDE DEF z
<1>3. UiOK(z) /\ Same(u, z) /\ (Sourced(u) => Sourced(z)) /\ (Rooted(u) => Rooted(z))
  BY <1>1 DEF UiOK, Same, NavOK, Sourced, Rooted
<1>4. t \in Threads /\ IsPath(u.nav.orig) /\ u.nav.done \in 0..Len(u.nav.orig)
  BY DEF UiOK, NavOK
<1>5. done \in 0..Len(u.nav.orig) /\ done \in 0..u.nav.done
  BY <1>4, PathParts
<1> HIDE DEF t, done
<1>6. UiOK(v) /\ Walked(v, t, u.nav.orig, done, Resume(u))
  BY <1>1, <1>2, <1>3, <1>4, <1>5, NavigateOK
<1> HIDE DEF v
<1>7. \E d \in 0..u.nav.done : Walked(v, t, u.nav.orig, d, Resume(u))
  BY <1>5, <1>6
<1> QED BY <1>1, <1>3, <1>4, <1>6, <1>7 DEF z, t, v

-----------------------------------------------------------------------------
(* What each handler does to the stack's work                              *)

\* Quiet, but for the sources of the collections.
Calm(u, v) ==
    /\ UiOK(v) /\ Same(u, v)
    /\ v.nav = u.nav \/ v.nav = NoNav
    /\ Rooted(u) => Rooted(v)

\* Only the spinner differs.
LEMMA QuietSpinner ==
    ASSUME NEW u, UiOK(u), NEW x
    PROVE  Quiet(u, [u EXCEPT !.spinner = x])
<1> DEFINE v == [u EXCEPT !.spinner = x]
<1>1. /\ Has(v, UiFields) /\ v.stack = u.stack /\ v.highlighted = u.highlighted
      /\ v.focus = u.focus /\ v.opened = u.opened /\ v.nav = u.nav
      /\ v.expansions = u.expansions /\ v.pages = u.pages
  BY DEF UiOK, Has, UiFields
<1> HIDE DEF v
<1>2. UiOK(v) /\ Same(u, v)
  BY <1>1 DEF UiOK, Same
<1>3. (Sourced(u) => Sourced(v)) /\ (Rooted(u) => Rooted(v))
  BY <1>1 DEF Sourced, Rooted
<1>4. Quiet(u, v)
  BY <1>1, <1>2, <1>3 DEF Quiet
<1> QED BY <1>4 DEF v

\* The row under the cursor is a row of the stack.
LEMMA CursorRow ==
    ASSUME NEW s, StackOK(s), s.cursor.kind # "noframes"
    PROVE  IsPath(s.cursor.path) /\ Within(s, s.cursor.path)
BY DEF StackOK, IsRow

\* An expansion is taken from the pending ones.
LEMMA QuietTaken ==
    ASSUME NEW u, UiOK(u), NEW p
    PROVE  Quiet(u, [u EXCEPT !.expansions = Without(@, {p})])
<1> DEFINE e == Without(u.expansions, {p})
<1>1. DOMAIN e \subseteq DOMAIN u.expansions
  BY DEF Without, Restrict
<1> HIDE DEF e
<1>2. Quiet(u, [u EXCEPT !.expansions = e])
  BY <1>1, QuietLess
<1> QED BY <1>2 DEF e

\* It is answered, and shown.
LEMMA QuietShown ==
    ASSUME NEW u, UiOK(u), NEW p, IsPath(p), NEW o
    PROVE  Quiet(u, [[u EXCEPT !.expansions = Without(@, {p})]
                        EXCEPT !.stack = ExpansionDone(@, p, o)])
<1> DEFINE v == [u EXCEPT !.expansions = Without(@, {p})]
           s == ExpansionDone(v.stack, p, o)
<1>1. Quiet(u, v)
  BY QuietTaken
<1> HIDE DEF v
<1>2. UiOK(v)
  BY <1>1 DEF Quiet
<1>3. Keeps(v.stack, s)
  BY <1>2, ExpansionDoneOK DEF UiOK
<1>4. Quiet(v, [v EXCEPT !.stack = ExpansionDone(@, p, o)])
  <2> HIDE DEF s
  <2>1. Quiet(v, [v EXCEPT !.stack = s])
    BY <1>2, <1>3, QuietStack
  <2> QED BY <2>1 DEF s
<1>5. Quiet(u, [v EXCEPT !.stack = ExpansionDone(@, p, o)])
  BY <1>1, <1>4, QuietTwice
<1> QED BY <1>5 DEF v

\* It fails.
LEMMA QuietUnshown ==
    ASSUME NEW u, UiOK(u), NEW p, IsPath(p), NEW o
    PROVE  Quiet(u, [u EXCEPT !.expansions = Without(@, {p}),
                              !.stack      = ExpansionFailed(@, p, o)])
<1> DEFINE v == [u EXCEPT !.expansions = Without(@, {p})]
           s == ExpansionFailed(u.stack, p, o)
           w == [u EXCEPT !.expansions = Without(@, {p}), !.stack = ExpansionFailed(@, p, o)]
<1>1. w = [v EXCEPT !.stack = s]
  BY DEF UiOK, Has, UiFields
<1>2. Quiet(u, v)
  BY QuietTaken
<1>3. v.stack = u.stack
  BY DEF UiOK, Has, UiFields
<1> HIDE DEF v, w
<1>4. Keeps(v.stack, s)
  BY <1>3, ExpansionFailedOK DEF UiOK
<1> HIDE DEF s
<1>5. Quiet(v, w)
  BY <1>1, <1>2, <1>4, QuietStack DEF Quiet
<1>6. Quiet(u, w)
  BY <1>2, <1>5, QuietTwice
<1> QED BY <1>6 DEF w

\* The row says that it loads.
LEMMA QuietLoading ==
    ASSUME NEW u, UiOK(u), NEW p \in DOMAIN u.expansions
    PROVE  Quiet(u, [u EXCEPT !.stack = SetPhase(@, p, "Loading"),
                              !.expansions[p].shown = TRUE])
<1> DEFINE s == SetPhase(u.stack, p, "Loading")
           e == [u.expansions EXCEPT ![p].shown = TRUE]
           v == [u EXCEPT !.stack = s]
           w == [u EXCEPT !.stack = SetPhase(@, p, "Loading"), !.expansions[p].shown = TRUE]
<1>1. w = [v EXCEPT !.expansions = e]
  BY DEF UiOK, Has, UiFields
<1>2. DOMAIN e = DOMAIN u.expansions
  OBVIOUS
<1>3. Keeps(u.stack, s)
  BY SetPhaseOK DEF UiOK
<1> HIDE DEF s, e, w
<1>4. v.expansions = u.expansions
  BY DEF UiOK, Has, UiFields
<1>5. Quiet(u, v)
  BY <1>3, QuietStack
<1> HIDE DEF v
<1>6. Quiet(v, w)
  BY <1>1, <1>2, <1>4, <1>5, QuietLess DEF Quiet
<1>7. Quiet(u, w)
  BY <1>5, <1>6, QuietTwice
<1> QED BY <1>7 DEF w

\* A page is answered.
LEMMA QuietAnswered ==
    ASSUME NEW u, UiOK(u), NEW k \in DOMAIN u.pages,
           NEW s, Keeps(u.stack, s)
    PROVE  Quiet(u, [u EXCEPT !.pages = Without(@, {k}),
                              !.stack = PageArrived(s, k[1], k[2])])
<1> DEFINE g == Without(u.pages, {k})
           t == PageArrived(s, k[1], k[2])
           v == [u EXCEPT !.pages = Without(@, {k}), !.stack = PageArrived(s, k[1], k[2])]
<1>1. Rest(u, v) /\ v.stack = t /\ v.pages = g
  BY DEF UiOK, Has, UiFields, Rest
<1> HIDE DEF v
<1>2. DOMAIN g = DOMAIN u.pages \ {k} /\ \A x \in DOMAIN g : g[x] = u.pages[x]
  BY DEF Without, Restrict
<1> HIDE DEF g
<1>3. /\ StackOK(t) /\ t.frames = s.frames
      /\ \A a, b : Sources(s.chunks, a) /\ AllBut(a, b, k[1], k[2]) => Sources(t.chunks, b)
  BY PageArrivedOK DEF Keeps
<1> HIDE DEF t
<1>4. k = <<k[1], k[2]>>
  BY DEF UiOK, PagesOK
<1>5. Sources(u.stack.chunks, u.pages) => Sources(t.chunks, g)
  <2>1. AllBut(u.pages, g, k[1], k[2])
    BY <1>2, <1>4 DEF AllBut
  <2> QED BY <1>3, <2>1 DEF Keeps
<1>6. PagesOK(g)
  BY <1>2 DEF UiOK, PagesOK
<1>7. t.frames = u.stack.frames
  BY <1>3 DEF Keeps
<1>8. Quiet(u, v)
  BY <1>1, <1>2, <1>3, <1>5, <1>6, <1>7, QuietPages
<1> QED BY <1>8 DEF v

\* A page is late: its row, or its chunk, says that it loads.
LEMMA QuietLate ==
    ASSUME NEW u, UiOK(u), NEW k \in DOMAIN u.pages,
           NEW t, \/ Keeps(u.stack, t)
                  \/ /\ k[1] \in DOMAIN u.stack.chunks
                     /\ ChunkSet(u.stack, t, k[1], k[2], "Loading"),
           NEW g, g = [u.pages EXCEPT ![k].shown = TRUE]
    PROVE  Quiet(u, [u EXCEPT !.pages = g, !.stack = t])
<1> DEFINE v == [u EXCEPT !.pages = g, !.stack = t]
<1>1. Rest(u, v) /\ v.stack = t /\ v.pages = g
  BY DEF UiOK, Has, UiFields, Rest
<1> HIDE DEF v
<1>2. DOMAIN g = DOMAIN u.pages /\ k = <<k[1], k[2]>> /\ <<k[1], k[2]>> \in DOMAIN g
  BY DEF UiOK, PagesOK
<1>3. \A x \in DOMAIN g : g[x].parent = u.pages[x].parent /\ "parent" \in DOMAIN g[x]
  <2> SUFFICES ASSUME NEW x \in DOMAIN g
               PROVE  g[x].parent = u.pages[x].parent /\ "parent" \in DOMAIN g[x]
    OBVIOUS
  <2>1. "parent" \in DOMAIN u.pages[x]
    BY <1>2 DEF UiOK, PagesOK
  <2>2. CASE x = k
    <3>1. g[x] = [u.pages[x] EXCEPT !.shown = TRUE]
      BY <2>2
    <3>2. "parent" # "shown"
      OBVIOUS
    <3> QED BY <2>1, <3>1, <3>2
  <2>3. CASE x # k
    BY <1>2, <2>1, <2>3
  <2> QED BY <2>2, <2>3
<1>4. PagesOK(g)
  BY <1>2, <1>3 DEF UiOK, PagesOK
<1>5. StackOK(t) /\ t.frames = u.stack.frames
  BY DEF Keeps, ChunkSet
<1>6. ASSUME Sources(u.stack.chunks, u.pages)
      PROVE  Sources(t.chunks, g)
  <2>1. CASE Keeps(u.stack, t)
    BY <1>2, <1>6, <2>1 DEF Keeps, Sources
  <2>2. CASE /\ k[1] \in DOMAIN u.stack.chunks
             /\ ChunkSet(u.stack, t, k[1], k[2], "Loading")
    <3> SUFFICES ASSUME NEW y \in DOMAIN u.stack.chunks
                 PROVE  /\ ~t.chunks[y].eager => <<y, 0>> \in DOMAIN g
                        /\ \A o \in DOMAIN t.chunks[y].pages :
                             t.chunks[y].pages[o] = "Loading" => <<y, o>> \in DOMAIN g
      BY <2>2 DEF Sources, ChunkSet
    <3>1. CASE y = k[1]
      <4>1. t.chunks[y].eager = u.stack.chunks[y].eager
        BY <2>2, <3>1 DEF ChunkSet
      <4>2. ASSUME NEW o \in DOMAIN t.chunks[y].pages, t.chunks[y].pages[o] = "Loading"
            PROVE  <<y, o>> \in DOMAIN g
        <5>1. CASE o = k[2]
          BY <1>2, <3>1, <5>1
        <5>2. CASE o # k[2]
          <6>1. o \in DOMAIN u.stack.chunks[y].pages /\ u.stack.chunks[y].pages[o] = "Loading"
            BY <2>2, <3>1, <4>2, <5>2 DEF ChunkSet
          <6> QED BY <1>2, <1>6, <6>1 DEF Sources
        <5> QED BY <5>1, <5>2
      <4> QED BY <1>2, <1>6, <4>1, <4>2 DEF Sources
    <3>2. CASE y # k[1]
      <4>1. t.chunks[y] = u.stack.chunks[y]
        BY <2>2, <3>2 DEF ChunkSet
      <4> QED BY <1>2, <1>6, <4>1 DEF Sources
    <3> QED BY <3>1, <3>2
  <2> QED BY <2>1, <2>2
<1>7. \A x \in DOMAIN v.pages : x \in DOMAIN u.pages /\ v.pages[x].parent = u.pages[x].parent
  BY <1>1, <1>2, <1>3
<1>8. Quiet(u, v)
  BY <1>1, <1>4, <1>5, <1>6, <1>7, QuietPages
<1> QED BY <1>8 DEF v

\* A chunk is closed.
LEMMA QuietUnloaded ==
    ASSUME NEW u, UiOK(u), NEW c \in DOMAIN u.stack.chunks, NEW o, o # 0
    PROVE  Quiet(u, [u EXCEPT !.stack = SetChunk(u.stack, c, o, "Collapsed")])
<1> DEFINE t == SetChunk(u.stack, c, o, "Collapsed")
           v == [u EXCEPT !.stack = t]
<1>1. ChunkSet(u.stack, t, c, o, "Collapsed")
  BY SetChunkOK DEF UiOK
<1> HIDE DEF t
<1>2. Rest(u, v) /\ v.stack = t /\ v.pages = u.pages
  BY DEF UiOK, Has, UiFields, Rest
<1> HIDE DEF v
<1>3. StackOK(t) /\ t.frames = u.stack.frames /\ PagesOK(u.pages)
  BY <1>1 DEF ChunkSet, UiOK
<1>4. ASSUME Sources(u.stack.chunks, u.pages)
      PROVE  Sources(t.chunks, u.pages)
  <2> SUFFICES ASSUME NEW y \in DOMAIN u.stack.chunks
               PROVE  /\ ~t.chunks[y].eager => <<y, 0>> \in DOMAIN u.pages
                      /\ \A x \in DOMAIN t.chunks[y].pages :
                           t.chunks[y].pages[x] = "Loading" => <<y, x>> \in DOMAIN u.pages
    BY <1>1 DEF Sources, ChunkSet
  <2>1. CASE y = c
    <3>1. t.chunks[y].eager = u.stack.chunks[y].eager
      BY <1>1, <2>1 DEF ChunkSet
    <3>2. ASSUME NEW x \in DOMAIN t.chunks[y].pages, t.chunks[y].pages[x] = "Loading"
          PROVE  x \in DOMAIN u.stack.chunks[y].pages /\ u.stack.chunks[y].pages[x] = "Loading"
      BY <1>1, <2>1, <3>2 DEF ChunkSet
    <3> QED BY <1>4, <3>1, <3>2 DEF Sources
  <2>2. CASE y # c
    <3>1. t.chunks[y] = u.stack.chunks[y]
      BY <1>1, <2>2 DEF ChunkSet
    <3> QED BY <1>4, <3>1 DEF Sources
  <2> QED BY <2>1, <2>2
<1>5. Quiet(u, v)
  BY <1>2, <1>3, <1>4, QuietPages
<1> QED BY <1>5 DEF v, t

\* Objects are asked for, each of a row of the stack.
LEMMA QuietBatch ==
    ASSUME NEW u, UiOK(u), NEW T, \A p \in T : IsPath(p) /\ Within(u.stack, p),
           NEW e, DOMAIN e = DOMAIN u.expansions \union T
    PROVE  Quiet(u, [u EXCEPT !.expansions = e])
<1> DEFINE v == [u EXCEPT !.expansions = e]
<1>1. /\ Has(v, UiFields) /\ v.stack = u.stack /\ v.highlighted = u.highlighted
      /\ v.focus = u.focus /\ v.opened = u.opened /\ v.nav = u.nav
      /\ v.expansions = e /\ v.pages = u.pages
  BY DEF UiOK, Has, UiFields
<1> HIDE DEF v
<1>2. UiOK(v) /\ Same(u, v)
  BY <1>1 DEF UiOK, Same
<1>3. (Sourced(u) => Sourced(v)) /\ (Rooted(u) => Rooted(v))
  BY <1>1 DEF Sourced, Rooted
<1>4. Quiet(u, v)
  BY <1>1, <1>2, <1>3 DEF Quiet
<1> QED BY <1>4 DEF v

\* The work for a collection is dropped, and its row may wait for a page in vain.
LEMMA CalmDropping ==
    ASSUME NEW u, UiOK(u), NEW c
    PROVE  Calm(u, DroppingPages(u, c))
<1> DEFINE D == {k \in DOMAIN u.pages : k[1] = c}
           g == Without(u.pages, D)
           v == DroppingPages(u, c)
<1>1. v = [u EXCEPT !.pages = g]
  BY DEF DroppingPages
<1> HIDE DEF v
<1>2. DOMAIN g \subseteq DOMAIN u.pages /\ \A k \in DOMAIN g : g[k] = u.pages[k]
  BY DEF Without, Restrict
<1> HIDE DEF g
<1>3. /\ Has(v, UiFields) /\ v.stack = u.stack /\ v.highlighted = u.highlighted
      /\ v.focus = u.focus /\ v.opened = u.opened /\ v.nav = u.nav
      /\ v.expansions = u.expansions /\ v.pages = g
  BY <1>1 DEF UiOK, Has, UiFields
<1>4. PagesOK(g)
  BY <1>2 DEF UiOK, PagesOK
<1>5. UiOK(v) /\ Same(u, v)
  BY <1>3, <1>4 DEF UiOK, Same
<1>6. Rooted(u) => Rooted(v)
  BY <1>2, <1>3 DEF Rooted
<1>7. Calm(u, v)
  BY <1>3, <1>5, <1>6 DEF Calm
<1> QED BY <1>7 DEF v

-----------------------------------------------------------------------------
(* The actions                                                             *)

PinsOK == \A pin \in pins : IsPath(pin.path)
ListOK == listed \subseteq Threads /\ (Threads # {} => highlighted \in Threads)

\* What always holds of the state.
Base == UiOK(Ui) /\ PinsOK /\ ListOK

LEMMA UiIs ==
    /\ Ui.highlighted = highlighted /\ Ui.focus = focus /\ Ui.opened = opened
    /\ Ui.stack = stack /\ Ui.expansions = expansions /\ Ui.pages = pages
    /\ Ui.nav = nav /\ Ui.spinner = spinner
    /\ Ui'.highlighted = highlighted' /\ Ui'.focus = focus' /\ Ui'.opened = opened'
    /\ Ui'.stack = stack' /\ Ui'.expansions = expansions' /\ Ui'.pages = pages'
    /\ Ui'.nav = nav' /\ Ui'.spinner = spinner'
BY DEF Ui

\* The handlers say what the state becomes.
LEMMA BecomesIs ==
    ASSUME NEW v, Has(v, UiFields), Becomes(v)
    PROVE  Ui' = v
<1>1. v = [x \in UiFields |-> v[x]]
  BY DEF Has
<1>2. Ui' = [highlighted |-> v.highlighted, focus |-> v.focus, opened |-> v.opened,
             stack |-> v.stack, expansions |-> v.expansions, pages |-> v.pages,
             nav |-> v.nav, spinner |-> v.spinner]
  BY DEF Ui, Becomes
<1> QED BY ONLY <1>1, <1>2 DEF UiFields

\* A step that stays in the thread and the panel, and starts no walk.
Quietly == Quiet(Ui, Ui') /\ UNCHANGED <<prevFocus, listed, pins>>

LEMMA QuietBecomes ==
    ASSUME NEW v, Quiet(Ui, v), Becomes(v), UNCHANGED <<prevFocus, listed, pins>>
    PROVE  Quietly
<1>1. Has(v, UiFields)
  BY DEF Quiet, UiOK
<1>2. Ui' = v
  BY <1>1, BecomesIs
<1> QED BY <1>2 DEF Quietly

\* An answer, or none, of a worker that expands an object.
LEMMA ExpansionPoll ==
    ASSUME Base, NEW p \in DOMAIN expansions,
           \/ ExpansionAnswered(p) \/ ExpansionRefused(p)
           \/ ExpansionNotReady(p) \/ ExpansionLost(p)
    PROVE  Quietly
<1>0. PICK u : u = Ui
  OBVIOUS
<1>1. UiOK(u) /\ p \in DOMAIN u.expansions /\ IsPath(p)
  BY <1>0, UiIs DEF Base, UiOK
<1>2. UNCHANGED <<prevFocus, listed, pins>>
  BY DEF ExpansionAnswered, ExpansionRefused, ExpansionNotReady, ExpansionLost, PollStep
<1>3. PICK i : i = expansions[p].id
  OBVIOUS
<1>4. CASE ExpansionAnswered(p)
  <2> DEFINE v == [u EXCEPT !.expansions = Without(@, {p})]
             w == [v EXCEPT !.stack = ExpansionDone(@, p, i)]
  <2>1. Becomes(v) \/ Becomes(w)
    BY <1>0, <1>3, <1>4 DEF ExpansionAnswered
  <2>2. Quiet(Ui, v) /\ Quiet(Ui, w)
    BY <1>0, <1>1, QuietTaken, QuietShown
  <2> HIDE DEF v, w
  <2> QED BY <1>2, <2>1, <2>2, QuietBecomes
<1>5. CASE ExpansionRefused(p)
  <2> DEFINE v == [u EXCEPT !.expansions = Without(@, {p}),
                            !.stack      = ExpansionFailed(@, p, i)]
             w == Failed(v, <<"object", i>>)
  <2>1. Becomes(w)
    BY <1>0, <1>3, <1>5 DEF ExpansionRefused
  <2>2. Quiet(u, v)
    BY <1>1, QuietUnshown
  <2> HIDE DEF v
  <2>3. Quiet(Ui, w)
    BY <1>0, <2>2, QuietFailed, QuietTwice DEF Quiet
  <2> HIDE DEF w
  <2> QED BY <1>2, <2>1, <2>3, QuietBecomes
<1>6. CASE ExpansionNotReady(p)
  <2> DEFINE v == [u EXCEPT !.stack = SetPhase(@, p, "Loading"),
                            !.expansions[p].shown = TRUE]
  <2>1. Becomes(u) \/ Becomes(v)
    BY <1>0, <1>6 DEF ExpansionNotReady
  <2>2. Quiet(Ui, u) /\ Quiet(Ui, v)
    BY <1>0, <1>1, QuietSelf, QuietLoading
  <2> HIDE DEF v
  <2> QED BY <1>2, <2>1, <2>2, QuietBecomes
<1>7. CASE ExpansionLost(p)
  <2> DEFINE v == [u EXCEPT !.expansions = Without(@, {p}),
                            !.stack      = ExpansionFailed(@, p, i)]
  <2>1. Becomes(v)
    BY <1>0, <1>3, <1>7 DEF ExpansionLost
  <2>2. Quiet(Ui, v)
    BY <1>0, <1>1, QuietUnshown
  <2> HIDE DEF v
  <2> QED BY <1>2, <2>1, <2>2, QuietBecomes
<1> QED BY <1>4, <1>5, <1>6, <1>7

\* An answer, or none, of a worker that loads a page.
LEMMA PagePoll ==
    ASSUME Base, NEW k \in DOMAIN pages,
           PageAnswered(k) \/ PageRefused(k) \/ PageNotReady(k) \/ PageLost(k)
    PROVE  Quietly
<1>0. PICK u : u = Ui
  OBVIOUS
<1>1. /\ UiOK(u) /\ k \in DOMAIN u.pages
      /\ pages = u.pages /\ stack = u.stack
  BY <1>0, UiIs DEF Base
<1>2. UNCHANGED <<prevFocus, listed, pins>>
  BY DEF PageAnswered, PageRefused, PageNotReady, PageLost, PollStep
<1>3. PICK q : q = pages[k].parent
  OBVIOUS
<1>4. StackOK(u.stack) /\ (q # NoPath => IsPath(q))
  BY <1>1, <1>3 DEF UiOK, PagesOK
<1>5. CASE PageAnswered(k)
  <2> DEFINE s == IF k[2] = 0 /\ q # NoPath THEN SetPhase(u.stack, q, "Expanded")
                  ELSE u.stack
             v == [u EXCEPT !.pages = Without(@, {k}),
                            !.stack = PageArrived(s, k[1], k[2])]
  <2>1. Becomes(v)
    BY <1>0, <1>1, <1>3, <1>5 DEF PageAnswered
  <2>2. Keeps(u.stack, s)
    BY <1>4, SetPhaseOK DEF Keeps
  <2> HIDE DEF s
  <2>3. Quiet(Ui, v)
    BY <1>0, <1>1, <2>2, QuietAnswered
  <2> HIDE DEF v
  <2> QED BY <1>2, <2>1, <2>3, QuietBecomes
<1>6. CASE PageRefused(k)
  <2> DEFINE v == PageGone(u, k)
             w == Failed(v, <<"page", k[1]>>)
  <2>1. Becomes(w)
    BY <1>0, <1>6 DEF PageRefused
  <2>2. Quiet(u, v)
    BY <1>1, QuietGone
  <2> HIDE DEF v
  <2>3. Quiet(Ui, w)
    BY <1>0, <2>2, QuietFailed, QuietTwice DEF Quiet
  <2> HIDE DEF w
  <2> QED BY <1>2, <2>1, <2>3, QuietBecomes
<1>7. CASE PageNotReady(k)
  <2> DEFINE g == [u.pages EXCEPT ![k].shown = TRUE]
             c == k[1] \in DOMAIN u.stack.chunks
             t == CASE k[2] = 0 /\ q # NoPath -> SetPhase(u.stack, q, "Loading")
                    [] k[2] # 0 /\ c -> SetChunk(u.stack, k[1], k[2], "Loading")
                    [] OTHER -> u.stack
             v == [u EXCEPT !.pages = g, !.stack = t]
             w == [u EXCEPT
                     !.pages[k].shown = TRUE,
                     !.stack = CASE k[2] = 0 /\ q # NoPath -> SetPhase(@, q, "Loading")
                                 [] k[2] # 0 /\ k[1] \in DOMAIN @.chunks ->
                                      SetChunk(@, k[1], k[2], "Loading")
                                 [] OTHER -> @]
  <2>1. Becomes(u) \/ Becomes(w)
    BY <1>0, <1>1, <1>3, <1>7 DEF PageNotReady
  <2>2. w = v
    BY <1>1 DEF UiOK, Has, UiFields
  <2>3. \/ Keeps(u.stack, t)
        \/ c /\ ChunkSet(u.stack, t, k[1], k[2], "Loading")
    <3>1. CASE k[2] = 0 /\ q # NoPath
      BY <1>4, <3>1, SetPhaseOK
    <3>2. CASE k[2] # 0 /\ c
      <4>1. ChunkSet(u.stack, SetChunk(u.stack, k[1], k[2], "Loading"),
                     k[1], k[2], "Loading")
        BY <1>4, <3>2, SetChunkOK
      <4> QED BY <3>2, <4>1
    <3>3. CASE ~(k[2] = 0 /\ q # NoPath) /\ ~(k[2] # 0 /\ c)
      BY <1>4, <3>3 DEF Keeps
    <3> QED BY <3>1, <3>2, <3>3
  <2> HIDE DEF t, w
  <2>4. Quiet(Ui, v) /\ Quiet(Ui, u)
    BY <1>0, <1>1, <2>3, QuietLate, QuietSelf
  <2> HIDE DEF v
  <2> QED BY <1>2, <2>1, <2>2, <2>4, QuietBecomes
<1>8. CASE PageLost(k)
  <2> DEFINE v == PageGone(u, k)
  <2>1. Becomes(v)
    BY <1>0, <1>8 DEF PageLost
  <2>2. Quiet(Ui, v)
    BY <1>0, <1>1, QuietGone
  <2> HIDE DEF v
  <2> QED BY <1>2, <2>1, <2>2, QuietBecomes
<1> QED BY <1>5, <1>6, <1>7, <1>8

\* A key that changes the stack and not its collections.
LEMMA StackKeyQuiet ==
    ASSUME Base, NEW k, NEW s, Keeps(stack, s), OnStackState(k, s)
    PROVE  Quietly
<1> DEFINE v == [Ui EXCEPT !.stack = s]
<1>1. Becomes(v) /\ UNCHANGED <<prevFocus, listed, pins>>
  BY DEF OnStackState, OnStack
<1>2. Keeps(Ui.stack, s)
  BY UiIs
<1>3. Quiet(Ui, v)
  BY <1>2, QuietStack DEF Base
<1> HIDE DEF v
<1> QED BY <1>1, <1>3, QuietBecomes

\* A key that makes v of the application.
LEMMA KeyQuiet ==
    ASSUME NEW k, NEW v, Quiet(Ui, v), OnStack(k, v)
    PROVE  Quietly
<1>1. Becomes(v) /\ UNCHANGED <<prevFocus, listed, pins>>
  BY DEF OnStack
<1> QED BY <1>1, QuietBecomes

\* The cursor, the frames and the sections.
LEMMA RowKeys ==
    ASSUME Base,
           \/ Press("Move", "stack") /\ \E r \in FlatItems(stack) : Move(r)
           \/ OpenFrame \/ CloseFrame \/ SwitchSection \/ GoToParent
    PROVE  Quietly
<1>1. StackOK(stack) /\ IsRow(stack, stack.cursor)
  BY UiIs DEF Base, UiOK, StackOK
<1>2. CASE \E r \in FlatItems(stack) : Move(r)
  <2>1. PICK r \in FlatItems(stack) : Move(r)
    BY <1>2
  <2>2. Keeps(stack, SetCursor(stack, r))
    BY <1>1, FlatOK, SetCursorOK
  <2> QED BY <2>1, <2>2, StackKeyQuiet DEF Move
<1>3. CASE OpenFrame
  <2>1. Keeps(stack, ExpandFrame(stack, Here[1][2]))
    BY <1>1, ExpandFrameOK
  <2> QED BY <1>3, <2>1, StackKeyQuiet DEF OpenFrame
<1>4. CASE CloseFrame
  <2>1. Keeps(stack, CollapseFrame(stack, Here[1][2]))
    BY <1>1, CollapseFrameOK
  <2> QED BY <1>4, <2>1, StackKeyQuiet DEF CloseFrame
<1>5. CASE SwitchSection
  <2>1. stack.cursor.kind = "section"
    BY <1>5 DEF SwitchSection, OnRow
  <2>2. Keeps(stack, ToggleSection(stack, Here))
    BY <1>1, <2>1, CursorRow, ToggleSectionOK DEF Here
  <2>3. PICK k : OnStackState(k, ToggleSection(stack, Here))
    BY <1>5 DEF SwitchSection
  <2> QED BY <2>2, <2>3, StackKeyQuiet
<1>6. CASE GoToParent
  <2>1. PICK r \in ParentCursor(stack) : OnStackState("Close", SetCursor(stack, r))
    BY <1>6 DEF GoToParent
  <2>2. Keeps(stack, SetCursor(stack, r))
    BY <1>1, ParentOK, SetCursorOK
  <2> QED BY <2>1, <2>2, StackKeyQuiet
<1> QED BY <1>2, <1>3, <1>4, <1>5, <1>6

\* The objects and the collections.
LEMMA ValueKeys ==
    ASSUME Base,
           OpenObject \/ CloseObject \/ OpenPages \/ ClosePages \/ EscapeLoading
    PROVE  Quietly
<1>0. PICK u : u = Ui
  OBVIOUS
<1>1. UiOK(u) /\ StackOK(stack) /\ u.stack = stack
  BY <1>0, UiIs DEF Base, UiOK
<1>2. PICK p, i, c : p = Here /\ i = Value.id /\ c = Value
  OBVIOUS
<1>3. stack.cursor.kind # "noframes" => IsPath(p) /\ Within(u.stack, p)
  BY <1>1, <1>2, CursorRow DEF Here
<1>4. CASE OpenObject
  <2>1. stack.cursor.kind = "at"
    BY <1>4 DEF OpenObject, OnValue, OnRow
  <2>2. Quiet(Ui, StartExpansion(u, i, p))
    BY <1>0, <1>1, <1>3, <2>1, QuietExpansion
  <2> QED BY <1>0, <1>2, <1>4, <2>2, KeyQuiet DEF OpenObject
<1>5. CASE OpenPages
  <2>1. stack.cursor.kind = "at"
    BY <1>5 DEF OpenPages, OnValue, OnRow
  <2>2. Quiet(Ui, OpenCollection(u, p, c))
    BY <1>0, <1>1, <1>3, <2>1, QuietCollection
  <2> QED BY <1>0, <1>2, <1>5, <2>2, KeyQuiet DEF OpenPages
<1>6. CASE ClosePages
  <2> DEFINE v == DroppingPages([u EXCEPT !.stack = ForgetChunks(CollapseAtPath(@, p), i)], i)
  <2>1. OnStack("ClosePages", v)
    BY <1>0, <1>2, <1>6 DEF ClosePages
  <2>2. Quiet(Ui, v)
    BY <1>0, <1>1, QuietClosed
  <2> HIDE DEF v
  <2> QED BY <2>1, <2>2, KeyQuiet
<1>7. CASE CloseObject
  <2>1. PICK s, t : /\ s = CollapseAtPath(stack, p)
                    /\ t = IF Kind(Here) \in {"var", "entry"} THEN Resync(s) ELSE s
    OBVIOUS
  <2>2. Keeps(u.stack, t)
    <3>1. StackOK(s) /\ s.frames = stack.frames /\ s.chunks = stack.chunks
      BY <1>1, <2>1, CollapseAtPathOK DEF Keeps
    <3> QED BY <1>1, <2>1, <3>1, ResyncOK DEF Keeps
  <2> DEFINE v == [u EXCEPT !.stack = t]
  <2>3. OnStack("Close", Dropping(v, i))
    BY <1>0, <1>2, <1>7, <2>1 DEF CloseObject
  <2>4. Quiet(u, v)
    BY <1>1, <2>2, QuietStack
  <2> HIDE DEF v
  <2>5. Quiet(Ui, Dropping(v, i))
    BY <1>0, <2>4, QuietDropping, QuietTwice DEF Quiet
  <2> QED BY <2>3, <2>5, KeyQuiet
<1>8. CASE EscapeLoading
  <2>1. PICK s, o : s = CollapseAtPath(u.stack, p) /\ o = LoadingObject(stack, Here)
    OBVIOUS
  <2>2. Keeps(u.stack, s)
    BY <1>1, <2>1, CollapseAtPathOK
  <2> DEFINE v == [u EXCEPT !.stack = s]
  <2>3. OnStack("EscapeLoading", Dropping(v, o))
    BY <1>0, <1>2, <1>8, <2>1 DEF EscapeLoading
  <2>4. Quiet(u, v)
    BY <1>1, <2>2, QuietStack
  <2> HIDE DEF v
  <2>5. Quiet(Ui, Dropping(v, o))
    BY <1>0, <2>4, QuietDropping, QuietTwice DEF Quiet
  <2> QED BY <2>3, <2>5, KeyQuiet
<1> QED BY <1>4, <1>5, <1>6, <1>7, <1>8

\* The chunks of a collection.
LEMMA ChunkKeys ==
    ASSUME Base, OpenChunk \/ CloseChunk
    PROVE  Quietly
<1>1. PICK c, o : c = Last(Here)[2] /\ o = Last(Here)[3]
  OBVIOUS
<1>2. CASE OpenChunk
  <2>1. Quiet(Ui, LoadPage(Ui, c, o))
    BY LoadPageOK DEF Base
  <2> QED BY <1>1, <1>2, <2>1, KeyQuiet DEF OpenChunk
<1>3. CASE CloseChunk
  <2>1. c \in DOMAIN stack.chunks /\ o \in ChunkOffsets(stack.chunks[c].total)
    BY <1>1, <1>3 DEF CloseChunk, OnChunk
  <2>2. o # 0
    BY <2>1 DEF ChunkOffsets
  <2> DEFINE v == [Ui EXCEPT !.stack = SetChunk(Ui.stack, c, o, "Collapsed")]
  <2>3. Quiet(Ui, v)
    BY <2>1, <2>2, UiIs, QuietUnloaded DEF Base
  <2>4. OnStack("Close", v)
    BY <1>1, <1>3, UiIs DEF CloseChunk, OnStackState
  <2> HIDE DEF v
  <2> QED BY <2>3, <2>4, KeyQuiet
<1> QED BY <1>2, <1>3

\* The rows below the cursor.
LEMMA BatchKey ==
    ASSUME Base, BatchExpand
    PROVE  Quietly
<1>0. PICK u : u = Ui
  OBVIOUS
<1>1. UiOK(u) /\ StackOK(stack) /\ u.stack = stack
  BY <1>0, UiIs DEF Base, UiOK
<1>2. PICK p, v : p = Here /\ v = ExpandTarget(stack, Here)
  OBVIOUS
<1>3. IsPath(p) /\ Within(u.stack, p)
  <2>1. stack.cursor.kind # "noframes"
    BY DEF BatchExpand, OnRow
  <2> QED BY <1>1, <1>2, <2>1, CursorRow DEF Here
<1>4. CASE OnStackState("BatchExpand", ExpandFrame(stack, Here[1][2]))
  <2>1. Keeps(stack, ExpandFrame(stack, Here[1][2]))
    BY <1>1, ExpandFrameOK
  <2> QED BY <1>4, <2>1, StackKeyQuiet
<1>5. CASE OnStack("BatchExpand", OpenCollection(Ui, Here, v))
  <2>1. Quiet(Ui, OpenCollection(u, p, v))
    BY <1>0, <1>1, <1>3, QuietCollection
  <2> QED BY <1>0, <1>2, <1>5, <2>1, KeyQuiet
<1>6. CASE BatchExpandRows(BatchTargets(CollapsedExpandableAt(stack, Here, v)))
  <2>1. PICK P, T : P = CollapsedExpandableAt(stack, p, v) /\ T = BatchTargets(P)
    OBVIOUS
  <2>2. T \subseteq P
    BY <2>1 DEF BatchTargets
  <2>3. \A q \in P : IsPath(q) /\ Within(u.stack, q)
    <3>1. \A q \in ExpandableBelow(stack, p) : \E r \in FlatItems(stack) :
             r.kind = "at" /\ r.path = q
      BY DEF ExpandableBelow
    <3>2. \A q \in ExpandableBelow(stack, p) : IsPath(q) /\ Within(u.stack, q)
      BY <1>1, <3>1, FlatOK DEF IsRow
    <3>3. \A q \in P : q = p \/ q \in ExpandableBelow(stack, p)
      BY <2>1 DEF CollapsedExpandableAt
    <3> QED BY <1>3, <3>2, <3>3
  <2> DEFINE e == [q \in DOMAIN u.expansions \union T |->
                      IF q \in DOMAIN u.expansions THEN u.expansions[q]
                      ELSE [id |-> ExpandTarget(stack, q).id, shown |-> FALSE]]
             w == [u EXCEPT !.expansions = e]
  <2>4. OnStack("BatchExpand", w)
    BY <1>0, <1>2, <1>6, <2>1 DEF BatchExpandRows
  <2>5. DOMAIN e = DOMAIN u.expansions \union T
    OBVIOUS
  <2> HIDE DEF e
  <2>6. Quiet(Ui, w)
    BY <1>0, <1>1, <2>2, <2>3, <2>5, QuietBatch
  <2> HIDE DEF w
  <2> QED BY <2>4, <2>6, KeyQuiet
<1> QED BY <1>2, <1>4, <1>5, <1>6 DEF BatchExpand, BatchExpandValue

\* Escape during a walk; the row of a page it waits for may be left without it.
Escaping == /\ "EscapePage" \in Keys /\ Calm(Ui, Ui')
            /\ UNCHANGED <<prevFocus, listed, pins>>

LEMMA EscapeKeys ==
    ASSUME Base, EscapeWalk
    PROVE  Quietly \/ Escaping
<1>0. PICK u, r : u = Ui /\ r = nav.awaited
  OBVIOUS
<1> DEFINE z == [u EXCEPT !.nav = NoNav]
           v == CASE r[1] = "object" -> Dropping(z, r[2])
                  [] r[1] = "page"   -> DroppingPages(z, r[2])
                  [] OTHER           -> z
           x == IF LoadingShown(v) THEN "Resolving" ELSE "Idle"
           w == [v EXCEPT !.spinner = x]
<1>1. /\ Becomes(w) /\ UNCHANGED <<prevFocus, listed, pins>>
      /\ r[1] = "page" => "EscapePage" \in Keys
  BY <1>0 DEF EscapeWalk, Press, EscapeKey
<1>2. Quiet(u, z)
  <2>1. UiOK(u) /\ u.nav # NoNav
    BY <1>0, UiIs DEF Base, EscapeWalk
  <2>2. /\ Has(z, UiFields) /\ z.stack = u.stack /\ z.highlighted = u.highlighted
        /\ z.focus = u.focus /\ z.opened = u.opened /\ z.nav = NoNav
        /\ z.expansions = u.expansions /\ z.pages = u.pages
    BY <2>1 DEF UiOK, Has, UiFields
  <2> HIDE DEF z
  <2>3. UiOK(z) /\ Same(u, z) /\ (Sourced(u) => Sourced(z)) /\ (Rooted(u) => Rooted(z))
    BY <2>1, <2>2 DEF UiOK, Same, NavOK, Sourced, Rooted
  <2> QED BY <2>2, <2>3 DEF Quiet
<1> HIDE DEF z
<1>3. UiOK(z)
  BY <1>2 DEF Quiet
<1>4. CASE r[1] # "page"
  <2>1. Quiet(z, v)
    <3>1. v = Dropping(z, r[2]) \/ v = z
      BY <1>4
    <3> HIDE DEF v
    <3> QED BY <1>3, <3>1, QuietSelf, QuietDropping
  <2> HIDE DEF v, x
  <2>2. Quiet(v, w)
    BY <2>1, QuietSpinner DEF Quiet
  <2> HIDE DEF w
  <2>3. Quiet(u, w)
    BY <1>2, <2>1, <2>2, QuietTwice
  <2> QED BY <1>0, <1>1, <2>3, QuietBecomes
<1>5. CASE r[1] = "page"
  <2>1. Calm(z, v)
    <3>1. v = DroppingPages(z, r[2])
      BY <1>5
    <3> HIDE DEF v
    <3> QED BY <1>3, <3>1, CalmDropping
  <2> HIDE DEF v, x
  <2>2. Quiet(v, w)
    BY <2>1, QuietSpinner DEF Calm
  <2> HIDE DEF w
  <2>3. Calm(u, w)
    BY <1>2, <2>1, <2>2 DEF Quiet, Calm, Same
  <2>4. Ui' = w
    BY <1>1, <2>3, BecomesIs DEF Calm, UiOK
  <2> QED BY <1>0, <1>1, <1>5, <2>3, <2>4 DEF Escaping
<1> QED BY <1>4, <1>5

\* A walk for the thread t begins at v: its stack is opened if another is selected.
Started(v, t) ==
    /\ UiOK(v)
    /\ Sourced(Ui) => Sourced(v)
    /\ Rooted(Ui) => Rooted(v)
    /\ IF SelectedThread(Ui) # t \/ opened = NoThread
       THEN /\ v.opened = t /\ v.focus = "stack"
            /\ v.highlighted = IF t \in listed THEN t ELSE highlighted
       ELSE /\ v.opened = opened /\ v.focus = focus
            /\ v.highlighted = highlighted /\ v.stack = stack

LEMMA StartedOK ==
    ASSUME Base, NEW z, UiOK(z), Same(Ui, z), z.stack = stack,
           Sourced(Ui) => Sourced(z), Rooted(Ui) => Rooted(z), NEW t \in Threads
    PROVE  Started(WalkBase(z, t), t)
<1>1. SelectedThread(z) = SelectedThread(Ui) /\ z.opened = opened
      /\ z.focus = focus /\ z.highlighted = highlighted
  BY UiIs DEF Same, SelectedThread
<1>2. CASE SelectedThread(Ui) # t \/ opened = NoThread
  <2>1. WalkBase(z, t) = OpenStack(z, t)
    BY <1>1, <1>2 DEF WalkBase
  <2> QED BY <1>1, <1>2, <2>1, OpenStackOK DEF Started
<1>3. CASE ~(SelectedThread(Ui) # t \/ opened = NoThread)
  <2>1. WalkBase(z, t) = z
    BY <1>1, <1>3 DEF WalkBase
  <2> QED BY <1>1, <1>3, <2>1 DEF Started
<1> QED BY <1>2, <1>3

\* The walk goes on, or stops for good.
Resuming ==
    /\ nav # NoNav /\ nav.thread \in Threads
    /\ \E v : \E done \in 0..nav.done :
          Started(v, nav.thread) /\ Walked(v, nav.thread, nav.orig, done, Ui')
    /\ UNCHANGED <<prevFocus, listed, pins>>

\* What comes after a walk and is quiet.
LEMMA WalkedQuiet ==
    ASSUME NEW v, NEW t, NEW path, NEW done, NEW r, Walked(v, t, path, done, r),
           NEW x, Quiet(r, x)
    PROVE  Walked(v, t, path, done, x)
<1>1. NavRooted(r) => NavRooted(x)
  BY WithinSame DEF Quiet, NavRooted, Same
<1>2. UiOK(x) /\ Same(v, x)
  BY DEF Walked, Quiet, Same
<1>3. x.nav = NoNav \/ x.nav.thread = t
  BY DEF Walked, Quiet
<1> QED BY <1>1, <1>2, <1>3 DEF Walked, Quiet

\* The rounds that look whether the walk can go on.
LEMMA Resumes ==
    ASSUME Base, ExpansionsPolled \/ PagesPolled \/ ResumeYielded
    PROVE  Quietly \/ Resuming
<1>1. UNCHANGED <<prevFocus, listed, pins>>
  BY DEF ExpansionsPolled, PagesPolled, ResumeYielded
<1>2. PICK u, w : /\ u = Ui
                  /\ w = u \/ (u.nav # NoNav /\ w = Resume(u))
                  /\ Becomes(w) \/ FallBack(w)
  <2>1. \A r : Awaits(Ui, r) => Ui.nav # NoNav
    BY DEF Awaits
  <2>2. CASE ExpansionsPolled
    BY <2>1, <2>2 DEF ExpansionsPolled
  <2>3. CASE PagesPolled
    BY <2>1, <2>3 DEF PagesPolled
  <2>4. CASE ResumeYielded
    BY <2>1, <2>4 DEF ResumeYielded
  <2> QED BY <2>2, <2>3, <2>4
<1>3. UiOK(u)
  BY <1>2 DEF Base
<1>4. w = u \/ \E v : \E done \in 0..nav.done :
                  Started(v, nav.thread) /\ Walked(v, nav.thread, nav.orig, done, w)
  <2> SUFFICES ASSUME w # u
               PROVE  \E v : \E done \in 0..nav.done :
                         Started(v, nav.thread) /\ Walked(v, nav.thread, nav.orig, done, w)
    OBVIOUS
  <2>1. u.nav # NoNav /\ w = Resume(u) /\ u.nav = nav /\ u.stack = stack
    BY <1>2, UiIs
  <2> DEFINE z == [u EXCEPT !.nav = NoNav]
  <2>2. /\ UiOK(z) /\ Same(u, z) /\ z.stack = u.stack /\ nav.thread \in Threads
        /\ Sourced(u) => Sourced(z)
        /\ Rooted(u) => Rooted(z)
        /\ \E done \in 0..nav.done :
              Walked(WalkBase(z, nav.thread), nav.thread, nav.orig, done, w)
    BY <1>3, <2>1, ResumeOK
  <2> HIDE DEF z
  <2>3. Started(WalkBase(z, nav.thread), nav.thread)
    BY <1>2, <2>1, <2>2, StartedOK
  <2> QED BY <2>2, <2>3
<1>5. UiOK(w)
  BY <1>3, <1>4 DEF Walked
<1>6. PICK x : Becomes(x) /\ Quiet(w, x)
  <2>1. CASE Becomes(w)
    BY <1>5, <2>1, QuietSelf
  <2>2. CASE FallBack(w)
    <3>1. CASE w.stack.cursor.kind = "at"
      <4>1. IsPath(w.stack.cursor.path) /\ Within(w.stack, w.stack.cursor.path)
        BY <1>5, <3>1, CursorRow DEF UiOK
      <4>2. \A c : Quiet(w, StartExpansion(w, c, w.stack.cursor.path))
        BY <1>5, <4>1, QuietExpansion
      <4>3. \/ Becomes(w)
            \/ \E c \in fallback : Becomes(StartExpansion(w, c, w.stack.cursor.path))
        BY <2>2 DEF FallBack
      <4> QED BY <2>1, <4>2, <4>3
    <3>2. CASE w.stack.cursor.kind # "at"
      BY <2>1, <2>2, <3>2 DEF FallBack
    <3> QED BY <3>1, <3>2
  <2> QED BY <1>2, <2>1, <2>2
<1>7. CASE w = u
  BY <1>1, <1>2, <1>6, <1>7, QuietBecomes
<1>8. CASE w # u
  <2>1. Ui' = x
    BY <1>6, BecomesIs DEF Quiet, UiOK
  <2>2. PICK v : \E done \in 0..nav.done :
           Started(v, nav.thread) /\ Walked(v, nav.thread, nav.orig, done, w)
    BY <1>4, <1>8
  <2>3. PICK done \in 0..nav.done :
           Started(v, nav.thread) /\ Walked(v, nav.thread, nav.orig, done, w)
    BY <2>2
  <2>4. Walked(v, nav.thread, nav.orig, done, Ui')
    BY <1>6, <2>1, <2>3, WalkedQuiet
  <2>5. nav # NoNav /\ nav.thread \in Threads
    BY <1>2, <1>3, <1>8, UiIs DEF UiOK, NavOK
  <2> QED BY <1>1, <2>3, <2>4, <2>5 DEF Resuming
<1> QED BY <1>7, <1>8

\* A walk to a favorite.
Jumping ==
    /\ "GoToPin" \in Keys /\ focus = "favorites"
    /\ \E pin \in pins : \E v, r :
          /\ pin.thread \in Threads
          /\ Started(v, pin.thread) /\ Walked(v, pin.thread, pin.path, 0, r)
          /\ UiOK(Ui') /\ focus' = "stack"
          /\ highlighted' = r.highlighted /\ opened' = r.opened /\ nav' = r.nav
          /\ Sourced(r) => Sourced(Ui')
          /\ NavRooted(r) => NavRooted(Ui')
    /\ UNCHANGED <<prevFocus, listed, pins>>

LEMMA Jumps ==
    ASSUME Base, NEW pin \in pins, GoToPin(pin)
    PROVE  Jumping
<1>1. PICK u, t, path : u = Ui /\ t = pin.thread /\ path = pin.path
  OBVIOUS
<1>2. UiOK(u) /\ IsPath(path) /\ t \in Threads /\ u.stack = stack
  BY <1>1, UiIs DEF Base, PinsOK, GoToPin
<1> DEFINE z == [u EXCEPT !.nav = NoNav, !.spinner = "Idle"]
           v == WalkBase(z, t)
           r == NavigateWalk(z, t, path, 0)
           x == [r EXCEPT !.focus = "stack"]
<1>3. /\ Becomes(x) /\ UNCHANGED <<prevFocus, listed, pins>>
      /\ "GoToPin" \in Keys /\ focus = "favorites"
  BY <1>1 DEF GoToPin, Press
<1>4. /\ UiOK(z) /\ Same(u, z) /\ z.stack = u.stack /\ z.nav = NoNav
      /\ (Sourced(u) => Sourced(z)) /\ (Rooted(u) => Rooted(z))
  <2>1. /\ Has(z, UiFields) /\ z.stack = u.stack /\ z.highlighted = u.highlighted
        /\ z.focus = u.focus /\ z.opened = u.opened /\ z.nav = NoNav
        /\ z.expansions = u.expansions /\ z.pages = u.pages
    BY <1>2 DEF UiOK, Has, UiFields
  <2> HIDE DEF z
  <2> QED BY <1>2, <2>1 DEF UiOK, Same, NavOK, Sourced, Rooted
<1> HIDE DEF z
<1>5. Started(v, t)
  BY <1>1, <1>2, <1>4, StartedOK
<1>6. Walked(v, t, path, 0, r)
  <2>1. 0 \in 0..Len(path)
    BY <1>2, PathParts
  <2> QED BY <1>2, <1>4, <2>1, NavigateOK
<1> HIDE DEF v, r
<1>7. UiOK(r)
  BY <1>6 DEF Walked
<1>8. /\ Has(x, UiFields) /\ x.stack = r.stack /\ x.highlighted = r.highlighted
      /\ x.focus = "stack" /\ x.opened = r.opened /\ x.nav = r.nav
      /\ x.expansions = r.expansions /\ x.pages = r.pages
  BY <1>7 DEF UiOK, Has, UiFields
<1> HIDE DEF x
<1>9. UiOK(x) /\ (Sourced(r) => Sourced(x)) /\ (NavRooted(r) => NavRooted(x))
  BY <1>7, <1>8 DEF UiOK, Sourced, Rooted, NavRooted
<1>10. Ui' = x
  BY <1>3, <1>8, BecomesIs
<1> QED BY <1>1, <1>2, <1>3, <1>5, <1>6, <1>8, <1>9, <1>10, UiIs DEF Jumping

\* A thread is opened from the list.
Entering ==
    /\ focus = "list" /\ highlighted \in Threads
    /\ UiOK(Ui') /\ focus' = "stack" /\ opened' = highlighted
    /\ highlighted' = highlighted /\ nav' = nav
    /\ Sourced(Ui) => Sourced(Ui')
    /\ Rooted(Ui) => Rooted(Ui')
    /\ opened = highlighted => stack' = stack
    /\ UNCHANGED <<prevFocus, listed, pins>>

LEMMA Enters ==
    ASSUME Base, EnterThread
    PROVE  Entering
<1>1. PICK u, t : u = Ui /\ t = highlighted
  OBVIOUS
<1>2. listed # {} /\ SelectedThread(Ui) = t
  BY <1>1, UiIs DEF EnterThread, SelectedThread
<1>3. t \in Threads
  BY <1>1, <1>2 DEF Base, ListOK
<1> DEFINE x == OpenStack(u, t)
<1>4. Becomes(x) /\ UNCHANGED <<prevFocus, listed, pins>> /\ focus = "list"
  BY <1>1, <1>2 DEF EnterThread, Press
<1>5. /\ UiOK(x) /\ x.opened = t /\ x.focus = "stack" /\ x.nav = u.nav
      /\ x.highlighted = IF t \in listed THEN t ELSE u.highlighted
      /\ u.opened = t => x.stack = u.stack
      /\ Sourced(u) => Sourced(x)
      /\ Rooted(u) => Rooted(x)
  BY <1>1, <1>3, OpenStackOK DEF Base
<1> HIDE DEF x
<1>6. Ui' = x
  BY <1>4, <1>5, BecomesIs DEF UiOK
<1> QED BY <1>1, <1>3, <1>4, <1>5, <1>6, UiIs DEF Entering

\* The focus goes back from the favorites: the user leaves them, or they are not drawn.
Returning ==
    /\ focus = "favorites" /\ focus' = prevFocus
    /\ UNCHANGED <<prevFocus, listed, highlighted, pins>>

\* The focus moves, or the list and the favorites change; the work stays.
Refocusing ==
    /\ UNCHANGED <<opened, stack, expansions, pages, nav>>
    /\ \/ LeaveStack \/ Returning \/ CycleFocus \/ Pin
       \/ \E t \in Threads : SelectThread(t)
       \/ \E ts \in Filters : Search(ts)
       \/ \E panel \in {"list", "stack"} : FocusFavorites(panel)
       \/ \E pin \in pins : Unpin(pin)

\* The fields that a key of the lists leaves alone.
LEMMA RefocusKeeps ==
    ASSUME NEW v, v.opened = opened, v.stack = stack, v.expansions = expansions,
           v.pages = pages, v.nav = nav, Becomes(v)
    PROVE  UNCHANGED <<opened, stack, expansions, pages, nav>>
BY DEF Becomes

LEMMA Refocuses ==
    ASSUME \/ LeaveStack \/ LeaveFavorites \/ CycleFocus \/ Pin
           \/ \E t \in Threads : SelectThread(t)
           \/ \E ts \in Filters : Search(ts)
           \/ \E panel \in {"list", "stack"} : FocusFavorites(panel)
           \/ \E pin \in pins : Unpin(pin)
    PROVE  Refocusing
<1>1. ASSUME NEW x, \/ Becomes([Ui EXCEPT !.focus = x])
                    \/ Becomes([Ui EXCEPT !.highlighted = x])
                    \/ Becomes(Ui)
      PROVE  UNCHANGED <<opened, stack, expansions, pages, nav>>
  BY <1>1 DEF Becomes, Ui
<1>2. \E x : \/ Becomes([Ui EXCEPT !.focus = x])
             \/ Becomes([Ui EXCEPT !.highlighted = x])
             \/ Becomes(Ui)
  <2>1. CASE LeaveStack
    BY <2>1 DEF LeaveStack, OnStack
  <2>2. CASE LeaveFavorites
    BY <2>2 DEF LeaveFavorites
  <2>3. CASE CycleFocus
    BY <2>3 DEF CycleFocus
  <2>4. CASE Pin
    BY <2>4 DEF Pin
  <2>5. CASE \E t \in Threads : SelectThread(t)
    BY <2>5 DEF SelectThread
  <2>6. CASE \E ts \in Filters : Search(ts)
    <3>1. PICK ts \in Filters : Search(ts)
      BY <2>6
    <3>2. Becomes([Ui EXCEPT !.highlighted =
                      IF ts = {} \/ Ui.highlighted \in ts THEN Ui.highlighted
                      ELSE FirstOf(ts)])
      BY <3>1 DEF Search, Ui
    <3> QED BY <3>2
  <2>7. CASE \E panel \in {"list", "stack"} : FocusFavorites(panel)
    BY <2>7 DEF FocusFavorites
  <2>8. CASE \E pin \in pins : Unpin(pin)
    <3>1. PICK pin \in pins : Unpin(pin)
      BY <2>8
    <3>2. Becomes([Ui EXCEPT !.focus = CASE pins # {pin} -> Ui.focus
                                         [] pins = {pin} /\ opened # NoThread -> "stack"
                                         [] OTHER -> "list"])
      BY <3>1 DEF Unpin, Ui
    <3> QED BY <3>2
  <2> QED BY <2>1, <2>2, <2>3, <2>4, <2>5, <2>6, <2>7, <2>8
<1>3. UNCHANGED <<opened, stack, expansions, pages, nav>>
  BY <1>1, <1>2
<1>4. LeaveFavorites => Returning
  BY DEF LeaveFavorites, Returning, Press, Becomes, Ui
<1> QED BY <1>3, <1>4 DEF Refocusing

\* The state stays as it is, but for the phase of the loop and the spinner.
LEMMA StillQuiet ==
    ASSUME Base,
           UNCHANGED <<focus, prevFocus, listed, highlighted, opened, stack,
                       expansions, pages, nav, pins>>
    PROVE  Quietly
<1>1. PICK u : u = Ui
  OBVIOUS
<1>2. Ui' = [u EXCEPT !.spinner = spinner']
  BY <1>1 DEF Ui
<1>3. Quiet(u, [u EXCEPT !.spinner = spinner'])
  BY <1>1, QuietSpinner DEF Base
<1> QED BY <1>1, <1>2, <1>3 DEF Quietly

\* What a step of the loop may be.
LEMMA Steps ==
    ASSUME Base, [Next]_vars
    PROVE  Quietly \/ Escaping \/ Resuming \/ Jumping \/ Entering \/ Refocusing
<1>1. CASE UNCHANGED vars
  BY <1>1, StillQuiet DEF vars
<1>2. CASE Tick
  BY <1>2, StillQuiet DEF Tick
<1>9. CASE UpdateSpinner
  <2>1. UNCHANGED <<prevFocus, listed, highlighted, opened, stack, expansions, pages,
                    nav, pins>>
    BY <1>9 DEF UpdateSpinner
  <2>2. focus' = focus \/ (focus = "favorites" /\ focus' = prevFocus)
    BY <1>9 DEF UpdateSpinner, Render
  <2>3. CASE focus' = focus
    BY <2>1, <2>3, StillQuiet
  <2>4. CASE focus = "favorites" /\ focus' = prevFocus
    BY <2>1, <2>4 DEF Refocusing, Returning
  <2> QED BY <2>2, <2>3, <2>4
<1>3. CASE StackKey
  <2>1. CASE \/ Press("Move", "stack") /\ \E r \in FlatItems(stack) : Move(r)
             \/ OpenFrame \/ CloseFrame \/ SwitchSection \/ GoToParent
    BY <2>1, RowKeys
  <2>2. CASE OpenObject \/ CloseObject \/ OpenPages \/ ClosePages \/ EscapeLoading
    BY <2>2, ValueKeys
  <2>3. CASE OpenChunk \/ CloseChunk
    BY <2>3, ChunkKeys
  <2>4. CASE BatchExpand
    BY <2>4, BatchKey
  <2>5. CASE EscapeWalk
    BY <2>5, EscapeKeys
  <2>6. CASE LeaveStack \/ Pin
    BY <2>6, Refocuses
  <2> QED BY <1>3, <2>1, <2>2, <2>3, <2>4, <2>5, <2>6 DEF StackKey
<1>4. CASE ListKey
  <2>1. CASE EnterThread
    BY <2>1, Enters
  <2> QED BY <1>4, <2>1, Refocuses DEF ListKey
<1>5. CASE FavoritesKey
  <2>1. CASE \E pin \in pins : GoToPin(pin)
    BY <2>1, Jumps
  <2> QED BY <1>5, <2>1, Refocuses DEF FavoritesKey
<1>6. CASE PollExpansions
  BY <1>6, ExpansionPoll, Resumes DEF PollExpansions
<1>7. CASE PollPages
  BY <1>7, PagePoll, Resumes DEF PollPages
<1>8. CASE ResumeYielded
  BY <1>8, Resumes
<1> QED BY <1>1, <1>2, <1>3, <1>4, <1>5, <1>6, <1>7, <1>8, <1>9 DEF Next

\* The first thread of the list that passes the filter is a thread of it.
LEMMA FirstListed ==
    ASSUME NEW ts \in Filters, ts # {}
    PROVE  FirstOf(ts) \in ts
<1> DEFINE S == {i \in DOMAIN ThreadList : ThreadList[i] \in ts}
<1>1. ThreadList \in Seq(Range(ThreadList)) /\ ts \subseteq Range(ThreadList)
  BY ThreadAssumption
<1>2. S # {} /\ S \subseteq Nat
  <2>1. PICK t : t \in ts
    OBVIOUS
  <2>2. PICK i \in DOMAIN ThreadList : ThreadList[i] = t
    BY <1>1, <2>1 DEF Range
  <2>3. DOMAIN ThreadList \subseteq Nat
    BY <1>1, LenProperties
  <2> QED BY <2>1, <2>2, <2>3
<1>3. PICK n \in S : \A m \in S : n <= m
  BY <1>2, NatMinimum
<1>4. Min(S) \in S
  BY <1>2, <1>3 DEF Min
<1> QED BY <1>4 DEF FirstOf

LEMMA FirstBase == Init => Base
<1> SUFFICES ASSUME Init PROVE Base
  OBVIOUS
<1>1. UiOK(Ui)
  <2>1. IsSeq(<<>>)
    BY DEF IsSeq
  <2>2. StackOK(NewStack(<<>>))
    BY <2>1, NewStackOK
  <2>3. Has(Ui, UiFields)
    BY DEF Ui, Has, UiFields
  <2> QED BY <2>2, <2>3, UiIs DEF Init, UiOK, PagesOK, NavOK
<1>2. PinsOK
  BY DEF Init, PinsOK
<1>3. ListOK
  <2>1. Threads # {} => Head(ThreadList) \in Threads
    BY ThreadAssumption, HeadTailProperties DEF Threads, Range
  <2> QED BY <2>1 DEF Init, ListOK
<1> QED BY <1>1, <1>2, <1>3 DEF Base

\* The thread selected by a walk is one of the list.
LEMMA StartedThread ==
    ASSUME NEW v, NEW t \in Threads, Started(v, t)
    PROVE  /\ v.highlighted \in {highlighted, t}
           /\ \/ v.opened = t /\ v.focus = "stack"
              \/ v.opened = opened /\ v.focus = focus /\ opened # NoThread
BY DEF Started

LEMMA BaseKept == ASSUME Base, [Next]_vars PROVE Base'
<1>1. UiOK(Ui')
  <2>1. CASE Quietly \/ Escaping \/ Jumping \/ Entering
    BY <2>1 DEF Quietly, Quiet, Escaping, Calm, Jumping, Entering
  <2>2. CASE Resuming
    BY <2>2 DEF Resuming, Walked
  <2>3. CASE Refocusing
    <3>1. Has(Ui', UiFields)
      BY DEF Ui, Has, UiFields
    <3>2. UNCHANGED <<opened, stack, expansions, pages, nav>>
      BY <2>3 DEF Refocusing
    <3> QED BY <3>1, <3>2, UiIs DEF Base, UiOK
  <2> QED BY <2>1, <2>2, <2>3, Steps
<1>2. PinsOK'
  <2>1. CASE UNCHANGED pins
    BY <2>1 DEF Base, PinsOK
  <2>2. CASE Pin
    <3>1. IsPath(Here)
      <4>1. StackOK(stack) /\ stack.cursor.kind = "at"
        BY <2>2, UiIs DEF Base, UiOK, Pin, OnRow
      <4> QED BY <4>1, CursorRow DEF Here
    <3>2. \A pin \in pins' : pin \in pins \/ pin = [thread |-> SelectedThread(Ui), path |-> Here]
      BY <2>2 DEF Pin
    <3> QED BY <3>1, <3>2 DEF Base, PinsOK
  <2>3. CASE \E pin \in pins : Unpin(pin)
    BY <2>3 DEF Base, PinsOK, Unpin
  <2>4. CASE Refocusing
    BY <2>1, <2>2, <2>3, <2>4
    DEF Refocusing, LeaveStack, OnStack, Returning, CycleFocus, SelectThread,
        Search, FocusFavorites
  <2> QED BY <2>1, <2>4, Steps DEF Quietly, Escaping, Resuming, Jumping, Entering
<1>3. ListOK'
  <2>1. CASE Quietly \/ Escaping \/ Entering
    BY <2>1, UiIs DEF Quietly, Quiet, Escaping, Calm, Same, Entering, Base, ListOK
  <2>2. CASE Resuming \/ Jumping
    <3>1. highlighted' = highlighted \/ highlighted' \in Threads
      BY <2>2, StartedThread, UiIs DEF Resuming, Jumping, Walked, Same
    <3>2. UNCHANGED listed
      BY <2>2 DEF Resuming, Jumping
    <3> QED BY <3>1, <3>2 DEF Base, ListOK
  <2>3. CASE Refocusing
    <3>1. CASE UNCHANGED <<listed, highlighted>>
      BY <3>1 DEF Base, ListOK
    <3>2. CASE \E t \in Threads : SelectThread(t)
      <4>1. PICK t \in Threads : SelectThread(t)
        BY <3>2
      <4>2. highlighted' = t /\ listed' = listed
        BY <4>1 DEF SelectThread, Becomes, Ui
      <4> QED BY <4>2 DEF Base, ListOK
    <3>3. CASE \E ts \in Filters : Search(ts)
      <4>1. PICK ts \in Filters : Search(ts)
        BY <3>3
      <4>2. /\ listed' = ts
            /\ highlighted' = IF ts = {} \/ highlighted \in ts THEN highlighted
                              ELSE FirstOf(ts)
        BY <4>1 DEF Search, Becomes, Ui
      <4>3. ts \subseteq Threads
        BY ThreadAssumption DEF Threads
      <4> QED BY <4>2, <4>3, FirstListed DEF Base, ListOK
    <3> QED BY <2>3, <3>1, <3>2, <3>3
        DEF Refocusing, LeaveStack, OnStack, Returning, CycleFocus, Pin, Unpin,
            FocusFavorites, Becomes, Ui
  <2> QED BY <2>1, <2>2, <2>3, Steps
<1> QED BY <1>1, <1>2, <1>3 DEF Base

-----------------------------------------------------------------------------
(* The panel with the focus                                                *)

FocusInv ==
    /\ focus \in {"list", "stack", "favorites"}
    /\ prevFocus \in {"list", "stack"}
    /\ focus = "stack" \/ prevFocus = "stack" => opened # NoThread
    /\ focus = "favorites" => pins # {}

\* The keys that move the focus.
LEMMA FocusMoves ==
    ASSUME FocusInv, Refocusing
    PROVE  FocusInv'
<1>1. opened' = opened
  BY DEF Refocusing
<1>2. CASE LeaveStack
  BY <1>1, <1>2 DEF LeaveStack, OnStack, Becomes, Ui, FocusInv
<1>3. CASE Returning
  BY <1>1, <1>3 DEF Returning, FocusInv
<1>4. CASE CycleFocus
  <2>1. PICK visible \in FavoritesVisible : Becomes([Ui EXCEPT !.focus = NextPanel(visible)])
    BY <1>4 DEF CycleFocus
  <2>2. /\ focus' = NextPanel(visible)
        /\ prevFocus' = prevFocus /\ pins' = pins
    BY <1>4, <2>1 DEF CycleFocus, Becomes, Ui
  <2>3. visible \in BOOLEAN /\ (visible => pins # {})
    BY DEF FavoritesVisible
  <2> QED BY <1>1, <2>2, <2>3 DEF FocusInv, NextPanel
<1>5. CASE Pin
  <2>1. focus = "stack" /\ focus' = focus /\ prevFocus' = prevFocus
    BY <1>5 DEF Pin, Press, Becomes, Ui
  <2> QED BY <1>1, <2>1 DEF FocusInv
<1>6. CASE \E t \in Threads : SelectThread(t)
  BY <1>1, <1>6 DEF SelectThread, Becomes, Ui, FocusInv
<1>7. CASE \E ts \in Filters : Search(ts)
  BY <1>1, <1>7 DEF Search, Becomes, Ui, FocusInv
<1>8. CASE \E panel \in {"list", "stack"} : FocusFavorites(panel)
  <2>1. PICK panel \in {"list", "stack"} : FocusFavorites(panel)
    BY <1>8
  <2>2. /\ focus = panel /\ pins # {} /\ focus' = "favorites" /\ prevFocus' = panel
        /\ pins' = pins
    BY <2>1 DEF FocusFavorites, Press, Becomes, Ui
  <2> QED BY <1>1, <2>2 DEF FocusInv
<1>9. CASE \E pin \in pins : Unpin(pin)
  <2>1. PICK pin \in pins : Unpin(pin)
    BY <1>9
  <2>2. /\ pins' = pins \ {pin} /\ prevFocus' = prevFocus
        /\ focus' = CASE pins # {pin} -> focus
                      [] pins = {pin} /\ opened # NoThread -> "stack"
                      [] OTHER -> "list"
    BY <2>1 DEF Unpin, Becomes, Ui
  <2> QED BY <1>1, <2>2 DEF FocusInv
<1> QED BY <1>2, <1>3, <1>4, <1>5, <1>6, <1>7, <1>8, <1>9 DEF Refocusing

LEMMA FocusKept == ASSUME Base, FocusInv, [Next]_vars PROVE FocusInv'
<1>1. NoThread \notin Threads
  BY ThreadAssumption DEF Threads
<1>2. CASE Quietly \/ Escaping
  <2>1. UNCHANGED <<focus, opened, prevFocus, pins>>
    BY <1>2, UiIs DEF Quietly, Quiet, Escaping, Calm, Same
  <2> QED BY <2>1 DEF FocusInv
<1>3. CASE Resuming \/ Jumping \/ Entering
  <2>1. UNCHANGED <<prevFocus, pins>>
    BY <1>3 DEF Resuming, Jumping, Entering
  <2>2. \/ focus' = "stack" /\ opened' # NoThread
        \/ focus' = focus /\ opened' = opened
    <3>1. CASE Resuming
      BY <1>1, <3>1, StartedThread, UiIs DEF Resuming, Walked, Same
    <3>2. CASE Jumping
      BY <1>1, <3>2, StartedThread DEF Jumping, Walked, Same
    <3>3. CASE Entering
      BY <1>1, <3>3 DEF Entering
    <3> QED BY <1>3, <3>1, <3>2, <3>3
  <2>3. opened # NoThread => opened' # NoThread
    <3>1. CASE Resuming
      BY <1>1, <3>1, StartedThread, UiIs DEF Resuming, Walked, Same
    <3>2. CASE Jumping \/ Entering
      BY <1>1, <3>2, StartedThread DEF Jumping, Entering, Walked, Same
    <3> QED BY <1>3, <3>1, <3>2
  <2> QED BY <2>1, <2>2, <2>3 DEF FocusInv
<1> QED BY <1>2, <1>3, FocusMoves, Steps

\* The panel with the focus has something to show, whatever the user does: the
\* stack that has it is of an opened thread, and the favorites that have it are
\* not empty (App::handle_thread_list_input, handle_favorites_input, cycle_focus).
THEOREM FocusVisible == Spec => []FocusIsVisible
<1>1. Init => FocusInv
  BY DEF Init, FocusInv
<1>2. FocusInv => FocusIsVisible
  BY DEF FocusInv, FocusIsVisible
<1> QED BY <1>1, <1>2, FirstBase, BaseKept, FocusKept, PTL DEF Spec

-----------------------------------------------------------------------------
(* The thread of the work                                                  *)

OpenInv ==
    /\ listed = Threads
    /\ nav # NoNav => opened = nav.thread /\ focus \in {"stack", "favorites"}
    /\ focus # "list" => highlighted = opened /\ opened # NoThread
    /\ focus = "favorites" => prevFocus = "stack"
    /\ NavRooted(Ui)

\* A user who leaves the stack by Escape alone, and searches no thread.
Straight == Keys \intersect {"Tab", "Search", "ListFavorites"} = {}

\* Work that stays in a stack that stays.
LEMMA RootedStays ==
    ASSUME NavRooted(Ui), UNCHANGED <<opened, stack, expansions, pages, nav>>
    PROVE  NavRooted(Ui')
BY UiIs DEF NavRooted, Rooted

LEMMA CalmRooted ==
    ASSUME NEW u, NEW v, NavRooted(u), Calm(u, v)
    PROVE  NavRooted(v)
<1>1. \A p : Within(u.stack, p) => Within(v.stack, p)
  BY DEF Calm, Same, Within
<1> QED BY <1>1 DEF Calm, NavRooted

LEMMA OpenMoves ==
    ASSUME Straight, FocusInv, OpenInv, Refocusing
    PROVE  OpenInv'
<1>1. UNCHANGED <<opened, nav>> /\ NavRooted(Ui')
  BY RootedStays DEF Refocusing, OpenInv
<1>2. CASE LeaveStack
  BY <1>1, <1>2 DEF LeaveStack, OnStack, Becomes, Ui, OpenInv
<1>3. CASE Returning
  BY <1>1, <1>3 DEF Returning, OpenInv
<1>4. CASE CycleFocus
  BY <1>4 DEF CycleFocus, Press, Straight
<1>5. CASE Pin
  <2>1. UNCHANGED <<focus, prevFocus, listed, highlighted>>
    BY <1>5 DEF Pin, Becomes, Ui
  <2> QED BY <1>1, <2>1 DEF OpenInv
<1>6. CASE \E t \in Threads : SelectThread(t)
  <2>1. focus = "list" /\ UNCHANGED <<focus, prevFocus, listed>>
    BY <1>6 DEF SelectThread, Press, Becomes, Ui
  <2> QED BY <1>1, <2>1 DEF OpenInv
<1>7. CASE \E ts \in Filters : Search(ts)
  BY <1>7 DEF Search, Press, Straight
<1>8. CASE \E panel \in {"list", "stack"} : FocusFavorites(panel)
  <2>1. PICK panel \in {"list", "stack"} : FocusFavorites(panel)
    BY <1>8
  <2>2. panel = "stack"
    BY <2>1 DEF FocusFavorites, Press, Straight
  <2>3. /\ focus = "stack" /\ focus' = "favorites" /\ prevFocus' = "stack"
        /\ UNCHANGED <<listed, highlighted>>
    BY <2>1, <2>2 DEF FocusFavorites, Press, Becomes, Ui
  <2> QED BY <1>1, <2>3 DEF OpenInv
<1>9. CASE \E pin \in pins : Unpin(pin)
  <2>1. PICK pin \in pins : Unpin(pin)
    BY <1>9
  <2>2. /\ focus = "favorites" /\ UNCHANGED <<prevFocus, listed, highlighted>>
        /\ focus' = CASE pins # {pin} -> focus
                      [] pins = {pin} /\ opened # NoThread -> "stack"
                      [] OTHER -> "list"
    BY <2>1 DEF Unpin, Press, Becomes, Ui
  <2>3. focus' \in {"favorites", "stack"}
    BY <2>2 DEF OpenInv
  <2> QED BY <1>1, <2>2, <2>3 DEF OpenInv
<1> QED BY <1>2, <1>3, <1>4, <1>5, <1>6, <1>7, <1>8, <1>9 DEF Refocusing

LEMMA OpenKept ==
    ASSUME Straight, Base, FocusInv, OpenInv, [Next]_vars
    PROVE  OpenInv'
<1>1. NoThread \notin Threads
  BY ThreadAssumption DEF Threads
<1>2. CASE Quietly \/ Escaping
  <2>1. Calm(Ui, Ui') /\ UNCHANGED <<prevFocus, listed>>
    BY <1>2 DEF Quietly, Quiet, Escaping, Calm
  <2>2. NavRooted(Ui')
    BY <2>1, CalmRooted DEF OpenInv
  <2>3. UNCHANGED <<highlighted, focus, opened>> /\ (nav' = nav \/ nav' = NoNav)
    BY <2>1, UiIs DEF Calm, Same
  <2> QED BY <2>1, <2>2, <2>3 DEF OpenInv
<1>3. CASE Resuming
  <2>1. PICK v : \E done \in 0..nav.done :
                    Started(v, nav.thread) /\ Walked(v, nav.thread, nav.orig, done, Ui')
    BY <1>3 DEF Resuming
  <2>2. PICK done \in 0..nav.done :
                    Started(v, nav.thread) /\ Walked(v, nav.thread, nav.orig, done, Ui')
    BY <2>1
  <2>3. /\ nav # NoNav /\ nav.thread \in Threads /\ opened = nav.thread
        /\ highlighted = opened /\ opened # NoThread
    BY <1>3 DEF Resuming, OpenInv
  <2>4. SelectedThread(Ui) = nav.thread
    BY <2>3, UiIs DEF SelectedThread, OpenInv
  <2>5. /\ v.opened = opened /\ v.focus = focus /\ v.highlighted = highlighted
        /\ v.stack = stack /\ Rooted(v)
    BY <2>2, <2>3, <2>4 DEF Started, OpenInv, NavRooted
  <2>6. done >= 1 => Within(stack, nav.orig)
    <3>1. nav.done \in Nat
      BY <2>3, UiIs DEF Base, UiOK, NavOK
    <3>2. done >= 1 => nav.done >= 1
      BY <3>1
    <3> QED BY <2>3, <3>2, UiIs DEF OpenInv, NavRooted
  <2>7. NavRooted(Ui') /\ UNCHANGED <<highlighted, focus, opened>>
        /\ (nav' = NoNav \/ nav'.thread = nav.thread)
    BY <2>2, <2>5, <2>6, UiIs DEF Walked, Same
  <2> QED BY <1>3, <2>3, <2>7 DEF Resuming, OpenInv
<1>4. CASE Jumping
  <2>0. PICK pin \in pins : \E v, r :
          /\ pin.thread \in Threads
          /\ Started(v, pin.thread) /\ Walked(v, pin.thread, pin.path, 0, r)
          /\ focus' = "stack"
          /\ highlighted' = r.highlighted /\ opened' = r.opened /\ nav' = r.nav
          /\ NavRooted(r) => NavRooted(Ui')
    BY <1>4 DEF Jumping
  <2>1. PICK v, r :
          /\ pin.thread \in Threads
          /\ Started(v, pin.thread) /\ Walked(v, pin.thread, pin.path, 0, r)
          /\ focus' = "stack"
          /\ highlighted' = r.highlighted /\ opened' = r.opened /\ nav' = r.nav
          /\ NavRooted(r) => NavRooted(Ui')
    BY <2>0
  <2>2. v.highlighted = pin.thread /\ v.opened = pin.thread /\ Rooted(v)
    <3>1. highlighted = opened /\ opened # NoThread /\ focus = "favorites"
      BY <1>4 DEF Jumping, OpenInv
    <3>2. SelectedThread(Ui) = highlighted
      BY <2>1, UiIs DEF SelectedThread, OpenInv
    <3> QED BY <2>1, <3>1, <3>2 DEF Started, OpenInv, NavRooted
  <2>3. NavRooted(r)
    BY <2>1, <2>2 DEF Walked
  <2>4. /\ highlighted' = pin.thread /\ opened' = pin.thread
        /\ nav' = NoNav \/ nav'.thread = pin.thread
    BY <2>1, <2>2 DEF Walked, Same
  <2> QED BY <1>1, <1>4, <2>1, <2>3, <2>4 DEF Jumping, OpenInv
<1>5. CASE Entering
  <2>1. nav = NoNav
    BY <1>5 DEF Entering, OpenInv
  <2>2. NavRooted(Ui')
    BY <1>5, <2>1, UiIs DEF Entering, OpenInv, NavRooted
  <2> QED BY <1>1, <1>5, <2>1, <2>2 DEF Entering, OpenInv
<1> QED BY <1>2, <1>3, <1>4, <1>5, OpenMoves, Steps

\* The pending work is of the opened thread, and a walk goes through the stack
\* of its pin's thread, as long as the user goes from the stack to the list by
\* Escape alone and neither searches the list nor opens the favorites from it
\* (open_stack_for_selected_thread, navigate_walk, app/mod.rs).
THEOREM WorkIsOfOpenThread ==
    ASSUME Keys \intersect {"Tab", "Search", "ListFavorites"} = {}
    PROVE  Spec => []WorkOfOpenThread
<1>1. Straight
  BY DEF Straight
<1>2. Init => OpenInv
  <2> SUFFICES ASSUME Init PROVE OpenInv
    OBVIOUS
  <2>1. NavRooted(Ui)
    BY UiIs DEF Init, NavRooted, Rooted
  <2> QED BY <2>1 DEF Init, OpenInv
<1>3. Init => FocusInv
  BY DEF Init, FocusInv
<1>4. OpenInv => WorkOfOpenThread
  BY UiIs DEF OpenInv, NavRooted, Rooted, Within, WorkOfOpenThread
<1>5. Base /\ FocusInv /\ OpenInv /\ [Next]_vars => OpenInv'
  BY <1>1, OpenKept
<1> QED BY <1>2, <1>3, <1>4, <1>5, FirstBase, BaseKept, FocusKept, PTL DEF Spec

-----------------------------------------------------------------------------
(* The collections                                                         *)

LEMMA SourcedKept ==
    ASSUME "EscapePage" \notin Keys, Base, Sourced(Ui), [Next]_vars
    PROVE  Sourced(Ui')
<1>1. CASE Quietly
  BY <1>1 DEF Quietly, Quiet
<1>2. CASE Escaping
  BY <1>2 DEF Escaping
<1>3. CASE Resuming
  BY <1>3 DEF Resuming, Started, Walked
<1>4. CASE Jumping
  BY <1>4 DEF Jumping, Started, Walked
<1>5. CASE Entering
  BY <1>5 DEF Entering
<1>6. CASE Refocusing
  BY <1>6, UiIs DEF Refocusing, Sourced
<1> QED BY <1>1, <1>2, <1>3, <1>4, <1>5, <1>6, Steps

\* An open collection has its first page or a worker that fetches it, and so
\* has each chunk that says it is loading, unless Escape gives up a walk that
\* awaits a page: it drops the worker and leaves the collection open
\* (cancel_pending_navigation, app/mod.rs).
THEOREM ChunksSourced ==
    ASSUME "EscapePage" \notin Keys
    PROVE  Spec => []ChunksHaveSource
<1>1. Init => Sourced(Ui)
  <2>1. Init => DOMAIN stack.chunks = {}
    BY DEF Init, NewStack
  <2> QED BY <2>1, UiIs DEF Sourced, Sources
<1>2. Sourced(Ui) => ChunksHaveSource
  BY UiIs DEF Sourced, Sources, ChunksHaveSource
<1>3. Base /\ Sourced(Ui) /\ [Next]_vars => Sourced(Ui')
  BY SourcedKept
<1> DEFINE S == Sourced(Ui)
<1>4. S' <=> Sourced(Ui')
  OBVIOUS
<1> QED BY <1>1, <1>2, <1>3, <1>4, FirstBase, BaseKept, PTL DEF Spec

-----------------------------------------------------------------------------
(* The expansions that were cancelled                                      *)

\* Without go-to-pin no walk begins.
LEMMA NoWalk ==
    ASSUME "GoToPin" \notin Keys, Base, nav = NoNav, [Next]_vars
    PROVE  nav' = NoNav
<1>1. CASE Quietly \/ Escaping
  BY <1>1, UiIs DEF Quietly, Quiet, Escaping, Calm
<1>2. CASE Resuming \/ Jumping \/ Entering
  BY <1>2 DEF Resuming, Jumping, Entering
<1>3. CASE Refocusing
  BY <1>3 DEF Refocusing
<1> QED BY <1>1, <1>2, <1>3, Steps

\* A row but for which the phases stay.
LEMMA OtherPhase ==
    ASSUME NEW s, IsStack(s), NEW q, NEW ph, NEW p,
           p # q \/ ph # "Expanded", Phase(s, p) # "Expanded"
    PROVE  Phase(SetPhase(s, q, ph), p) # "Expanded"
<1>1. SetPhase(s, q, ph).phases = Put(s.phases, q, ph)
  BY DEF SetPhase, IsStack, Has, StackFields
<1> QED BY <1>1 DEF Phase, Put

\* One answer, or none, of a worker leaves the other rows closed, and a row
\* whose worker has said that it loads and that no longer says so.
LEMMA PollCloses ==
    ASSUME Base, NEW q \in DOMAIN expansions,
           \/ ExpansionAnswered(q) \/ ExpansionRefused(q)
           \/ ExpansionNotReady(q) \/ ExpansionLost(q),
           NEW p \in DOMAIN expansions,
           expansions[p].shown, Phase(stack, p) = "Collapsed"
    PROVE  Phase(stack', p) # "Expanded"
<1>1. PICK s : s = stack
  OBVIOUS
<1>2. IsStack(s) /\ StackOK(s)
  BY <1>1, UiIs DEF Base, UiOK, StackOK
<1>3. PICK i : i = expansions[q].id
  OBVIOUS
<1>4. CASE ExpansionAnswered(q)
  <2>1. \/ stack' = s
        \/ /\ ~(expansions[q].shown /\ Phase(s, q) # "Loading")
           /\ stack' = ExpansionDone(s, q, i)
    BY <1>1, <1>3, <1>4 DEF ExpansionAnswered, Becomes, Ui
  <2>2. CASE stack' = ExpansionDone(s, q, i) /\ p # q
    <3>1. ExpansionDone(s, q, i).phases = SetPhase(s, q, "Expanded").phases
      <4>1. IsStack(SetPhase(s, q, "Expanded"))
        BY <1>2 DEF SetPhase, IsStack, Has, StackFields
      <4> QED BY <4>1 DEF ExpansionDone, IsStack, Has, StackFields
    <3>2. Phase(SetPhase(s, q, "Expanded"), p) # "Expanded"
      BY <1>1, <1>2, <2>2, OtherPhase
    <3> QED BY <2>2, <3>1, <3>2 DEF Phase
  <2> QED BY <1>1, <2>1, <2>2
<1>5. CASE ExpansionRefused(q) \/ ExpansionLost(q)
  <2>1. stack' = ExpansionFailed(s, q, i)
    BY <1>1, <1>3, <1>5 DEF ExpansionRefused, ExpansionLost, Failed, Becomes, Ui, Awaits
  <2>2. ExpansionFailed(s, q, i).phases = SetPhase(s, q, "Failed").phases
    <3>1. IsStack(SetPhase(s, q, "Failed"))
      BY <1>2 DEF SetPhase, IsStack, Has, StackFields
    <3>2. /\ IsStack(WithFailure(s, q, i))
          /\ WithFailure(s, q, i).phases = SetPhase(s, q, "Failed").phases
      BY <3>1 DEF WithFailure, IsStack, Has, StackFields
    <3>3. \A t, flat : IsStack(t) => Reseated(t, flat).phases = t.phases
      BY DEF Reseated, SetCursor, IsStack, Has, StackFields
    <3> QED BY <3>2, <3>3 DEF ExpansionFailed
  <2>3. Phase(SetPhase(s, q, "Failed"), p) # "Expanded"
    BY <1>1, <1>2, OtherPhase
  <2> QED BY <2>1, <2>2, <2>3 DEF Phase
<1>6. CASE ExpansionNotReady(q)
  <2>1. stack' = s \/ stack' = SetPhase(s, q, "Loading")
    BY <1>1, <1>6 DEF ExpansionNotReady, Becomes, Ui
  <2>2. Phase(SetPhase(s, q, "Loading"), p) # "Expanded"
    BY <1>1, <1>2, OtherPhase
  <2> QED BY <1>1, <2>1, <2>2
<1> QED BY <1>4, <1>5, <1>6

\* The result of an expansion the user cancelled is thrown away: a row that was
\* shown loading and was collapsed does not open by itself, as long as no walk
\* opens the collections on its way (poll_expansions, app/mod.rs).
THEOREM CancelledRowsClosed ==
    ASSUME "GoToPin" \notin Keys
    PROVE  Spec => CancelledStaysClosed
<1> DEFINE Still == nav = NoNav
           Closed == \A p \in DOMAIN expansions :
                        expansions[p].shown /\ Phase(stack, p) = "Collapsed"
                           /\ pc = "expansions" => Phase(stack', p) # "Expanded"
<1>1. Init => Still
  BY DEF Init
<1>2. Base /\ Still /\ [Next]_vars => Still'
  BY NoWalk
<1>3. Base /\ Still /\ [Next]_vars => Closed
  <2> SUFFICES ASSUME Base, nav = NoNav, Next, pc = "expansions",
                      NEW p \in DOMAIN expansions, expansions[p].shown,
                      Phase(stack, p) = "Collapsed"
               PROVE  Phase(stack', p) # "Expanded"
    BY DEF vars
  <2>1. CASE \E q \in DOMAIN expansions :
                \/ ExpansionAnswered(q) \/ ExpansionRefused(q)
                \/ ExpansionNotReady(q) \/ ExpansionLost(q)
    BY <2>1, PollCloses
  <2>2. CASE ExpansionsPolled
    BY <2>2 DEF ExpansionsPolled, Awaits, Becomes, Ui
  <2>3. ~(Tick \/ ListKey \/ FavoritesKey)
    BY DEF Tick, ListKey, FavoritesKey, SelectThread, Search, EnterThread, FocusFavorites,
           LeaveFavorites, CycleFocus, Unpin, GoToPin, Press
  <2>4. ~StackKey
    BY DEF StackKey, OpenFrame, OpenObject, OpenPages, OpenChunk, CloseFrame, CloseObject,
           ClosePages, CloseChunk, SwitchSection, GoToParent, BatchExpand, EscapeWalk,
           EscapeLoading, LeaveStack, Pin, OnFrame, OnValue, OnRow, OnChunk, OnLoading,
           OnStack, Press
  <2>5. ~(PollPages \/ ResumeYielded \/ UpdateSpinner)
    BY DEF PollPages, PageAnswered, PageRefused, PageNotReady, PageLost, PagesPolled,
           ResumeYielded, UpdateSpinner
  <2> QED BY <2>1, <2>2, <2>3, <2>4, <2>5 DEF Next, PollExpansions
<1>4. Base /\ Still /\ [Next]_vars => [Closed]_vars
  BY <1>3
<1> QED BY <1>1, <1>2, <1>4, FirstBase, BaseKept, PTL DEF Spec, CancelledStaysClosed
=============================================================================
