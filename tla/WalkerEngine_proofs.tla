------------------------- MODULE WalkerEngine_proofs -------------------------
(* Theorems about WalkerEngine, for every dump, interval and set of threads. *)
EXTENDS WalkerEngine, FiniteSetTheorems, SequenceTheorems, TLAPS

LEMMA ChainType ==
    ASSUME NEW c \in Collections
    PROVE  /\ Chain[c] \in Seq(Nodes)
           /\ Len(Chain[c]) \in Nat
           /\ \A i \in 1..Len(Chain[c]) : Chain[c][i] \in Nodes
           /\ Head1(c) \in Nodes \union {End}
           /\ Size[c] \in Nat
BY HeapAssumption DEF Head1

LEMMA AnyCollectionType == AnyCollection \in Collections
BY HeapAssumption DEF AnyCollection

LEMMA SuccessorType ==
    ASSUME NEW c \in Collections, NEW n
    PROVE  Successor(c, n) \in Nodes \union {End}
<1> DEFINE after == {i \in 2..Len(Chain[c]) : Chain[c][i - 1] = n}
<1>1. CASE after = {}
  BY <1>1 DEF Successor
<1>2. CASE after # {}
  <2> DEFINE j == CHOOSE i \in after : TRUE
  <2>1. j \in after
    BY <1>2
  <2>2. j \in 1..Len(Chain[c])
    BY <2>1, ChainType
  <2>3. Chain[c][j] \in Nodes
    BY <2>2, ChainType
  <2> QED BY <2>3, <1>2 DEF Successor
<1> QED BY <1>1, <1>2

LEMMA SuccessorAt ==
    ASSUME NEW c \in Collections, NEW i \in Nat, i < Len(Chain[c])
    PROVE  Successor(c, NodeAt(c, i)) = NodeAt(c, i + 1)
<1> DEFINE n == NodeAt(c, i)
           after == {k \in 2..Len(Chain[c]) : Chain[c][k - 1] = n}
<1>1. n = Chain[c][i + 1] /\ i + 1 \in 1..Len(Chain[c])
  BY ChainType DEF NodeAt
<1>2. \A k \in after : k = i + 2
  <2> SUFFICES ASSUME NEW k \in after PROVE k = i + 2
    OBVIOUS
  <2>1. k - 1 \in 1..Len(Chain[c]) /\ Chain[c][k - 1] = Chain[c][i + 1]
    BY <1>1, ChainType
  <2>2. k - 1 = i + 1
    BY <2>1, <1>1, HeapAssumption
  <2> QED BY <2>2, ChainType
<1>3. CASE i + 1 < Len(Chain[c])
  <2>1. i + 2 \in after
    BY <1>1, <1>3, ChainType
  <2>2. (CHOOSE k \in after : TRUE) = i + 2
    BY <2>1, <1>2
  <2>3. Successor(c, n) = Chain[c][i + 2]
    BY <2>1, <2>2 DEF Successor
  <2> QED BY <2>3, <1>3 DEF NodeAt
<1>4. CASE ~(i + 1 < Len(Chain[c]))
  <2>1. after = {}
    BY <1>2, <1>4, ChainType
  <2> QED BY <2>1, <1>4 DEF Successor, NodeAt
<1> QED BY <1>3, <1>4

-----------------------------------------------------------------------------
(* Types.                                                                  *)

LEMMA MessageTypes ==
    /\ Complete \in Messages
    /\ \A cps \in Checkpoints : Batch(cps) \in Messages
    /\ \A m \in Messages : m.type = "Batch" => m.checkpoints \in Checkpoints
BY DEF Complete, Batch, Messages

LEMMA IdleType == Idle \in WalkType
BY AnyCollectionType DEF Idle, WalkType, States, Checkpoints

LEMMA RecordType ==
    ASSUME NEW si \in SI!Indexes, NEW e, NEW n \in Nodes
    PROVE  /\ SI!Record(si, e, n) \in SI!Indexes
           /\ SI!MarkComplete(si) \in SI!Indexes
<1>1. si.checkpoints \in Seq(Nodes)
  BY DEF SI!Indexes
<1>2. Append(si.checkpoints, n) \in Seq(Nodes)
  BY <1>1
<1>3. [si EXCEPT !.checkpoints = Append(si.checkpoints, n)] \in SI!Indexes
  BY <1>2 DEF SI!Indexes
<1>4. SI!Record(si, e, n) \in SI!Indexes
  BY <1>3 DEF SI!Record
<1>5. SI!MarkComplete(si) \in SI!Indexes
  BY DEF SI!Indexes, SI!MarkComplete
<1> QED BY <1>4, <1>5

LEMMA InitType == Init => TypeOK
<1> SUFFICES ASSUME Init PROVE TypeOK
  OBVIOUS
<1>1. SI!NewIndex \in SI!Indexes
  BY DEF SI!NewIndex, SI!Indexes
<1>2. /\ walkersLock \in Threads \union {NoThread}
      /\ skipLock \in Threads \union {NoThread}
      /\ walkers \in [Collections -> Walkers \union {NoWalker}]
      /\ indexed \in SUBSET Collections
      /\ skip \in [Collections -> SI!Indexes]
      /\ todo \in SUBSET Collections
  BY <1>1 DEF Init
<1>3. /\ walk \in [Walkers -> WalkType]
      /\ channel \in [Walkers -> Seq(Messages)]
  BY IdleType DEF Init
<1>4. /\ pc \in [Threads -> Labels]
      /\ serving \in [Threads -> Collections]
      /\ messages \in [Threads -> Seq(Messages)]
      /\ joining \in [Threads -> Walkers \union {NoWalker}]
  BY AnyCollectionType DEF Init, Labels
<1>5. /\ request \in [Pagers -> [offset : Nat, limit : Nat \ {0}]]
      /\ extract \in [Pagers -> [base : Nat, at : Nodes \union {End},
                                 items : Seq(Nodes)]]
      /\ page \in [Pagers -> [entries : Seq(Nodes), offset : Nat,
                              hasMore : BOOLEAN]]
  BY DEF Init, NoRequest, NoExtract, NoPage
<1> QED
  BY <1>2, <1>3, <1>4, <1>5 DEF TypeOK

\* The parts of a well-typed state that sequence operators work on.
LEMMA ElementTypes ==
    ASSUME TypeOK
    PROVE  /\ \A w \in Walkers : /\ walk[w] \in WalkType
                                 /\ channel[w] \in Seq(Messages)
                                 /\ walk[w].buffer \in Checkpoints
           /\ \A t \in Threads : /\ serving[t] \in Collections
                                 /\ messages[t] \in Seq(Messages)
           /\ \A p \in Pagers : /\ serving[p] \in Collections
                                /\ request[p].offset \in Nat
                                /\ request[p].limit \in Nat \ {0}
                                /\ extract[p].base \in Nat
                                /\ extract[p].at \in Nodes \union {End}
                                /\ extract[p].items \in Seq(Nodes)
           /\ \A c \in Collections : skip[c] \in SI!Indexes
BY DEF TypeOK, WalkType, Threads

LEMMA FrontMessage ==
    ASSUME NEW ms \in Seq(Messages), ms # << >>
    PROVE  /\ Head(ms) \in Messages
           /\ Tail(ms) \in Seq(Messages)
           /\ Head(ms).type = "Batch" => Head(ms).checkpoints \in Checkpoints
BY MessageTypes

LEMMA FrontCheckpoint ==
    ASSUME NEW cps \in Checkpoints, cps # << >>
    PROVE  /\ Head(cps) \in Nat \X Nodes
           /\ Tail(cps) \in Checkpoints
           /\ Head(cps)[1] \in Nat
           /\ Head(cps)[2] \in Nodes
BY DEF Checkpoints

\* Sequences that are emptied.
LEMMA EmptySequences ==
    << >> \in Checkpoints /\ << >> \in Seq(Messages) /\ << >> \in Seq(Nodes)
BY DEF Checkpoints

LEMMA BufferDropped ==
    ASSUME NEW r \in WalkType, NEW s \in States
    PROVE  [r EXCEPT !.state = s, !.buffer = << >>] \in WalkType
<1>1. \A b \in Checkpoints : [r EXCEPT !.state = s, !.buffer = b] \in WalkType
  BY DEF WalkType
<1> QED BY <1>1, EmptySequences

LEMMA FieldChanged ==
    ASSUME NEW r \in WalkType
    PROVE  /\ \A s \in States : [r EXCEPT !.state = s] \in WalkType
           /\ [r EXCEPT !.cancel = TRUE] \in WalkType
BY DEF WalkType

LEMMA SendType ==
    ASSUME channel \in [Walkers -> Seq(Messages)],
           NEW w \in Walkers, NEW m \in Messages, Send(w, m)
    PROVE  channel' \in [Walkers -> Seq(Messages)]
<1>1. Append(channel[w], m) \in Seq(Messages)
  OBVIOUS
<1> QED BY <1>1 DEF Send

LEMMA JoinedType ==
    ASSUME TypeOK, NEW t \in Threads, Joined(t)
    PROVE  /\ walk' \in [Walkers -> WalkType]
           /\ channel' \in [Walkers -> Seq(Messages)]
           /\ joining' \in [Threads -> Walkers \union {NoWalker}]
<1>1. /\ walk \in [Walkers -> WalkType]
      /\ channel \in [Walkers -> Seq(Messages)]
      /\ joining \in [Threads -> Walkers \union {NoWalker}]
  BY DEF TypeOK
<1>2. walk' = [walk EXCEPT ![joining[t]] = Idle]
  BY DEF Joined
<1>3. walk' \in [Walkers -> WalkType]
  BY <1>1, <1>2, IdleType
<1>4. channel' \in [Walkers -> Seq(Messages)]
  BY <1>1, EmptySequences DEF Joined
<1>5. joining' \in [Threads -> Walkers \union {NoWalker}]
  BY <1>1 DEF Joined
<1> QED BY <1>3, <1>4, <1>5

\* The walkers' own steps.
LEMMA WalkerTypeStep ==
    ASSUME TypeOK, NEW w \in Walkers, Walking(w) \/ WalkPanic(w)
    PROVE  TypeOK'
<1> USE ElementTypes
<1>0. /\ walk \in [Walkers -> WalkType]
      /\ channel \in [Walkers -> Seq(Messages)]
  BY DEF TypeOK
<1>1. CASE WalkNode(w)
  <2> DEFINE here == walk[w]
             buffer == IF here.count % SkipInterval = 0
                       THEN Append(here.buffer, <<here.count, here.at>>)
                       ELSE here.buffer
  <2>1. here.count \in Nat /\ here.at \in Nodes /\ here.collection \in Collections
    BY <1>1 DEF WalkNode, WalkType
  <2>2. buffer \in Checkpoints
    <3>1. <<here.count, here.at>> \in Nat \X Nodes
      BY <2>1
    <3>2. Append(here.buffer, <<here.count, here.at>>) \in Checkpoints
      BY <3>1 DEF Checkpoints
    <3> QED BY <3>2
  <2> HIDE DEF buffer
  <2>3. << >> \in Checkpoints
    BY DEF Checkpoints
  <2>4. Successor(here.collection, here.at) \in Nodes \union {End}
    BY <2>1, SuccessorType
  <2>5. walk' \in [Walkers -> WalkType]
    BY <1>0, <1>1, <2>1, <2>2, <2>3, <2>4 DEF WalkNode, WalkType, buffer
  <2>6. channel' \in [Walkers -> Seq(Messages)]
    <3>1. Batch(buffer) \in Messages
      BY <2>2, MessageTypes
    <3>2. Send(w, Batch(buffer)) \/ UNCHANGED channel
      BY <1>1 DEF WalkNode, buffer
    <3> QED BY <1>0, <3>1, <3>2, SendType
  <2> QED BY <1>1, <2>5, <2>6
       DEF WalkNode, TypeOK, locks, indexVars, pageVars
<1>2. CASE WalkFlush(w)
  <2>1. "flushed" \in States
    BY DEF States
  <2>2. walk' \in [Walkers -> WalkType]
    BY <1>0, <1>2, <2>1, BufferDropped DEF WalkFlush
  <2>3. channel' \in [Walkers -> Seq(Messages)]
    <3>1. Batch(walk[w].buffer) \in Messages
      BY MessageTypes
    <3>2. Send(w, Batch(walk[w].buffer)) \/ UNCHANGED channel
      BY <1>2 DEF WalkFlush
    <3> QED BY <1>0, <3>1, <3>2, SendType
  <2> QED BY <1>2, <2>2, <2>3
       DEF WalkFlush, TypeOK, locks, indexVars, pageVars
<1>3. CASE WalkComplete(w)
  <2>1. walk' \in [Walkers -> WalkType]
    <3>1. [walk[w] EXCEPT !.state = "returning"] \in WalkType
      BY <1>0, FieldChanged DEF States
    <3> QED BY <1>0, <1>3, <3>1 DEF WalkComplete
  <2>2. channel' \in [Walkers -> Seq(Messages)]
    <3>1. Send(w, Complete) \/ UNCHANGED channel
      BY <1>3 DEF WalkComplete
    <3> QED BY <1>0, <3>1, MessageTypes, SendType
  <2> QED BY <1>3, <2>1, <2>2
       DEF WalkComplete, TypeOK, locks, indexVars, pageVars
<1>4. CASE WalkExit(w)
  <2>1. walk' \in [Walkers -> WalkType]
    <3>1. [walk[w] EXCEPT !.state = "exited"] \in WalkType
      BY <1>0, FieldChanged DEF States
    <3> QED BY <1>0, <1>4, <3>1 DEF WalkExit
  <2> QED BY <1>4, <2>1 DEF WalkExit, TypeOK, locks, indexVars, pageVars
<1>5. CASE WalkPanic(w)
  <2>1. "panicked" \in States
    BY DEF States
  <2>2. walk' \in [Walkers -> WalkType]
    BY <1>0, <1>5, <2>1, BufferDropped DEF WalkPanic
  <2> QED BY <1>5, <2>2 DEF WalkPanic, TypeOK, locks, indexVars, pageVars
<1> QED BY <1>1, <1>2, <1>3, <1>4, <1>5 DEF Walking

\* The steps of a drain.
LEMMA DrainTypeStep ==
    ASSUME TypeOK, NEW t \in Threads, DrainWalker(t)
    PROVE  TypeOK'
<1> USE ElementTypes DEF Goto, Resume, Labels, locks, walkVars, indexVars, pageVars
<1>1. CASE DrainTake(t)
  <2>1. walkers[serving[t]] # NoWalker => walkers[serving[t]] \in Walkers
    BY DEF TypeOK
  <2>2. messages' \in [Threads -> Seq(Messages)]
    <3>1. messages \in [Threads -> Seq(Messages)]
      BY DEF TypeOK
    <3> QED BY <1>1, <2>1, <3>1 DEF DrainTake
  <2>3. channel' \in [Walkers -> Seq(Messages)]
    <3>1. channel \in [Walkers -> Seq(Messages)]
      BY DEF TypeOK
    <3> QED BY <1>1, <2>1, <3>1, EmptySequences DEF DrainTake
  <2>4. pc' \in [Threads -> Labels]
    BY <1>1 DEF DrainTake, TypeOK
  <2> QED BY <1>1, <2>2, <2>3, <2>4 DEF DrainTake, TypeOK
<1>2. CASE DrainRemove(t)
  BY <1>2 DEF DrainRemove, TypeOK
<1>3. CASE DrainJoin(t)
  BY <1>3, JoinedType DEF DrainJoin, TypeOK
<1>4. CASE DrainApply(t)
  BY <1>4 DEF DrainApply, TypeOK
<1>5. CASE ApplyBatch(t)
  <2> DEFINE c    == serving[t]
             rest == Head(messages[t]).checkpoints
  <2>1. rest \in Checkpoints /\ Tail(messages[t]) \in Seq(Messages)
    BY <1>5, FrontMessage DEF ApplyBatch
  <2>2. CASE rest = << >>
    <3>1. messages' \in [Threads -> Seq(Messages)]
      <4>1. messages \in [Threads -> Seq(Messages)]
        BY DEF TypeOK
      <4> QED BY <1>5, <2>1, <2>2, <4>1 DEF ApplyBatch
    <3>2. indexed' \in SUBSET Collections
      BY <1>5 DEF ApplyBatch, TypeOK
    <3> QED BY <1>5, <2>2, <3>1, <3>2 DEF ApplyBatch, TypeOK
  <2>3. CASE rest # << >>
    <3>1. Tail(rest) \in Checkpoints /\ Head(rest)[2] \in Nodes
      BY <2>1, <2>3, FrontCheckpoint
    <3>2. SI!Record(skip[c], Head(rest)[1], Head(rest)[2]) \in SI!Indexes
      BY <3>1, RecordType
    <3>3. skip' \in [Collections -> SI!Indexes]
      BY <1>5, <2>3, <3>2 DEF ApplyBatch, TypeOK
    <3>4. Batch(Tail(rest)) \in Messages
      BY <3>1, MessageTypes
    <3>5. <<Batch(Tail(rest))>> \o Tail(messages[t]) \in Seq(Messages)
      BY <2>1, <3>4
    <3>6. messages' \in [Threads -> Seq(Messages)]
      BY <1>5, <2>3, <3>5 DEF ApplyBatch, TypeOK
    <3> QED BY <1>5, <3>3, <3>6 DEF ApplyBatch, TypeOK
  <2> QED BY <2>2, <2>3
<1>6. CASE ApplyComplete(t)
  <2>1. Tail(messages[t]) \in Seq(Messages)
    BY <1>6, FrontMessage DEF ApplyComplete
  <2>2. skip' \in [Collections -> SI!Indexes]
    BY <1>6 DEF ApplyComplete, TypeOK, SI!MarkComplete, SI!Indexes
  <2> QED BY <1>6, <2>1, <2>2 DEF ApplyComplete, TypeOK
<1>7. CASE DrainDone(t)
  BY <1>7 DEF DrainDone, TypeOK
<1> QED BY <1>1, <1>2, <1>3, <1>4, <1>5, <1>6, <1>7 DEF DrainWalker

\* The steps of the UI thread that are not part of a drain.
LEMMA UITypeStep ==
    ASSUME TypeOK, Events \/ TickStart \/ (Ticking /\ ~DrainWalker(UI))
    PROVE  TypeOK'
<1> USE ElementTypes DEF Goto, Labels, Threads, locks, walkVars, indexVars, pageVars
<1>1. CASE \E c \in Collections : SpawnLock(c)
  BY <1>1, SMTT(30) DEF SpawnLock, TypeOK
<1>2. CASE SpawnWalker
  <2>1. CASE UNCHANGED walkVars
    BY <1>2, <2>1 DEF SpawnWalker, TypeOK
  <2>2. CASE ~UNCHANGED walkVars
    <3> DEFINE c == serving[UI]
               New == [Idle EXCEPT !.state = "walking", !.collection = c,
                                   !.at = Head1(c)]
    <3>1. New \in WalkType
      BY IdleType, ChainType DEF WalkType, States
    <3> HIDE DEF New
    <3>2. PICK w \in Walkers : /\ walk' = [walk EXCEPT ![w] = New]
                               /\ walkers' = [walkers EXCEPT ![c] = w]
                               /\ UNCHANGED channel
      BY <1>2, <2>2 DEF SpawnWalker, New
    <3> QED BY <1>2, <3>1, <3>2 DEF SpawnWalker, TypeOK
  <2> QED BY <2>1, <2>2
<1>3. ASSUME NEW c \in Collections, NEW label \in Labels, CancelWalker(c, label)
      PROVE  TypeOK'
  <2>1. walkers[c] \in Walkers
    BY <1>3 DEF CancelWalker, TypeOK
  <2>2. walk' \in [Walkers -> WalkType]
    <3>1. walk \in [Walkers -> WalkType]
      BY DEF TypeOK
    <3>2. [walk[walkers[c]] EXCEPT !.cancel = TRUE] \in WalkType
      BY <2>1, <3>1, FieldChanged
    <3> QED BY <1>3, <2>1, <3>1, <3>2 DEF CancelWalker
  <2> QED BY <1>3, <2>1, <2>2 DEF CancelWalker, TypeOK
<1>4. CASE \E c \in Collections : Cancel(c)
  BY <1>3, <1>4 DEF Cancel
<1>5. CASE \E c \in Collections : DropCancel(c)
  BY <1>3, <1>5 DEF DropCancel
<1>6. CASE CancelJoin
  BY <1>6, JoinedType DEF CancelJoin, TypeOK
<1>7. CASE DropJoin
  BY <1>7, JoinedType DEF DropJoin, TypeOK
<1>8. CASE TickStart
  BY <1>8 DEF TickStart, TypeOK
<1>9. CASE \E c \in Collections : TickDrain(c)
  BY <1>9, SMTT(30) DEF TickDrain, TypeOK
<1>10. CASE TickEnd
  BY <1>10 DEF TickEnd, TypeOK
<1>11. CASE Quit
  BY <1>11 DEF Quit, TypeOK
<1>12. CASE DropEnd
  BY <1>12 DEF DropEnd, TypeOK
<1> QED BY <1>1, <1>2, <1>4, <1>5, <1>6, <1>7, <1>8, <1>9, <1>10, <1>11, <1>12
     DEF Events, Ticking

\* Where a walk resumes from is at or before the entry it is for.
LEMMA NearestBounds ==
    ASSUME NEW si \in SI!Indexes, si.checkpoints # << >>, NEW e \in Nat
    PROVE  LET i == SI!NearestPosition(si, e)
           IN  /\ i \in 0..(Len(si.checkpoints) - 1)
               /\ i * SkipInterval \in Nat
               /\ i * SkipInterval <= e
               /\ si.checkpoints[i + 1] \in Nodes
<1> DEFINE q == e \div SkipInterval
           n == Len(si.checkpoints)
           i == SI!NearestPosition(si, e)
<1>1. SkipInterval \in Nat /\ SkipInterval > 0
  BY IntervalsAssumption
<1>2. q \in Nat /\ q * SkipInterval <= e
  BY <1>1, SMTT(30)
<1>3. n \in Nat /\ n >= 1 /\ \A k \in 1..n : si.checkpoints[k] \in Nodes
  <2>1. si.checkpoints \in Seq(Nodes)
    BY DEF SI!Indexes
  <2> QED BY <2>1
<1>4. i = IF q <= n - 1 THEN q ELSE n - 1
  BY DEF SI!NearestPosition
<1> HIDE DEF q, n, i
<1>5. i \in Nat /\ i <= q /\ i <= n - 1
  BY <1>2, <1>3, <1>4
<1>6. i * SkipInterval <= q * SkipInterval /\ i * SkipInterval \in Nat
  BY <1>1, <1>2, <1>5, SMTT(30)
<1>7. i + 1 \in 1..n
  BY <1>3, <1>5
<1> QED BY <1>1, <1>2, <1>3, <1>5, <1>6, <1>7 DEF i, n

LEMMA PageOfType ==
    ASSUME NEW items \in Seq(Nodes), NEW base \in Nat, NEW skipped \in Nat,
           NEW limit \in Nat, NEW total \in Nat
    PROVE  PageOf(items, base, skipped, limit, total) \in
             [entries : Seq(Nodes), offset : Nat, hasMore : BOOLEAN]
<1> DEFINE last == IF skipped + limit <= Len(items)
                   THEN skipped + limit ELSE Len(items)
           entries == SubSeq(items, skipped + 1, last)
<1>1. entries \in Seq(Nodes)
  <2>1. \A k \in (skipped + 1)..last : k \in 1..Len(items)
    OBVIOUS
  <2>2. \A k \in (skipped + 1)..last : items[k] \in Nodes
    BY <2>1
  <2>3. skipped + 1 \in Int /\ last \in Int
    OBVIOUS
  <2> QED BY <2>2, <2>3
<1> HIDE DEF entries
<1>2. Len(entries) \in Nat
  BY <1>1
<1> QED BY <1>1, <1>2 DEF PageOf, entries

LEMMA SkippedType ==
    ASSUME TypeOK, ExtractInv, NEW p \in Pagers, pc[p] = "extracting"
    PROVE  Skipped(p) \in Nat
<1>1. /\ extract[p].base \in Nat /\ request[p].offset \in Nat
      /\ Len(extract[p].items) \in Nat /\ serving[p] \in Collections
  BY ElementTypes
<1>2. extract[p].base <= request[p].offset
  BY DEF ExtractInv, ExtractSound
<1>3. Size[serving[p]] \in Nat
  BY <1>1, ChainType
<1> QED BY <1>1, <1>2, <1>3 DEF Skipped

\* The steps of a page request that are not part of its drain.
LEMMA PagerTypeStep ==
    ASSUME TypeOK, ExtractInv, NEW p \in Pagers,
           \/ ExtractBegin(p) \/ ExtractNode(p) \/ ExtractEnd(p) \/ Return(p)
           \/ \E c \in Collections, r \in Requests : GetPage(p, c, r)
    PROVE  TypeOK'
<1> USE ElementTypes DEF Goto, Labels, Threads, locks, walkVars, indexVars, pageVars
<1> DEFINE Extracts == [base : Nat, at : Nodes \union {End}, items : Seq(Nodes)]
           Pages == [entries : Seq(Nodes), offset : Nat, hasMore : BOOLEAN]
<1>0. /\ extract \in [Pagers -> Extracts]
      /\ page \in [Pagers -> Pages]
      /\ skip \in [Collections -> SI!Indexes]
  BY DEF TypeOK
<1>1. CASE ExtractBegin(p)
  <2> DEFINE c == serving[p]
             near == SI!NearestBefore(skip[c], request[p].offset)
  <2>1. [base |-> 0, at |-> Head1(c), items |-> << >>] \in Extracts
    BY ChainType, EmptySequences
  <2>2. skip[c].checkpoints # << >> =>
          [base |-> near.index, at |-> near.node, items |-> << >>] \in Extracts
    <3> SUFFICES ASSUME skip[c].checkpoints # << >>
                 PROVE  near.index \in Nat /\ near.node \in Nodes
      BY EmptySequences
    <3> QED BY NearestBounds DEF SI!NearestBefore
  <2> HIDE DEF near
  <2>3. extract' \in [Pagers -> Extracts]
    BY <1>0, <1>1, <2>1, <2>2 DEF ExtractBegin, near
  <2> QED BY <1>1, <2>3 DEF ExtractBegin, TypeOK
<1>2. CASE ExtractNode(p)
  <2> DEFINE c == serving[p]
             e == extract[p]
  <2>1. e.at \in Nodes
    BY <1>2 DEF ExtractNode, WantsMore
  <2>2. SI!Record(skip[c], e.base + Len(e.items), e.at) \in SI!Indexes
    BY <2>1, RecordType
  <2>3. skip' \in [Collections -> SI!Indexes]
    BY <1>0, <1>2, <2>2 DEF ExtractNode
  <2>4. Successor(c, e.at) \in Nodes \union {End}
    BY SuccessorType
  <2>5. Append(e.items, e.at) \in Seq(Nodes)
    BY <2>1
  <2>6. extract' \in [Pagers -> Extracts]
    <3>1. [e EXCEPT !.at = Successor(c, e.at), !.items = Append(@, e.at)] \in Extracts
      <4>1. \A a \in Nodes \union {End}, i \in Seq(Nodes) :
              [e EXCEPT !.at = a, !.items = i] \in Extracts
        BY <1>0
      <4> QED BY <2>4, <2>5, <4>1
    <3> QED BY <1>0, <1>2, <3>1 DEF ExtractNode
  <2> QED BY <1>2, <2>3, <2>6 DEF ExtractNode, TypeOK
<1>3. CASE ExtractEnd(p)
  <2> DEFINE result == PageOf(extract[p].items, extract[p].base, Skipped(p),
                              request[p].limit, Size[serving[p]])
  <2>1. result \in Pages
    <3>1. Skipped(p) \in Nat
      BY <1>3, SkippedType DEF ExtractEnd
    <3> QED BY <3>1, ChainType, PageOfType
  <2> HIDE DEF result
  <2>2. page' \in [Pagers -> Pages]
    BY <1>0, <1>3, <2>1 DEF ExtractEnd, result
  <2>3. skip' \in [Collections -> SI!Indexes]
    BY <1>0, <1>3 DEF ExtractEnd, SI!MarkComplete, SI!Indexes
  <2>4. NoExtract \in Extracts
    BY EmptySequences DEF NoExtract
  <2>5. extract' \in [Pagers -> Extracts]
    BY <1>0, <1>3, <2>4 DEF ExtractEnd
  <2> QED BY <1>3, <2>2, <2>3, <2>5 DEF ExtractEnd, TypeOK
<1>4. CASE Return(p)
  <2>1. NoPage \in Pages
    BY EmptySequences DEF NoPage
  <2>2. NoRequest \in [offset : Nat, limit : Nat \ {0}]
    BY DEF NoRequest
  <2> QED BY <1>4, <2>1, <2>2, AnyCollectionType DEF Return, TypeOK
<1>5. CASE \E c \in Collections, r \in Requests : GetPage(p, c, r)
  <2>1. PICK c \in Collections, r \in Requests : GetPage(p, c, r)
    BY <1>5
  <2>2. request' \in [Pagers -> [offset : Nat, limit : Nat \ {0}]]
    BY <2>1, RequestsAssumption DEF GetPage, TypeOK
  <2> QED BY <2>1, <2>2 DEF GetPage, TypeOK
<1> QED BY <1>1, <1>2, <1>3, <1>4, <1>5

LEMMA TypeStep ==
    ASSUME TypeOK, ExtractInv, [Next]_vars
    PROVE  TypeOK'
<1>1. ASSUME NEW w \in Walkers, Walking(w) \/ WalkPanic(w)
      PROVE  TypeOK'
  BY <1>1, WalkerTypeStep
<1>2. ASSUME NEW t \in Threads, DrainWalker(t)
      PROVE  TypeOK'
  BY <1>2, DrainTypeStep
<1>3. CASE Events \/ TickStart \/ Ticking
  BY <1>2, <1>3, UITypeStep DEF Threads
<1>4. ASSUME NEW p \in Pagers,
             \/ Paging(p)
             \/ \E c \in Collections, r \in Requests : GetPage(p, c, r)
      PROVE  TypeOK'
  BY <1>2, <1>4, PagerTypeStep DEF Paging, Threads
<1>5. CASE UNCHANGED vars
  BY <1>5 DEF vars, locks, walkVars, indexVars, pageVars, TypeOK
<1> QED BY <1>1, <1>3, <1>4, <1>5 DEF Next, Stopped

-----------------------------------------------------------------------------
(* Handles and threads.                                                    *)

LEMMA InitHandles == Init => HandlesInv
BY ThreadsAssumption DEF Init, HandlesInv, Live, Idle, JoinLabels, Threads

\* What a step has to leave alone for HandlesInv to survive it.
LEMMA HandlesFrame ==
    ASSUME HandlesInv,
           UNCHANGED <<walkers, joining, walkersLock>>,
           \A w \in Walkers : /\ walk'[w].collection = walk[w].collection
                              /\ Live(w)' <=> Live(w),
           walkers \in [Collections -> Walkers \union {NoWalker}],
           joining \in [Threads -> Walkers \union {NoWalker}],
           \A t \in Threads : pc'[t] \in JoinLabels => pc[t] \in JoinLabels,
           pc'[UI] \in {"spawn", "drop"} =>
                pc'[UI] = pc[UI] /\ serving'[UI] = serving[UI]
    PROVE  HandlesInv'
<1>1. \A c \in Collections : walkers'[c] # NoWalker =>
        (Live(walkers[c]) /\ walk[walkers[c]].collection = c)'
  BY DEF HandlesInv, Live
<1>2. \A t \in Threads : joining'[t] # NoWalker =>
        /\ walkersLock' = t
        /\ Live(joining[t])'
        /\ walkers'[walk'[joining'[t]].collection] = NoWalker
  BY DEF HandlesInv, Live
<1>3. \A w \in Walkers : Live(w)' => \/ walkers'[walk'[w].collection] = w
                                     \/ \E t \in Threads : joining'[t] = w
  BY DEF HandlesInv, Live
<1>4. /\ \A t \in Threads : pc'[t] \in JoinLabels => joining'[t] # NoWalker
      /\ pc'[UI] \in {"spawn", "drop"} =>
            walkersLock' = UI /\ joining'[UI] = NoWalker
      /\ pc'[UI] = "spawn" => walkers'[serving'[UI]] = NoWalker
  BY DEF HandlesInv
<1> QED BY <1>1, <1>2, <1>3, <1>4 DEF HandlesInv

\* Nobody joins while the lock is free, or held by a thread not joining.
LEMMA NobodyJoins ==
    ASSUME TypeOK, HandlesInv,
           walkersLock = NoThread \/ joining[walkersLock] = NoWalker
    PROVE  \A t \in Threads : joining[t] = NoWalker
BY ThreadsAssumption DEF HandlesInv

\* A handle is taken out of the map by a thread that then joins.
LEMMA HandleTaken ==
    ASSUME TypeOK, HandlesInv, NEW t \in Threads, NEW c \in Collections,
           \A u \in Threads : joining[u] = NoWalker,
           walkers[c] # NoWalker,
           walkers' = [walkers EXCEPT ![c] = NoWalker],
           joining' = [joining EXCEPT ![t] = walkers[c]],
           walkersLock' = t,
           \A w \in Walkers : /\ walk'[w].collection = walk[w].collection
                              /\ Live(w)' <=> Live(w),
           \A u \in Threads : pc'[u] = IF u = t THEN pc'[t] ELSE pc[u],
           pc'[t] \in JoinLabels,
           t = UI \/ pc[UI] \notin {"spawn", "drop"}
    PROVE  HandlesInv'
<1> DEFINE v == walkers[c]
<1>1. /\ walkers \in [Collections -> Walkers \union {NoWalker}]
      /\ joining \in [Threads -> Walkers \union {NoWalker}]
      /\ walk \in [Walkers -> WalkType]
  BY DEF TypeOK
<1>2. v \in Walkers /\ Live(v) /\ walk[v].collection = c
  BY <1>1 DEF HandlesInv
<1>3. \A d \in Collections : walkers'[d] # NoWalker =>
        d # c /\ walkers'[d] = walkers[d]
  BY <1>1
<1>4. \A u \in Threads : joining'[u] # NoWalker => u = t /\ joining'[u] = v
  BY <1>1
<1>5. \A d \in Collections : walkers'[d] # NoWalker =>
        (Live(walkers[d]) /\ walk[walkers[d]].collection = d)'
  BY <1>1, <1>3 DEF HandlesInv
<1>6. \A u \in Threads : joining'[u] # NoWalker =>
        /\ walkersLock' = u
        /\ Live(joining[u])'
        /\ walkers'[walk'[joining'[u]].collection] = NoWalker
  BY <1>1, <1>2, <1>4
<1>7. \A w \in Walkers : Live(w)' => \/ walkers'[walk'[w].collection] = w
                                     \/ \E u \in Threads : joining'[u] = w
  <2> SUFFICES ASSUME NEW w \in Walkers, Live(w)'
               PROVE  \/ walkers'[walk'[w].collection] = w
                      \/ \E u \in Threads : joining'[u] = w
    OBVIOUS
  <2>1. walkers[walk[w].collection] = w /\ walk[w].collection \in Collections
    <3>1. Live(w) /\ walk[w].collection \in Collections
      BY <1>1 DEF WalkType, Live
    <3>2. \A u \in Threads : joining[u] # w
      BY ThreadsAssumption
    <3> QED BY <3>1, <3>2 DEF HandlesInv
  <2>2. CASE walk[w].collection = c
    BY <1>1, <2>1, <2>2
  <2>3. CASE walk[w].collection # c
    <3>1. walkers'[walk[w].collection] = w
      BY <1>1, <2>1, <2>3
    <3> QED BY <3>1
  <2> QED BY <2>2, <2>3
<1>8. \A u \in Threads : pc'[u] \in JoinLabels => joining'[u] # NoWalker
  <2>1. joining'[t] = v /\ v # NoWalker
    BY <1>1
  <2>2. \A u \in Threads : u # t => pc[u] \notin JoinLabels
    BY DEF HandlesInv
  <2> QED BY <2>1, <2>2
<1>9. pc'[UI] \notin {"spawn", "drop"}
  BY DEF JoinLabels, Threads
<1> QED BY <1>5, <1>6, <1>7, <1>8, <1>9 DEF HandlesInv

\* A joined walker's place is free again.
LEMMA HandleJoined ==
    ASSUME TypeOK, HandlesInv, NEW t \in Threads, Joined(t),
           joining[t] # NoWalker, UNCHANGED walkers,
           \A u \in Threads : pc'[u] = IF u = t THEN pc'[t] ELSE pc[u],
           pc'[t] \notin JoinLabels \union {"spawn"},
           pc'[t] = "drop" => t = UI /\ walkersLock' = UI,
           t = UI \/ pc[UI] \notin {"spawn", "drop"}
    PROVE  HandlesInv'
<1>0. PICK v : v = joining[t]
  OBVIOUS
<1>1. /\ walkers \in [Collections -> Walkers \union {NoWalker}]
      /\ joining \in [Threads -> Walkers \union {NoWalker}]
      /\ walk \in [Walkers -> WalkType]
  BY DEF TypeOK
<1>2. v \in Walkers /\ \A u \in Threads : u # t => joining[u] = NoWalker
  BY <1>0, <1>1 DEF HandlesInv
<1>3. \A u \in Threads : joining'[u] = NoWalker
  BY <1>1, <1>2 DEF Joined
<1>4. \A c \in Collections : walkers[c] # v
  BY <1>0, <1>1, <1>2, ThreadsAssumption DEF HandlesInv
<1>5. /\ \A w \in Walkers : w # v => walk'[w] = walk[w]
      /\ ~Live(v)'
  BY <1>0, <1>1, <1>2 DEF Joined, Live, Idle
<1>6. \A c \in Collections : walkers'[c] # NoWalker =>
        (Live(walkers[c]) /\ walk[walkers[c]].collection = c)'
  BY <1>1, <1>4, <1>5 DEF HandlesInv, Live
<1>7. \A w \in Walkers : Live(w)' => walkers'[walk'[w].collection] = w
  <2> SUFFICES ASSUME NEW w \in Walkers, Live(w)'
               PROVE  walkers'[walk'[w].collection] = w
    OBVIOUS
  <2>1. w # v
    BY <1>5
  <2>2. walk'[w] = walk[w] /\ Live(w)
    BY <1>5, <2>1 DEF Live
  <2>3. \A u \in Threads : joining[u] # w
    BY <1>0, <1>2, <2>1, ThreadsAssumption
  <2> QED BY <2>2, <2>3 DEF HandlesInv
<1>8. \A u \in Threads : pc'[u] \notin JoinLabels
  BY <1>2 DEF HandlesInv
<1>9. pc'[UI] \in {"spawn", "drop"} => pc'[UI] = "drop" /\ walkersLock' = UI
  BY DEF Threads
<1> QED BY <1>3, <1>6, <1>7, <1>8, <1>9 DEF HandlesInv, Threads

LEMMA WalkerHandlesStep ==
    ASSUME TypeOK, HandlesInv, NEW w \in Walkers, Walking(w) \/ WalkPanic(w)
    PROVE  HandlesInv'
<1>1. /\ UNCHANGED <<walkers, joining, walkersLock, pc, serving>>
      /\ walk[w].state # "free"
  BY DEF Walking, WalkNode, WalkFlush, WalkComplete, WalkExit, WalkPanic, locks
<1>2. /\ \A v \in Walkers : v # w => walk'[v] = walk[v]
      /\ walk'[w].collection = walk[w].collection
      /\ walk'[w].state # "free"
  <2>1. walk \in [Walkers -> WalkType]
    BY DEF TypeOK
  <2>2. CASE WalkNode(w)
    BY <2>1, <2>2 DEF WalkNode, WalkType
  <2>3. CASE WalkFlush(w)
    BY <2>1, <2>3 DEF WalkFlush, WalkType
  <2>4. CASE WalkComplete(w)
    BY <2>1, <2>4 DEF WalkComplete, WalkType
  <2>5. CASE WalkExit(w)
    BY <2>1, <2>5 DEF WalkExit, WalkType
  <2>6. CASE WalkPanic(w)
    BY <2>1, <2>6 DEF WalkPanic, WalkType
  <2> QED BY <2>2, <2>3, <2>4, <2>5, <2>6 DEF Walking
<1>3. \A v \in Walkers : /\ walk'[v].collection = walk[v].collection
                         /\ Live(v)' <=> Live(v)
  BY <1>1, <1>2 DEF Live
<1> QED BY <1>1, <1>3, HandlesFrame DEF TypeOK

LEMMA DrainHandlesStep ==
    ASSUME TypeOK, HandlesInv, NEW t \in Threads, DrainWalker(t)
    PROVE  HandlesInv'
<1>1. /\ walkers \in [Collections -> Walkers \union {NoWalker}]
      /\ joining \in [Threads -> Walkers \union {NoWalker}]
      /\ pc \in [Threads -> Labels]
      /\ serving[t] \in Collections
  BY ElementTypes DEF TypeOK
<1>2. CASE DrainTake(t) \/ DrainApply(t) \/ ApplyBatch(t) \/ ApplyComplete(t)
           \/ DrainDone(t)
  <2>1. UNCHANGED <<walkers, joining, walkersLock, serving, walk>>
    BY <1>2 DEF DrainTake, DrainApply, ApplyBatch, ApplyComplete, DrainDone,
                locks, walkVars
  <2>2. \A u \in Threads : pc'[u] # pc[u] =>
          pc'[u] \in {"tick", "extract", "remove", "apply", "applying"}
    BY <1>1, <1>2 DEF DrainTake, DrainApply, ApplyBatch, ApplyComplete,
                      DrainDone, Goto, Resume
  <2> QED BY <1>1, <2>1, <2>2, HandlesFrame DEF Live, JoinLabels, Threads
<1>3. CASE DrainRemove(t)
  <2>1. \A u \in Threads : joining[u] = NoWalker
    BY <1>3, NobodyJoins DEF DrainRemove
  <2>2. pc[UI] \notin {"spawn", "drop"}
    BY <1>3, ThreadsAssumption DEF DrainRemove, HandlesInv, Threads
  <2>3. CASE walkers[serving[t]] = NoWalker
    <3>1. UNCHANGED <<walkers, joining, walkersLock, walk, serving>>
      BY <1>3, <2>3 DEF DrainRemove
    <3>2. \A u \in Threads : pc'[u] # pc[u] => pc'[u] = "apply"
      BY <1>1, <1>3, <2>3 DEF DrainRemove, Goto
    <3> QED BY <1>1, <3>1, <3>2, HandlesFrame DEF Live, JoinLabels, Threads
  <2>4. CASE walkers[serving[t]] # NoWalker
    <3>1. /\ walkers' = [walkers EXCEPT ![serving[t]] = NoWalker]
          /\ joining' = [joining EXCEPT ![t] = walkers[serving[t]]]
          /\ walkersLock' = t
          /\ UNCHANGED walk
          /\ pc' = [pc EXCEPT ![t] = "join"]
      BY <1>3, <2>4 DEF DrainRemove, Goto
    <3>2. /\ \A u \in Threads : pc'[u] = IF u = t THEN pc'[t] ELSE pc[u]
          /\ pc'[t] \in JoinLabels
      BY <1>1, <3>1 DEF JoinLabels
    <3> QED BY <1>1, <2>1, <2>2, <2>4, <3>1, <3>2, HandleTaken DEF Live
  <2> QED BY <2>3, <2>4
<1>4. CASE DrainJoin(t)
  <2>1. /\ joining[t] # NoWalker
        /\ pc[UI] \notin {"spawn", "drop"} \/ t = UI
    BY <1>4 DEF DrainJoin, Joined, HandlesInv, JoinLabels
  <2>2. /\ \A u \in Threads : pc'[u] = IF u = t THEN pc'[t] ELSE pc[u]
        /\ pc'[t] = "apply"
    BY <1>1, <1>4 DEF DrainJoin, Goto
  <2> QED BY <1>4, <2>1, <2>2, HandleJoined DEF DrainJoin, JoinLabels
<1> QED BY <1>2, <1>3, <1>4 DEF DrainWalker

LEMMA UIHandlesStep ==
    ASSUME TypeOK, HandlesInv,
           Events \/ TickStart \/ (Ticking /\ ~DrainWalker(UI))
    PROVE  HandlesInv'
<1>1. /\ walkers \in [Collections -> Walkers \union {NoWalker}]
      /\ joining \in [Threads -> Walkers \union {NoWalker}]
      /\ walk \in [Walkers -> WalkType]
      /\ serving \in [Threads -> Collections]
      /\ pc \in [Threads -> Labels]
      /\ UI \in Threads
  BY DEF TypeOK, Threads
<1>2. ASSUME NEW label \in Labels, Goto(UI, label)
      PROVE  /\ \A u \in Threads : pc'[u] = IF u = UI THEN pc'[UI] ELSE pc[u]
             /\ pc'[UI] = label
  BY <1>1, <1>2 DEF Goto
<1>3. ASSUME NEW c \in Collections, SpawnLock(c)
      PROVE  HandlesInv'
  <2>1. CASE walkers[c] # NoWalker
    BY <1>1, <1>3, <2>1, HandlesFrame DEF SpawnLock, walkVars, Live
  <2>2. CASE walkers[c] = NoWalker
    <3>1. /\ \A u \in Threads : joining[u] = NoWalker
          /\ UNCHANGED walkVars /\ UNCHANGED joining
          /\ walkersLock' = UI /\ serving'[UI] = c
          /\ pc'[UI] = "spawn"
          /\ \A u \in Threads : u # UI => pc'[u] = pc[u]
      BY <1>1, <1>3, <2>2, NobodyJoins DEF SpawnLock, Goto
    <3> QED BY <1>1, <2>2, <3>1
         DEF HandlesInv, JoinLabels, walkVars, Live, Threads
  <2> QED BY <2>1, <2>2
<1>4. CASE SpawnWalker
  <2> DEFINE c == serving[UI]
  <2>1. /\ \A u \in Threads : joining[u] = NoWalker
        /\ UNCHANGED joining
        /\ walkersLock' = NoThread
        /\ walkers[c] = NoWalker /\ c \in Collections
        /\ \A u \in Threads : pc'[u] \notin JoinLabels
        /\ pc'[UI] = "input"
    <3>1. walkersLock = UI /\ joining[UI] = NoWalker /\ walkers[c] = NoWalker
      BY <1>4 DEF SpawnWalker, HandlesInv
    <3>2. \A u \in Threads : joining[u] = NoWalker
      BY <3>1, NobodyJoins
    <3>3. \A u \in Threads : u # UI => pc[u] \notin JoinLabels
      BY <3>2 DEF HandlesInv
    <3> QED BY <1>1, <1>4, <3>1, <3>2, <3>3 DEF SpawnWalker, Goto, JoinLabels
  <2>2. CASE UNCHANGED walkVars
    BY <1>1, <2>1, <2>2 DEF HandlesInv, walkVars, Live, Threads
  <2>3. CASE ~UNCHANGED walkVars
    <3> DEFINE New == [Idle EXCEPT !.state = "walking", !.collection = c,
                                   !.at = Head1(c)]
    <3>1. New.state = "walking" /\ New.collection = c
      BY DEF Idle
    <3> HIDE DEF New
    <3>2. PICK w \in Walkers : /\ walk[w].state = "free"
                               /\ walk' = [walk EXCEPT ![w] = New]
                               /\ walkers' = [walkers EXCEPT ![c] = w]
      BY <1>4, <2>3 DEF SpawnWalker, New
    <3>3. \A d \in Collections : walkers[d] # w
      BY <1>1, <3>2, ThreadsAssumption DEF HandlesInv, Live
    <3>4. \A d \in Collections : walkers'[d] # NoWalker =>
            (Live(walkers[d]) /\ walk[walkers[d]].collection = d)'
      BY <1>1, <2>1, <3>1, <3>2, <3>3 DEF HandlesInv, Live
    <3>5. \A v \in Walkers : Live(v)' => walkers'[walk'[v].collection] = v
      <4> SUFFICES ASSUME NEW v \in Walkers, Live(v)'
                   PROVE  walkers'[walk'[v].collection] = v
        OBVIOUS
      <4>1. CASE v = w
        BY <1>1, <2>1, <3>1, <3>2, <4>1
      <4>2. CASE v # w
        <5>1. walk'[v] = walk[v] /\ Live(v) /\ walk[v].collection \in Collections
          BY <1>1, <3>2, <4>2 DEF Live, WalkType
        <5>2. walkers[walk[v].collection] = v
          BY <2>1, <5>1, ThreadsAssumption DEF HandlesInv
        <5>3. walk[v].collection # c
          BY <2>1, <5>2, ThreadsAssumption
        <5> QED BY <1>1, <3>2, <5>1, <5>2, <5>3
      <4> QED BY <4>1, <4>2
    <3> QED BY <2>1, <3>4, <3>5 DEF HandlesInv, Threads
  <2> QED BY <2>2, <2>3
<1>5. ASSUME NEW c \in Collections, NEW label \in JoinLabels,
             CancelWalker(c, label),
             \A u \in Threads : joining[u] = NoWalker
      PROVE  HandlesInv'
  <2>1. walkers[c] \in Walkers
    BY <1>1, <1>5 DEF CancelWalker
  <2>2. \A w \in Walkers : /\ walk'[w].collection = walk[w].collection
                           /\ Live(w)' <=> Live(w)
    BY <1>1, <1>5, <2>1 DEF CancelWalker, Live, WalkType
  <2>3. label \in Labels
    BY DEF JoinLabels, Labels
  <2> QED BY <1>1, <1>2, <1>5, <2>2, <2>3, HandleTaken DEF CancelWalker
<1>6. CASE \E c \in Collections : Cancel(c)
  BY <1>5, <1>6, NobodyJoins DEF Cancel, JoinLabels
<1>7. CASE \E c \in Collections : DropCancel(c)
  <2>1. \A u \in Threads : joining[u] = NoWalker
    BY <1>7, NobodyJoins DEF DropCancel, HandlesInv
  <2> QED BY <1>5, <1>7, <2>1 DEF DropCancel, JoinLabels
<1>8. CASE CancelJoin
  <2>1. joining[UI] # NoWalker
    BY <1>1, <1>8 DEF CancelJoin, HandlesInv, JoinLabels
  <2>2. /\ \A u \in Threads : pc'[u] = IF u = UI THEN pc'[UI] ELSE pc[u]
        /\ pc'[UI] = "input"
    BY <1>1, <1>8 DEF CancelJoin, Goto
  <2> QED BY <1>1, <1>8, <2>1, <2>2, HandleJoined DEF CancelJoin, JoinLabels
<1>9. CASE DropJoin
  <2>1. joining[UI] # NoWalker /\ walkersLock = UI
    BY <1>1, <1>9 DEF DropJoin, Joined, HandlesInv, JoinLabels
  <2>2. /\ \A u \in Threads : pc'[u] = IF u = UI THEN pc'[UI] ELSE pc[u]
        /\ pc'[UI] = "drop" /\ walkersLock' = UI
    BY <1>1, <1>9, <2>1 DEF DropJoin, Goto, locks
  <2> QED BY <1>1, <1>9, <2>1, <2>2, HandleJoined DEF DropJoin, JoinLabels
<1>10. CASE TickStart \/ (\E c \in Collections : TickDrain(c)) \/ TickEnd
  <2>1. UNCHANGED <<walkers, joining, walkersLock, walk>>
    BY <1>10 DEF TickStart, TickDrain, TickEnd, locks, walkVars
  <2>2. \A u \in Threads : pc'[u] # pc[u] => pc'[u] \in {"tick", "drain", "input"}
    BY <1>1, <1>10 DEF TickStart, TickDrain, TickEnd, Goto
  <2>3. pc'[UI] \notin {"spawn", "drop"}
    BY <1>1, <1>10 DEF TickStart, TickDrain, TickEnd, Goto
  <2> QED BY <1>1, <2>1, <2>2, <2>3, HandlesFrame DEF Live, JoinLabels
<1>11. CASE Quit
  <2>1. /\ \A u \in Threads : joining[u] = NoWalker
        /\ UNCHANGED <<walkers, joining, walk, serving>>
        /\ walkersLock' = UI /\ pc'[UI] = "drop"
        /\ \A u \in Threads : u # UI => pc'[u] = pc[u]
    BY <1>1, <1>11, NobodyJoins DEF Quit, Goto, walkVars
  <2> QED BY <1>1, <2>1 DEF HandlesInv, JoinLabels, Live, Threads
<1>12. CASE DropEnd
  <2>1. /\ \A u \in Threads : joining[u] = NoWalker
        /\ UNCHANGED <<walkers, joining, walk, serving>>
        /\ pc'[UI] = "stopped"
        /\ \A u \in Threads : u # UI => pc'[u] = pc[u]
    BY <1>1, <1>12, NobodyJoins DEF DropEnd, Goto, walkVars, HandlesInv
  <2> QED BY <1>1, <2>1 DEF HandlesInv, JoinLabels, Live, Threads
<1> QED BY <1>3, <1>4, <1>6, <1>7, <1>8, <1>9, <1>10, <1>11, <1>12
     DEF Events, Ticking

LEMMA PagerHandlesStep ==
    ASSUME TypeOK, HandlesInv, NEW p \in Pagers,
           \/ ExtractBegin(p) \/ ExtractNode(p) \/ ExtractEnd(p) \/ Return(p)
           \/ \E c \in Collections, r \in Requests : GetPage(p, c, r)
    PROVE  HandlesInv'
<1>1. /\ UNCHANGED <<walkers, joining, walkersLock, walk>>
      /\ serving'[UI] = serving[UI] /\ pc'[UI] = pc[UI]
      /\ \A u \in Threads : pc'[u] # pc[u] =>
            pc'[u] \in {"drain", "extracting", "returned", "idle"}
  BY ThreadsAssumption
  DEF ExtractBegin, ExtractNode, ExtractEnd, Return, GetPage, Goto, walkVars,
      locks, TypeOK, Threads
<1> QED BY <1>1, HandlesFrame DEF Live, JoinLabels, TypeOK

LEMMA HandlesStep ==
    ASSUME TypeOK, HandlesInv, [Next]_vars
    PROVE  HandlesInv'
<1>1. ASSUME NEW t \in Threads, DrainWalker(t)
      PROVE  HandlesInv'
  BY <1>1, DrainHandlesStep
<1>2. ASSUME NEW w \in Walkers, Walking(w) \/ WalkPanic(w)
      PROVE  HandlesInv'
  BY <1>2, WalkerHandlesStep
<1>3. CASE Events \/ TickStart \/ Ticking
  BY <1>1, <1>3, UIHandlesStep DEF Threads
<1>4. ASSUME NEW p \in Pagers,
             \/ Paging(p)
             \/ \E c \in Collections, r \in Requests : GetPage(p, c, r)
      PROVE  HandlesInv'
  BY <1>1, <1>4, PagerHandlesStep DEF Paging, Threads
<1>5. CASE UNCHANGED vars
  BY <1>5 DEF vars, locks, walkVars, HandlesInv, Live
<1> QED BY <1>2, <1>3, <1>4, <1>5 DEF Next, Stopped

-----------------------------------------------------------------------------
(* Checkpoints.                                                            *)

LEMMA EmptySound ==
    ASSUME NEW c
    PROVE  SoundCheckpoints(c, << >>) /\ SoundMessages(c, << >>)
BY DEF SoundCheckpoints, SoundMessages

LEMMA InitCheckpoints == Init => CheckpointsInv
<1> SUFFICES ASSUME Init PROVE CheckpointsInv
  OBVIOUS
<1>1. \A w \in Walkers : WalkerSound(w)
  BY EmptySound DEF Init, WalkerSound, Live, Idle
<1>2. \A t \in Threads : DrainSound(t)
  BY EmptySound DEF Init, DrainSound
<1>3. SkipIndexSound
  BY DEF Init, SkipIndexSound, SI!NewIndex
<1> QED BY <1>1, <1>2, <1>3 DEF CheckpointsInv

LEMMA AppendedCheckpoint ==
    ASSUME NEW c \in Collections, NEW cps \in Checkpoints,
           NEW cp \in Nat \X Nodes,
           SoundCheckpoints(c, cps), SoundCheckpoint(c, cp)
    PROVE  SoundCheckpoints(c, Append(cps, cp))
<1>1. cps \in Seq(Nat \X Nodes)
  BY DEF Checkpoints
<1>2. \A i \in 1..Len(Append(cps, cp)) :
        Append(cps, cp)[i] = IF i <= Len(cps) THEN cps[i] ELSE cp
  BY <1>1
<1>3. Len(Append(cps, cp)) = Len(cps) + 1 /\ Len(cps) \in Nat
  BY <1>1
<1> QED BY <1>2, <1>3 DEF SoundCheckpoints

LEMMA AppendedMessage ==
    ASSUME NEW c \in Collections, NEW ms \in Seq(Messages), NEW m \in Messages,
           SoundMessages(c, ms),
           m.type = "Batch" => SoundCheckpoints(c, m.checkpoints)
    PROVE  SoundMessages(c, Append(ms, m))
<1>1. \A i \in 1..Len(Append(ms, m)) :
        Append(ms, m)[i] = IF i <= Len(ms) THEN ms[i] ELSE m
  OBVIOUS
<1>2. Len(Append(ms, m)) = Len(ms) + 1 /\ Len(ms) \in Nat
  OBVIOUS
<1> QED BY <1>1, <1>2 DEF SoundMessages

LEMMA FrontSound ==
    ASSUME NEW c \in Collections, NEW ms \in Seq(Messages), ms # << >>,
           SoundMessages(c, ms)
    PROVE  /\ SoundMessages(c, Tail(ms))
           /\ Head(ms).type = "Batch" => SoundCheckpoints(c, Head(ms).checkpoints)
<1>1. Len(ms) \in Nat /\ Len(ms) >= 1 /\ Head(ms) = ms[1]
  OBVIOUS
<1>2. /\ Len(Tail(ms)) = Len(ms) - 1
      /\ \A i \in 1..(Len(ms) - 1) : Tail(ms)[i] = ms[i + 1]
  OBVIOUS
<1>3. SoundMessages(c, Tail(ms))
  BY <1>1, <1>2 DEF SoundMessages
<1>4. Head(ms).type = "Batch" => SoundCheckpoints(c, Head(ms).checkpoints)
  BY <1>1 DEF SoundMessages
<1> QED BY <1>3, <1>4

LEMMA RestSound ==
    ASSUME NEW c \in Collections, NEW cps \in Checkpoints, cps # << >>,
           SoundCheckpoints(c, cps)
    PROVE  SoundCheckpoints(c, Tail(cps)) /\ SoundCheckpoint(c, Head(cps))
<1>0. cps \in Seq(Nat \X Nodes)
  BY DEF Checkpoints
<1>1. Len(cps) \in Nat /\ Len(cps) >= 1 /\ Head(cps) = cps[1]
  BY <1>0
<1>2. /\ Len(Tail(cps)) = Len(cps) - 1
      /\ \A i \in 1..(Len(cps) - 1) : Tail(cps)[i] = cps[i + 1]
  BY <1>0
<1> QED BY <1>1, <1>2 DEF SoundCheckpoints

\* A batch put back in front without its first checkpoint.
LEMMA PutBackSound ==
    ASSUME NEW c \in Collections, NEW ms \in Seq(Messages), NEW m \in Messages,
           SoundMessages(c, ms),
           m.type = "Batch" => SoundCheckpoints(c, m.checkpoints)
    PROVE  SoundMessages(c, <<m>> \o ms)
<1>1. Len(<<m>> \o ms) = Len(ms) + 1 /\ Len(ms) \in Nat
  OBVIOUS
<1>2. \A i \in 1..(Len(ms) + 1) :
        (<<m>> \o ms)[i] = IF i = 1 THEN m ELSE ms[i - 1]
  OBVIOUS
<1> QED BY <1>1, <1>2 DEF SoundMessages

\* The i-th stored checkpoint of an index of c is sound.
SoundIndex(c, si) ==
    \A i \in 1..Len(si.checkpoints) :
        SoundCheckpoint(c, <<(i - 1) * SkipInterval, si.checkpoints[i]>>)

LEMMA SoundIndexes == SkipIndexSound <=> \A c \in Collections : SoundIndex(c, skip[c])
BY DEF SkipIndexSound, SoundIndex, SoundCheckpoint

LEMMA RecordSound ==
    ASSUME NEW c \in Collections, NEW si \in SI!Indexes, SoundIndex(c, si),
           NEW e \in Nat, NEW n \in Nodes, SoundCheckpoint(c, <<e, n>>)
    PROVE  SoundIndex(c, SI!Record(si, e, n))
<1>1. CASE e # Len(si.checkpoints) * SkipInterval
  BY <1>1 DEF SI!Record
<1>2. CASE e = Len(si.checkpoints) * SkipInterval
  <2> DEFINE old == si.checkpoints
             new == Append(old, n)
  <2>1. old \in Seq(Nodes)
    BY DEF SI!Indexes
  <2>2. /\ Len(old) \in Nat /\ Len(new) = Len(old) + 1
        /\ \A i \in 1..Len(new) : new[i] = IF i <= Len(old) THEN old[i] ELSE n
    BY <2>1
  <2>3. SI!Record(si, e, n).checkpoints = new
    BY <1>2 DEF SI!Record, SI!Indexes
  <2> HIDE DEF new
  <2>4. ASSUME NEW i \in 1..Len(new)
        PROVE  SoundCheckpoint(c, <<(i - 1) * SkipInterval, new[i]>>)
    <3>1. CASE i <= Len(old)
      <4>1. i \in 1..Len(old)
        BY <2>2, <3>1
      <4> QED BY <2>2, <3>1, <4>1 DEF SoundIndex
    <3>2. CASE i = Len(old) + 1
      <4>1. i - 1 = Len(old) /\ new[i] = n
        BY <2>2, <3>2
      <4> QED BY <1>2, <4>1
    <3> QED BY <2>2, <3>1, <3>2
  <2> QED BY <2>3, <2>4 DEF SoundIndex
<1> QED BY <1>1, <1>2

LEMMA MarkedSound ==
    ASSUME NEW c \in Collections, NEW si \in SI!Indexes, SoundIndex(c, si)
    PROVE  SoundIndex(c, SI!MarkComplete(si))
BY DEF SoundIndex, SI!MarkComplete, SI!Indexes

\* What a step has to leave alone for the threads' messages to stay sound.
LEMMA DrainSoundFrame ==
    ASSUME NEW t \in Threads, DrainSound(t),
           messages'[t] = messages[t],
           \/ serving'[t] = serving[t]
           \/ pc[t] \notin {"remove", "join", "apply", "applying"},
           \/ pc[t] \in {"remove", "join", "apply", "applying"}
           \/ pc'[t] \notin {"remove", "join", "apply", "applying"},
           \/ pc'[t] \in {"remove", "join", "apply", "applying"}
           \/ messages[t] = << >>
    PROVE  DrainSound(t)'
<1>1. CASE messages[t] = << >>
  BY <1>1, EmptySound DEF DrainSound
<1>2. CASE messages[t] # << >>
  BY <1>2 DEF DrainSound
<1> QED BY <1>1, <1>2

LEMMA WalkerSoundFrame ==
    ASSUME NEW w \in Walkers, WalkerSound(w), Live(w) \/ walk'[w] = walk[w],
           walk'[w].collection = walk[w].collection,
           walk'[w].state = walk[w].state,
           walk'[w].count = walk[w].count,
           walk'[w].at = walk[w].at,
           walk'[w].buffer = walk[w].buffer,
           channel'[w] = channel[w]
    PROVE  WalkerSound(w)'
<1>1. Live(w)' <=> Live(w)
  BY DEF Live
<1>2. SoundCheckpoints(walk[w].collection, walk[w].buffer)'
  BY DEF WalkerSound
<1>3. SoundMessages(walk[w].collection, channel[w])'
  BY DEF WalkerSound
<1>4. Live(w)' => /\ walk'[w].count <= Len(Chain[walk'[w].collection])
                  /\ walk'[w].at = NodeAt(walk'[w].collection, walk'[w].count)
  BY <1>1 DEF WalkerSound
<1>5. ~Live(w)' => walk'[w] = Idle /\ channel'[w] = << >>
  BY <1>1 DEF WalkerSound
<1> QED BY <1>2, <1>3, <1>4, <1>5 DEF WalkerSound, NodeAt

LEMMA WalkerCheckpointsStep ==
    ASSUME TypeOK, CheckpointsInv, NEW w \in Walkers, Walking(w) \/ WalkPanic(w)
    PROVE  CheckpointsInv'
<1> USE ElementTypes
<1>1. /\ walk \in [Walkers -> WalkType]
      /\ channel \in [Walkers -> Seq(Messages)]
      /\ walk[w] \in WalkType /\ channel[w] \in Seq(Messages)
      /\ WalkerSound(w)
  BY DEF TypeOK, CheckpointsInv
<1>2. UNCHANGED <<skip, pc, serving, messages>>
  BY DEF Walking, WalkNode, WalkFlush, WalkComplete, WalkExit, WalkPanic, indexVars
<1>3. \A v \in Walkers : v # w => walk'[v] = walk[v] /\ channel'[v] = channel[v]
  BY <1>1 DEF Walking, WalkNode, WalkFlush, WalkComplete, WalkExit, WalkPanic, Send
<1> DEFINE c == walk[w].collection
<1>4. c \in Collections
  BY <1>1 DEF WalkType
<1>5. WalkerSound(w)'
  <2>1. CASE WalkNode(w)
    <3> DEFINE here == walk[w]
               cp == <<here.count, here.at>>
               buffer == IF here.count % SkipInterval = 0
                         THEN Append(here.buffer, cp)
                         ELSE here.buffer
               due == (here.count + 1) % BatchSendInterval = 0
    <3>1. /\ here.count \in Nat /\ here.at \in Nodes
          /\ here.at = NodeAt(c, here.count) /\ here.count < Len(Chain[c])
      BY <1>1, <2>1, ChainType DEF WalkNode, WalkType, WalkerSound, Live, NodeAt
    <3>2. SoundCheckpoint(c, cp) /\ cp \in Nat \X Nodes
      BY <3>1 DEF SoundCheckpoint, NodeAt
    <3>3. SoundCheckpoints(c, buffer) /\ buffer \in Checkpoints
      <4>1. SoundCheckpoints(c, here.buffer)
        BY <1>1 DEF WalkerSound
      <4>2. SoundCheckpoints(c, Append(here.buffer, cp))
        BY <1>4, <3>2, <4>1, AppendedCheckpoint
      <4>3. Append(here.buffer, cp) \in Checkpoints
        BY <3>2 DEF Checkpoints
      <4> QED BY <4>1, <4>2, <4>3
    <3> HIDE DEF buffer
    <3>4. /\ walk'[w].collection = c
          /\ walk'[w].state = "walking"
          /\ walk'[w].count = here.count + 1
          /\ walk'[w].at = Successor(c, here.at)
          /\ walk'[w].buffer = IF due THEN << >> ELSE buffer
          /\ channel'[w] = IF due THEN Append(channel[w], Batch(buffer))
                           ELSE channel[w]
      BY <1>1, <2>1 DEF WalkNode, WalkType, Send, buffer
    <3>5. SoundCheckpoints(walk'[w].collection, walk'[w].buffer)
      BY <3>3, <3>4, EmptySound
    <3>6. SoundMessages(walk'[w].collection, channel'[w])
      <4>1. SoundMessages(c, channel[w])
        BY <1>1 DEF WalkerSound
      <4>2. Batch(buffer) \in Messages /\ Batch(buffer).checkpoints = buffer
        BY <3>3, MessageTypes DEF Batch
      <4>3. SoundMessages(c, Append(channel[w], Batch(buffer)))
        BY <1>1, <1>4, <3>3, <4>1, <4>2, AppendedMessage
      <4> QED BY <3>4, <4>1, <4>3
    <3>7. /\ walk'[w].count <= Len(Chain[c])
          /\ walk'[w].at = NodeAt(c, walk'[w].count)
      BY SMTT(30), <1>4, <3>1, <3>4, SuccessorAt, ChainType
    <3> QED BY Zenon, <3>4, <3>5, <3>6, <3>7
         DEF WalkerSound, Live, SoundMessages, SoundCheckpoints, SoundCheckpoint, NodeAt
  <2>2. ASSUME NEW state \in States, state # "free",
               walk[w].state # "free",
               walk' = [walk EXCEPT ![w].state = state, ![w].buffer = << >>]
                 \/ walk' = [walk EXCEPT ![w].state = state],
               \/ channel'[w] = channel[w]
               \/ channel'[w] = Append(channel[w], Batch(walk[w].buffer))
               \/ channel'[w] = Append(channel[w], Complete)
        PROVE  WalkerSound(w)'
    <3>1. /\ walk'[w].collection = c
          /\ walk'[w].state # "free"
          /\ walk'[w].count = walk[w].count
          /\ walk'[w].at = walk[w].at
          /\ walk'[w].buffer \in {walk[w].buffer, << >>}
      BY <1>1, <2>2 DEF WalkType
    <3>2. SoundCheckpoints(c, walk'[w].buffer)
      BY <1>1, <3>1, EmptySound DEF WalkerSound
    <3>3. SoundMessages(c, channel'[w])
      <4>1. SoundMessages(c, channel[w]) /\ SoundCheckpoints(c, walk[w].buffer)
        BY <1>1 DEF WalkerSound
      <4>2. SoundMessages(c, Append(channel[w], Batch(walk[w].buffer)))
        <5>1. /\ Batch(walk[w].buffer) \in Messages
              /\ Batch(walk[w].buffer).checkpoints = walk[w].buffer
          BY MessageTypes DEF Batch
        <5> QED BY <1>1, <1>4, <4>1, <5>1, AppendedMessage
      <4>3. SoundMessages(c, Append(channel[w], Complete))
        <5>1. Complete \in Messages /\ Complete.type # "Batch"
          BY MessageTypes DEF Complete
        <5> QED BY <1>1, <1>4, <4>1, <5>1, AppendedMessage
      <4> QED BY <2>2, <4>1, <4>2, <4>3
    <3>4. /\ walk[w].count <= Len(Chain[c])
          /\ walk[w].at = NodeAt(c, walk[w].count)
      BY <1>1, <2>2 DEF WalkerSound, Live
    <3> QED BY Zenon, <3>1, <3>2, <3>3, <3>4
         DEF WalkerSound, Live, SoundMessages, SoundCheckpoints, SoundCheckpoint, NodeAt
  <2>3. CASE WalkFlush(w)
    BY <1>1, <2>2, <2>3 DEF WalkFlush, Send, States
  <2>4. CASE WalkComplete(w)
    BY <1>1, <2>2, <2>4 DEF WalkComplete, Send, States
  <2>5. CASE WalkExit(w)
    BY <1>1, <2>2, <2>5 DEF WalkExit, States
  <2>6. CASE WalkPanic(w)
    BY <1>1, <2>2, <2>6 DEF WalkPanic, States
  <2> QED BY SMTT(30), <2>1, <2>3, <2>4, <2>5, <2>6 DEF Walking
<1>6. \A v \in Walkers : WalkerSound(v)'
  BY <1>3, <1>5, WalkerSoundFrame DEF CheckpointsInv
<1>7. \A t \in Threads : DrainSound(t)'
  BY <1>2, DrainSoundFrame DEF CheckpointsInv, DrainSound
<1>8. SkipIndexSound'
  BY <1>2 DEF CheckpointsInv, SkipIndexSound
<1> QED BY <1>6, <1>7, <1>8 DEF CheckpointsInv

\* A join leaves the thread's own messages and every index alone.
LEMMA JoinCheckpoints ==
    ASSUME TypeOK, CheckpointsInv, NEW t \in Threads, Joined(t),
           UNCHANGED <<skip, messages, serving>>,
           \A u \in Threads :
             \/ pc'[u] = pc[u]
             \/ pc'[u] = "apply" /\ pc[u] = "join"
             \/ messages[u] = << >>
    PROVE  CheckpointsInv'
<1>1. /\ walk \in [Walkers -> WalkType]
      /\ channel \in [Walkers -> Seq(Messages)]
  BY DEF TypeOK
<1>2. PICK v : v = joining[t]
  OBVIOUS
<1>3. /\ walk' = [walk EXCEPT ![v] = Idle]
      /\ channel' = [channel EXCEPT ![v] = << >>]
  BY <1>2 DEF Joined
<1>4. \A w \in Walkers : WalkerSound(w)'
  <2> SUFFICES ASSUME NEW w \in Walkers PROVE WalkerSound(w)'
    OBVIOUS
  <2>1. CASE w = v
    <3>1. walk'[w] = Idle /\ channel'[w] = << >>
      BY <1>1, <1>3, <2>1
    <3> QED BY <3>1, EmptySound
         DEF WalkerSound, Live, Idle, SoundMessages, SoundCheckpoints
  <2>2. CASE w # v
    <3>1. walk'[w] = walk[w] /\ channel'[w] = channel[w]
      BY <1>1, <1>3, <2>2
    <3> QED BY <3>1, WalkerSoundFrame DEF CheckpointsInv
  <2> QED BY <2>1, <2>2
<1>5. \A u \in Threads : DrainSound(u)'
  BY DrainSoundFrame DEF CheckpointsInv, DrainSound
<1>6. SkipIndexSound'
  BY DEF CheckpointsInv, SkipIndexSound
<1> QED BY <1>4, <1>5, <1>6 DEF CheckpointsInv

LEMMA DrainCheckpointsStep ==
    ASSUME TypeOK, HandlesInv, CheckpointsInv, NEW t \in Threads, DrainWalker(t)
    PROVE  CheckpointsInv'
<1> USE ElementTypes
<1> DEFINE c == serving[t]
<1>1. /\ pc \in [Threads -> Labels]
      /\ messages \in [Threads -> Seq(Messages)]
      /\ channel \in [Walkers -> Seq(Messages)]
      /\ skip \in [Collections -> SI!Indexes]
      /\ c \in Collections
      /\ messages[t] \in Seq(Messages)
      /\ DrainSound(t)
  BY DEF TypeOK, CheckpointsInv
<1>2. UNCHANGED serving
  BY DEF DrainWalker, DrainTake, DrainRemove, DrainJoin, DrainApply, ApplyBatch,
         ApplyComplete, DrainDone
<1>3. \A u \in Threads : u # t => pc'[u] = pc[u] /\ messages'[u] = messages[u]
  BY <1>1 DEF DrainWalker, DrainTake, DrainRemove, DrainJoin, DrainApply,
              ApplyBatch, ApplyComplete, DrainDone, Goto
<1>4. \A u \in Threads : u # t => DrainSound(u)'
  BY <1>2, <1>3, DrainSoundFrame DEF CheckpointsInv, DrainSound
\* What is left to show of a step that leaves the walkers alone.
<1>5. ASSUME UNCHANGED <<walk, channel>>, DrainSound(t)', SkipIndexSound'
      PROVE  CheckpointsInv'
  BY <1>4, <1>5, WalkerSoundFrame DEF CheckpointsInv
<1>6. ASSUME UNCHANGED skip
      PROVE  SkipIndexSound'
  BY <1>6 DEF CheckpointsInv, SkipIndexSound
<1>7. CASE DrainTake(t)
  <2> DEFINE w == walkers[c]
  <2>1. CASE w = NoWalker
    <3>1. UNCHANGED <<walk, channel, messages, skip>>
      BY <1>7, <2>1 DEF DrainTake, indexVars
    <3>2. DrainSound(t)'
      BY <1>1, <1>2, <1>7, <3>1, DrainSoundFrame DEF DrainTake, DrainSound
    <3> QED BY <1>5, <1>6, <3>1, <3>2
  <2>2. CASE w # NoWalker
    <3>1. PICK v \in Walkers : v = w
      BY <2>2 DEF TypeOK
    <3>2. walk[v].collection = c /\ WalkerSound(v) /\ Live(v)
      BY <1>1, <2>2, <3>1 DEF HandlesInv, CheckpointsInv
    <3>3. /\ messages'[t] = channel[v]
          /\ channel' = [channel EXCEPT ![v] = << >>]
          /\ UNCHANGED <<walk, skip>>
          /\ pc'[t] = (IF HasComplete(channel[v]) \/ Ended(v) THEN "remove"
                       ELSE IF channel[v] = << >> THEN Resume(t) ELSE "apply")
      BY <1>1, <1>7, <2>2, <3>1 DEF DrainTake, Goto, indexVars
    <3>4. DrainSound(t)'
      <4>1. SoundMessages(c, messages'[t])
        BY <3>2, <3>3 DEF WalkerSound
      <4>2. pc'[t] \in {"remove", "apply"} \/ messages'[t] = << >>
        BY <3>3
      <4> QED BY <1>2, <4>1, <4>2
           DEF DrainSound, SoundMessages, SoundCheckpoints, SoundCheckpoint
    <3>5. \A x \in Walkers : WalkerSound(x)'
      <4> SUFFICES ASSUME NEW x \in Walkers PROVE WalkerSound(x)'
        OBVIOUS
      <4>1. CASE x # v
        BY SMTT(30), <1>1, <3>3, <4>1, WalkerSoundFrame DEF CheckpointsInv
      <4>2. CASE x = v
        <5>1. channel'[x] = << >> /\ walk'[x] = walk[x]
          BY <1>1, <3>3, <4>2
        <5>2. /\ SoundCheckpoints(walk'[x].collection, walk'[x].buffer)
              /\ SoundMessages(walk'[x].collection, channel'[x])
              /\ walk'[x].state # "free"
              /\ walk'[x].count <= Len(Chain[walk'[x].collection])
              /\ walk'[x].at = NodeAt(walk'[x].collection, walk'[x].count)
          BY <3>2, <4>2, <5>1, EmptySound DEF WalkerSound, Live
        <5> QED BY <5>2
             DEF WalkerSound, Live, SoundMessages, SoundCheckpoints,
                 SoundCheckpoint, NodeAt
      <4> QED BY <4>1, <4>2
    <3>6. SkipIndexSound'
      BY <1>6, <3>3
    <3> QED BY <1>4, <3>4, <3>5, <3>6 DEF CheckpointsInv
  <2> QED BY <2>1, <2>2
<1>8. CASE DrainRemove(t)
  <2>1. /\ UNCHANGED <<walk, channel, messages, skip>>
        /\ pc[t] = "remove" /\ pc'[t] \in {"apply", "join"}
    BY <1>1, <1>8 DEF DrainRemove, Goto, indexVars
  <2>2. DrainSound(t)'
    BY <1>1, <1>2, <2>1, DrainSoundFrame
  <2> QED BY <1>5, <1>6, <2>1, <2>2
<1>9. CASE DrainJoin(t)
  <2>1. pc[t] = "join" /\ pc'[t] = "apply"
    BY <1>1, <1>9 DEF DrainJoin, Goto
  <2> QED BY <1>2, <1>3, <1>9, <2>1, JoinCheckpoints DEF DrainJoin, indexVars
<1>10. CASE DrainApply(t)
  <2>1. /\ UNCHANGED <<walk, channel, messages, skip>>
        /\ pc[t] = "apply" /\ pc'[t] = "applying"
    BY <1>1, <1>10 DEF DrainApply, Goto, indexVars, walkVars
  <2>2. DrainSound(t)'
    BY <1>1, <1>2, <2>1, DrainSoundFrame
  <2> QED BY <1>5, <1>6, <2>1, <2>2
<1>11. CASE ApplyBatch(t)
  <2> DEFINE rest == Head(messages[t]).checkpoints
             new  == IF rest = << >> THEN Tail(messages[t])
                     ELSE <<Batch(Tail(rest))>> \o Tail(messages[t])
  <2>1. /\ messages[t] # << >> /\ Head(messages[t]).type = "Batch"
        /\ pc[t] = "applying" /\ UNCHANGED <<pc, walk, channel>>
        /\ messages'[t] = new
        /\ skip' = IF rest = << >> THEN skip
                   ELSE [skip EXCEPT ![c] =
                           SI!Record(skip[c], Head(rest)[1], Head(rest)[2])]
    BY <1>1, <1>11 DEF ApplyBatch, walkVars
  <2>2. /\ rest \in Checkpoints /\ Tail(messages[t]) \in Seq(Messages)
        /\ SoundCheckpoints(c, rest) /\ SoundMessages(c, Tail(messages[t]))
    BY <1>1, <2>1, FrontMessage, FrontSound DEF DrainSound
  <2>3. CASE rest = << >>
    <3>1. DrainSound(t)'
      <4>1. messages'[t] = Tail(messages[t])
        BY <2>1, <2>3
      <4>2. SoundMessages(serving'[t], messages'[t])
        BY <1>2, <2>2, <4>1
      <4> QED BY Zenon, <2>1, <4>2
           DEF DrainSound, SoundMessages, SoundCheckpoints, SoundCheckpoint
    <3> QED BY SMTT(30), <1>5, <1>6, <2>1, <2>3, <3>1
  <2>4. CASE rest # << >>
    <3>1. /\ Tail(rest) \in Checkpoints
          /\ Head(rest) \in Nat \X Nodes
          /\ SoundCheckpoints(c, Tail(rest)) /\ SoundCheckpoint(c, Head(rest))
      BY <1>1, <2>2, <2>4, FrontCheckpoint, RestSound
    <3>2. SoundMessages(c, new)
      <4>1. /\ Batch(Tail(rest)) \in Messages
            /\ Batch(Tail(rest)).checkpoints = Tail(rest)
        BY <3>1, MessageTypes DEF Batch
      <4>2. SoundMessages(c, <<Batch(Tail(rest))>> \o Tail(messages[t]))
        BY <1>1, <2>2, <3>1, <4>1, PutBackSound
      <4> QED BY <2>4, <4>2
    <3> HIDE DEF new
    <3>3. DrainSound(t)'
      BY <1>2, <2>1, <3>2
      DEF DrainSound, SoundMessages, SoundCheckpoints, SoundCheckpoint
    <3>4. SoundIndex(c, SI!Record(skip[c], Head(rest)[1], Head(rest)[2]))
      <4>1. SoundIndex(c, skip[c])
        BY <1>1, SoundIndexes DEF CheckpointsInv
      <4>2. Head(rest) = <<Head(rest)[1], Head(rest)[2]>>
            /\ Head(rest)[1] \in Nat /\ Head(rest)[2] \in Nodes
        BY <3>1
      <4> QED BY <1>1, <3>1, <4>1, <4>2, RecordSound
    <3>5. \A d \in Collections : SoundIndex(d, skip'[d])
      BY <1>1, <2>1, <2>4, <3>4, SoundIndexes DEF CheckpointsInv
    <3>6. SkipIndexSound'
      BY <3>5 DEF SkipIndexSound, SoundIndex, SoundCheckpoint
    <3> QED BY <1>5, <2>1, <3>3, <3>6
  <2> QED BY <2>3, <2>4
<1>12. CASE ApplyComplete(t)
  <2>1. /\ messages[t] # << >> /\ pc[t] = "applying"
        /\ UNCHANGED <<pc, walk, channel>>
        /\ messages'[t] = Tail(messages[t])
        /\ skip' = skip \/ skip' = [skip EXCEPT ![c] = SI!MarkComplete(skip[c])]
    BY <1>1, <1>12 DEF ApplyComplete, walkVars
  <2>2. SoundMessages(c, Tail(messages[t]))
    BY <1>1, <2>1, FrontSound DEF DrainSound
  <2>3. DrainSound(t)'
    BY <1>2, <2>1, <2>2, SMTT(30) DEF DrainSound
  <2>4. \A d \in Collections : SoundIndex(d, skip'[d])
    <3> TAKE d \in Collections
    <3>1. SoundIndex(d, skip[d]) /\ skip[d] \in SI!Indexes
      BY <1>1, SoundIndexes DEF CheckpointsInv
    <3>2. skip'[d] = skip[d] \/ skip'[d] = SI!MarkComplete(skip[d])
      BY <1>1, <2>1
    <3> QED BY <3>1, <3>2, MarkedSound
  <2>5. SkipIndexSound'
    BY <2>4 DEF SkipIndexSound, SoundIndex, SoundCheckpoint
  <2> QED BY <1>5, <2>1, <2>3, <2>5
<1>13. CASE DrainDone(t)
  <2>1. /\ UNCHANGED <<walk, channel, messages, skip>>
        /\ messages[t] = << >>
    BY <1>13 DEF DrainDone, indexVars, walkVars
  <2>2. DrainSound(t)'
    BY <2>1, EmptySound DEF DrainSound, SoundMessages
  <2> QED BY <1>5, <1>6, <2>1, <2>2
<1> QED BY <1>7, <1>8, <1>9, <1>10, <1>11, <1>12, <1>13 DEF DrainWalker

LEMMA UICheckpointsStep ==
    ASSUME TypeOK, HandlesInv, CheckpointsInv,
           Events \/ TickStart \/ (Ticking /\ ~DrainWalker(UI))
    PROVE  CheckpointsInv'
<1> USE ElementTypes
<1>1. /\ pc \in [Threads -> Labels]
      /\ serving \in [Threads -> Collections]
      /\ walk \in [Walkers -> WalkType]
      /\ channel \in [Walkers -> Seq(Messages)]
      /\ UI \in Threads /\ DrainSound(UI)
  BY DEF TypeOK, CheckpointsInv, Threads
<1>2. /\ UNCHANGED <<messages, skip>>
      /\ \A u \in Threads : u # UI => pc'[u] = pc[u] /\ serving'[u] = serving[u]
      /\ (pc'[UI] = pc[UI] /\ serving'[UI] = serving[UI]) \/ messages[UI] = << >>
  <2>1. Ticking /\ ~DrainWalker(UI) =>
          \/ SpawnWalker \/ CancelJoin \/ TickEnd \/ DropJoin \/ DropEnd
          \/ \E c \in Collections : TickDrain(c) \/ DropCancel(c)
    BY DEF Ticking
  <2> QED BY <1>1, <2>1
       DEF Events, SpawnLock, SpawnWalker, Cancel, CancelJoin, CancelWalker,
           TickStart, TickDrain, TickEnd, Quit, DropCancel, DropJoin, DropEnd,
           Goto, indexVars, DrainSound
<1>3. \A u \in Threads : DrainSound(u)'
  BY <1>2, DrainSoundFrame, EmptySound DEF CheckpointsInv, DrainSound
<1>4. SkipIndexSound'
  BY <1>2 DEF CheckpointsInv, SkipIndexSound
<1>5. ASSUME \A w \in Walkers : WalkerSound(w)'
      PROVE  CheckpointsInv'
  BY <1>3, <1>4, <1>5 DEF CheckpointsInv
<1>6. ASSUME UNCHANGED <<walk, channel>>
      PROVE  CheckpointsInv'
  BY <1>5, <1>6, WalkerSoundFrame DEF CheckpointsInv
<1>7. CASE SpawnWalker
  <2>1. CASE UNCHANGED walkVars
    BY <1>6, <2>1 DEF walkVars
  <2>2. CASE ~UNCHANGED walkVars
    <3> DEFINE c == serving[UI]
               New == [Idle EXCEPT !.state = "walking", !.collection = c,
                                   !.at = Head1(c)]
    <3>1. /\ c \in Collections
          /\ New.state # "free" /\ New.collection = c /\ New.buffer = << >>
          /\ New.count = 0 /\ New.at = Head1(c)
      BY <1>1 DEF Idle
    <3>2. Head1(c) = NodeAt(c, 0) /\ 0 <= Len(Chain[c])
      BY <3>1, ChainType DEF Head1, NodeAt
    <3> HIDE DEF New
    <3>3. PICK w \in Walkers : /\ walk[w].state = "free"
                               /\ walk' = [walk EXCEPT ![w] = New]
                               /\ UNCHANGED channel
      BY <1>7, <2>2 DEF SpawnWalker, New
    <3>4. ASSUME NEW v \in Walkers
          PROVE  WalkerSound(v)'
      <4>1. CASE v # w
        BY <1>1, <3>3, <4>1, WalkerSoundFrame DEF CheckpointsInv
      <4>2. CASE v = w
        <5>1. walk'[v] = New /\ channel'[v] = << >>
          BY <1>1, <3>3, <4>2 DEF CheckpointsInv, WalkerSound, Live
        <5> QED BY <3>1, <3>2, <5>1, EmptySound
             DEF WalkerSound, Live, SoundMessages, SoundCheckpoints, NodeAt
      <4> QED BY <4>1, <4>2
    <3> QED BY <1>5, <3>4
  <2> QED BY <2>1, <2>2
<1>8. ASSUME NEW c \in Collections, NEW label \in Labels, CancelWalker(c, label)
      PROVE  CheckpointsInv'
  <2>1. PICK w \in Walkers : w = walkers[c]
    BY <1>8 DEF CancelWalker, TypeOK
  <2>2. walk' = [walk EXCEPT ![w].cancel = TRUE] /\ UNCHANGED channel
    BY <1>8, <2>1 DEF CancelWalker
  <2>3. ASSUME NEW v \in Walkers
        PROVE  WalkerSound(v)'
    <3>1. CASE v # w
      BY <1>1, <2>2, <3>1, WalkerSoundFrame DEF CheckpointsInv
    <3>2. CASE v = w
      <4>1. /\ walk'[v].collection = walk[v].collection
            /\ walk'[v].state = walk[v].state
            /\ walk'[v].count = walk[v].count
            /\ walk'[v].at = walk[v].at
            /\ walk'[v].buffer = walk[v].buffer
            /\ channel'[v] = channel[v]
        BY <1>1, <2>2, <3>2 DEF WalkType
      <4>2. WalkerSound(v) /\ Live(v)
        BY <2>1, <3>2, <1>8 DEF CheckpointsInv, HandlesInv, CancelWalker
      <4> QED BY <4>1, <4>2, WalkerSoundFrame


    <3> QED BY <3>1, <3>2
  <2> QED BY <1>5, <2>3
<1>9. CASE \E c \in Collections : Cancel(c) \/ DropCancel(c)
  BY <1>8, <1>9 DEF Cancel, DropCancel, Labels
<1>10. CASE CancelJoin \/ DropJoin
  <2>1. /\ Joined(UI) /\ UNCHANGED <<skip, messages, serving>>
        /\ messages[UI] = << >>
    BY <1>1, <1>10 DEF CancelJoin, DropJoin, indexVars, DrainSound
  <2> QED BY <1>1, <1>2, <2>1, JoinCheckpoints
<1>11. CASE (\E c \in Collections : SpawnLock(c) \/ TickDrain(c))
            \/ TickStart \/ TickEnd \/ Quit \/ DropEnd
  BY <1>6, <1>11 DEF SpawnLock, TickDrain, TickStart, TickEnd, Quit, DropEnd, walkVars
<1> QED BY <1>7, <1>9, <1>10, <1>11 DEF Events, Ticking

LEMMA PagerCheckpointsStep ==
    ASSUME TypeOK, CheckpointsInv, ExtractInv, NEW p \in Pagers,
           \/ ExtractBegin(p) \/ ExtractNode(p) \/ ExtractEnd(p) \/ Return(p)
           \/ \E c \in Collections, r \in Requests : GetPage(p, c, r)
    PROVE  CheckpointsInv'
<1> USE ElementTypes
<1> DEFINE c == serving[p]
           e == extract[p]
<1>1. /\ pc \in [Threads -> Labels] /\ serving \in [Threads -> Collections]
      /\ skip \in [Collections -> SI!Indexes]
      /\ c \in Collections /\ p \in Threads /\ DrainSound(p)
  BY DEF TypeOK, CheckpointsInv, Threads
<1>2. UNCHANGED <<walk, channel, messages>>
  BY DEF ExtractBegin, ExtractNode, ExtractEnd, Return, GetPage, walkVars
<1>3. /\ \A u \in Threads : u # p => pc'[u] = pc[u] /\ serving'[u] = serving[u]
      /\ messages[p] = << >>
  BY <1>1
  DEF ExtractBegin, ExtractNode, ExtractEnd, Return, GetPage, Goto, DrainSound
<1>4. \A w \in Walkers : WalkerSound(w)'
  BY <1>2, WalkerSoundFrame DEF CheckpointsInv
<1>5. \A u \in Threads : DrainSound(u)'
  BY <1>2, <1>3, DrainSoundFrame, EmptySound DEF CheckpointsInv, DrainSound
<1>6. CASE ExtractNode(p)
  <2> DEFINE reached == e.base + Len(e.items)
  <2>1. /\ e.at \in Nodes /\ reached \in Nat
        /\ e.at = NodeAt(c, reached) /\ reached < Len(Chain[c])
    BY <1>1, <1>6, ChainType
    DEF ExtractNode, WantsMore, ExtractInv, ExtractSound, NodeAt
  <2>2. SoundCheckpoint(c, <<reached, e.at>>)
    BY <2>1 DEF SoundCheckpoint, NodeAt
  <2>3. skip' = skip \/ skip' = [skip EXCEPT ![c] = SI!Record(skip[c], reached, e.at)]
    BY <1>6 DEF ExtractNode
  <2> HIDE DEF reached
  <2>4. SoundIndex(c, SI!Record(skip[c], reached, e.at))
    BY <1>1, <2>1, <2>2, RecordSound, SoundIndexes DEF CheckpointsInv
  <2>5. \A d \in Collections : SoundIndex(d, skip'[d])
    BY <1>1, <2>3, <2>4, SoundIndexes DEF CheckpointsInv
  <2>6. SkipIndexSound'
    BY <2>5 DEF SkipIndexSound, SoundIndex, SoundCheckpoint
  <2> QED BY <1>4, <1>5, <2>6 DEF CheckpointsInv
<1>7. CASE ExtractEnd(p)
  <2>1. skip' = skip \/ skip' = [skip EXCEPT ![c] = SI!MarkComplete(skip[c])]
    BY <1>7 DEF ExtractEnd
  <2>2. \A d \in Collections : SoundIndex(d, skip'[d])
    BY <1>1, <2>1, MarkedSound, SoundIndexes DEF CheckpointsInv
  <2>3. SkipIndexSound'
    BY <2>2 DEF SkipIndexSound, SoundIndex, SoundCheckpoint
  <2> QED BY <1>4, <1>5, <2>3 DEF CheckpointsInv
<1>8. CASE ~ExtractNode(p) /\ ~ExtractEnd(p)
  <2>1. UNCHANGED skip
    BY <1>8 DEF ExtractBegin, Return, GetPage, indexVars
  <2>2. SkipIndexSound'
    BY <2>1 DEF CheckpointsInv, SkipIndexSound
  <2> QED BY <1>4, <1>5, <2>2 DEF CheckpointsInv
<1> QED BY <1>6, <1>7, <1>8

LEMMA CheckpointsStep ==
    ASSUME TypeOK, HandlesInv, CheckpointsInv, ExtractInv, [Next]_vars
    PROVE  CheckpointsInv'
<1>1. ASSUME NEW t \in Threads, DrainWalker(t)
      PROVE  CheckpointsInv'
  BY <1>1, DrainCheckpointsStep
<1>2. ASSUME NEW w \in Walkers, Walking(w) \/ WalkPanic(w)
      PROVE  CheckpointsInv'
  BY <1>2, WalkerCheckpointsStep
<1>3. CASE Events \/ TickStart \/ Ticking
  BY <1>1, <1>3, UICheckpointsStep DEF Threads
<1>4. ASSUME NEW p \in Pagers,
             \/ Paging(p)
             \/ \E c \in Collections, r \in Requests : GetPage(p, c, r)
      PROVE  CheckpointsInv'
  BY <1>1, <1>4, PagerCheckpointsStep DEF Paging, Threads
<1>5. CASE UNCHANGED vars
  <2>1. UNCHANGED <<walk, channel, skip, pc, serving, messages>>
    BY <1>5 DEF vars, walkVars, indexVars
  <2>2. \A w \in Walkers : WalkerSound(w)'
    BY <2>1, WalkerSoundFrame DEF CheckpointsInv
  <2>3. \A t \in Threads : DrainSound(t)'
    BY <2>1, DrainSoundFrame DEF CheckpointsInv, DrainSound
  <2>4. SkipIndexSound'
    BY <2>1 DEF CheckpointsInv, SkipIndexSound
  <2> QED BY <2>2, <2>3, <2>4 DEF CheckpointsInv
<1> QED BY <1>2, <1>3, <1>4, <1>5 DEF Next, Stopped

-----------------------------------------------------------------------------
(* Pages.                                                                  *)

LEMMA InitExtract == Init => ExtractInv /\ PagesMatchChain
BY ThreadsAssumption DEF Init, ExtractInv, ExtractSound, PagesMatchChain, Threads

\* What a step has to leave alone of a page in the making, or just returned.
LEMMA ExtractFrame ==
    ASSUME NEW p \in Pagers, ExtractSound(p),
           serving'[p] = serving[p], request'[p] = request[p],
           extract'[p] = extract[p],
           \/ pc'[p] = pc[p]
           \/ pc[p] # "idle" /\ pc'[p] # "extracting"
    PROVE  ExtractSound(p)'
BY DEF ExtractSound, NodeAt

\* Items that follow the chain still do with the node they have reached.
LEMMA GrownItems ==
    ASSUME NEW c \in Collections, NEW b \in Nat, NEW n \in Nat,
           NEW s \in Seq(Nodes), n = Len(s), b + n < Len(Chain[c]),
           \A i \in 1..n : s[i] = Chain[c][b + i]
    PROVE  LET t == Append(s, Chain[c][b + n + 1])
           IN  Len(t) = n + 1 /\ \A i \in 1..(n + 1) : t[i] = Chain[c][b + i]
<1> DEFINE x == Chain[c][b + n + 1]
           t == Append(s, x)
<1>1. Len(Chain[c]) \in Nat /\ x \in Nodes
  <2>1. Chain[c] \in Seq(Nodes) /\ Len(Chain[c]) \in Nat
    BY ChainType
  <2>2. b + n + 1 \in 1..Len(Chain[c])
    BY <2>1
  <2> QED BY <2>1, <2>2, ElementTypes
<1> HIDE DEF x
<1>2. /\ Len(t) = n + 1
      /\ \A i \in 1..(n + 1) : t[i] = IF i <= n THEN s[i] ELSE x
  BY <1>1
<1>3. ASSUME NEW i \in 1..(n + 1)
      PROVE  t[i] = Chain[c][b + i]
  <2>1. CASE i <= n
    BY <1>2, <2>1
  <2>2. CASE i = n + 1
    <3>1. b + i = b + n + 1
      BY <2>2
    <3> QED BY <1>2, <2>2, <3>1 DEF x
  <2> QED BY <2>1, <2>2
<1> QED BY <1>2, <1>3 DEF x

LEMMA ExtractStep ==
    ASSUME TypeOK, CheckpointsInv, ExtractInv, NEW p \in Pagers, [Next]_vars
    PROVE  ExtractSound(p)'
<1> USE ElementTypes
<1> DEFINE c == serving[p]
           e == extract[p]
           r == request[p]
           Begins == ExtractBegin(p)
           Advances == ExtractNode(p)
<1>1. /\ pc \in [Threads -> Labels] /\ p \in Threads /\ p # UI
      /\ serving \in [Threads -> Collections]
      /\ c \in Collections /\ ExtractSound(p)
      /\ extract \in [Pagers -> [base : Nat, at : Nodes \union {End},
                                 items : Seq(Nodes)]]
      /\ request \in [Pagers -> [offset : Nat, limit : Nat \ {0}]]
  BY ThreadsAssumption DEF TypeOK, ExtractInv, Threads
<1>2. ASSUME NEW t \in Threads, DrainWalker(t)
      PROVE  ExtractSound(p)'
  <2>1. /\ UNCHANGED <<serving, request, extract>>
        /\ pc'[p] = pc[p] \/ (pc[p] # "idle" /\ pc'[p] # "extracting")
    BY <1>1, <1>2
    DEF DrainWalker, DrainTake, DrainRemove, DrainJoin, DrainApply, ApplyBatch,
        ApplyComplete, DrainDone, Goto, Resume, pageVars
  <2> QED BY <1>1, <2>1, ExtractFrame
<1>3. ASSUME NEW w \in Walkers, Walking(w) \/ WalkPanic(w)
      PROVE  ExtractSound(p)'
  BY <1>1, <1>3, ExtractFrame
  DEF Walking, WalkNode, WalkFlush, WalkComplete, WalkExit, WalkPanic, pageVars
<1>4. CASE Events \/ TickStart \/ Ticking
  <2>1. CASE DrainWalker(UI)
    BY <1>2, <2>1 DEF Threads
  <2>2. CASE ~DrainWalker(UI)
    <3>1. /\ UNCHANGED <<request, extract>>
          /\ serving'[p] = serving[p] /\ pc'[p] = pc[p]
      BY <1>1, <1>4, <2>2
      DEF Events, Ticking, SpawnLock, SpawnWalker, Cancel, CancelJoin,
          CancelWalker, TickStart, TickDrain, TickEnd, Quit, DropCancel,
          DropJoin, DropEnd, Goto, pageVars
    <3> QED BY <1>1, <3>1, ExtractFrame
  <2> QED BY <2>1, <2>2
<1>5. ASSUME NEW q \in Pagers, q # p,
             \/ ExtractBegin(q) \/ ExtractNode(q) \/ ExtractEnd(q) \/ Return(q)
             \/ \E d \in Collections, s \in Requests : GetPage(q, d, s)
      PROVE  ExtractSound(p)'
  <2>1. /\ serving'[p] = serving[p] /\ request'[p] = request[p]
        /\ extract'[p] = extract[p] /\ pc'[p] = pc[p]
    BY <1>1, <1>5
    DEF ExtractBegin, ExtractNode, ExtractEnd, Return, GetPage, Goto
  <2> QED BY <1>1, <2>1, ExtractFrame
<1>6. CASE \E d \in Collections, s \in Requests : GetPage(p, d, s)
  <2>1. PICK d \in Collections, s \in Requests : GetPage(p, d, s)
    BY <1>6
  <2>2. /\ serving'[p] = d /\ request'[p] = s /\ s.offset < Size[d]
        /\ pc'[p] = "drain"
    BY <1>1, <2>1 DEF GetPage, Goto
  <2> QED BY <2>2 DEF ExtractSound
<1>7. CASE ExtractBegin(p)
  <2>1. /\ serving'[p] = c /\ request'[p] = r /\ pc'[p] = "extracting"
        /\ r.offset < Size[c] /\ r.offset \in Nat /\ Size[c] \in Nat
        /\ Len(Chain[c]) \in Nat
    BY <1>1, <1>7, ChainType DEF ExtractBegin, Goto, ExtractSound
  <2>2. extract'[p].items = << >>
    BY <1>1, <1>7 DEF ExtractBegin
  <2>3. /\ extract'[p].base \in Nat
        /\ extract'[p].base <= r.offset
        /\ extract'[p].base <= Len(Chain[c])
        /\ extract'[p].at = NodeAt(c, extract'[p].base)
    <3>1. CASE r.offset > 0 /\ skip[c].checkpoints # << >>
      <4> DEFINE i == SI!NearestPosition(skip[c], r.offset)
      <4>1. /\ extract'[p].base = i * SkipInterval
            /\ extract'[p].at = skip[c].checkpoints[i + 1]
        BY <1>1, <1>7, <3>1 DEF ExtractBegin, SI!NearestBefore
      <4>2. /\ i \in 0..(Len(skip[c].checkpoints) - 1)
            /\ i * SkipInterval \in Nat /\ i * SkipInterval <= r.offset
        BY <1>1, <2>1, <3>1, NearestBounds
      <4> HIDE DEF i
      <4>3. SoundCheckpoint(c, <<i * SkipInterval, skip[c].checkpoints[i + 1]>>)
        <5>1. i + 1 \in 1..Len(skip[c].checkpoints) /\ (i + 1) - 1 = i
          BY <4>2
        <5> QED BY <1>1, <5>1, SoundIndexes DEF CheckpointsInv, SoundIndex
      <4> QED BY <2>1, <4>1, <4>2, <4>3 DEF SoundCheckpoint, NodeAt
    <3>2. CASE ~(r.offset > 0 /\ skip[c].checkpoints # << >>)
      <4>1. extract'[p].base = 0 /\ extract'[p].at = Head1(c)
        BY <1>1, <1>7, <3>2 DEF ExtractBegin
      <4>2. Head1(c) = NodeAt(c, 0)
        BY <1>1, ChainType DEF Head1, NodeAt
      <4> QED BY <2>1, <4>1, <4>2
    <3> QED BY <3>1, <3>2
  <2>4. Len(extract'[p].items) = 0
    BY <2>2
  <2>5. r.limit \in Nat
    BY <1>1
  <2> QED BY <2>1, <2>3, <2>4, <2>5, SMTT(30) DEF ExtractSound, NodeAt
<1>8. CASE ExtractNode(p)
  <2>0. e.base \in Nat /\ e.items \in Seq(Nodes)
    BY <1>1
  <2>1. PICK b \in Nat, n \in Nat : b = e.base /\ n = Len(e.items)
    BY <2>0, SMTT(30)
  <2>2. /\ serving'[p] = c /\ request'[p] = r /\ pc'[p] = "extracting"
        /\ pc[p] = "extracting"
        /\ extract'[p].base = b
        /\ extract'[p].at = Successor(c, e.at)
        /\ extract'[p].items = Append(e.items, e.at)
    BY <1>1, <1>8, <2>1 DEF ExtractNode
  <2>3. /\ r.offset \in Nat /\ r.limit \in Nat /\ Size[c] \in Nat
        /\ Len(Chain[c]) \in Nat /\ e.items \in Seq(Nodes)
    BY <1>1, ChainType
  <2>4. /\ e.at # End /\ e.at = NodeAt(c, b + n)
        /\ b + n < r.offset + r.limit
        /\ c \in LinkedLists => b + n < Size[c]
        /\ b <= r.offset /\ r.offset < Size[c]
        /\ \A i \in 1..n : e.items[i] = Chain[c][b + i]
    BY <1>1, <1>8, <2>1, <2>2 DEF ExtractNode, WantsMore, ExtractSound
  <2>5. b + n < Len(Chain[c]) /\ e.at = Chain[c][b + n + 1]
    BY <2>4 DEF NodeAt
  <2>6. /\ Len(extract'[p].items) = n + 1
        /\ \A i \in 1..(n + 1) : extract'[p].items[i] = Chain[c][b + i]
    <3>1. e.items \in Seq(Nodes) /\ n = Len(e.items) /\ c \in Collections
      BY <1>1, <2>1, <2>3
    <3> DEFINE grown == Append(e.items, Chain[c][b + n + 1])
    <3>2. Len(grown) = n + 1 /\ \A i \in 1..(n + 1) : grown[i] = Chain[c][b + i]
      <4> HIDE DEF c, e
      <4> QED BY <3>1, <2>4, <2>5, GrownItems, SMTT(30)
    <3>3. extract'[p].items = grown
      BY <2>2, <2>5
    <3> QED BY <3>2, <3>3
  <2>7. extract'[p].at = NodeAt(c, b + (n + 1))
    <3>1. b + n \in Nat /\ (b + n) + 1 = b + (n + 1)
      OBVIOUS
    <3>2. c \in Collections
      BY <1>1
    <3>3. Successor(c, NodeAt(c, b + n)) = NodeAt(c, (b + n) + 1)
      <4> HIDE DEF c
      <4> QED BY <2>5, <3>1, <3>2, SuccessorAt
    <3> QED BY <2>2, <2>4, <3>1, <3>3
  <2>8. /\ b + (n + 1) <= Len(Chain[c])
        /\ b + (n + 1) <= r.offset + r.limit
        /\ c \in LinkedLists => b + (n + 1) <= Size[c]
    <3>1. \A m \in Nat : b + n < m => b + (n + 1) <= m
      OBVIOUS
    <3>2. r.offset + r.limit \in Nat
      BY <2>3
    <3> HIDE DEF c, r
    <3> QED BY <2>3, <2>4, <2>5, <3>1, <3>2
  <2> QED BY <2>2, <2>4, <2>6, <2>7, <2>8 DEF ExtractSound
<1>9. CASE ExtractEnd(p)
  BY <1>1, <1>9 DEF ExtractEnd, Goto, ExtractSound
<1>10. CASE Return(p)
  BY <1>1, <1>10 DEF Return, Goto, ExtractSound
<1>11. CASE UNCHANGED vars
  BY <1>1, <1>11, ExtractFrame DEF vars, pageVars
<1>12. ASSUME NEW q \in Pagers,
              \/ Paging(q)
              \/ \E d \in Collections, s \in Requests : GetPage(q, d, s)
       PROVE  ExtractSound(p)'
  BY <1>2, <1>5, <1>6, <1>7, <1>8, <1>9, <1>10, <1>12 DEF Paging, Threads
<1> QED BY <1>3, <1>4, <1>11, <1>12 DEF Next, Stopped

-----------------------------------------------------------------------------
(* Pages.                                                                  *)

\* A slice of the items collected from a base on is the chain's slice there.
LEMMA SameSlice ==
    ASSUME NEW s \in Seq(Nodes), NEW t \in Seq(Nodes), NEW b \in Nat,
           NEW m \in Nat \ {0}, NEW n \in Nat,
           n <= Len(s), b + n <= Len(t),
           \A i \in 1..n : s[i] = t[b + i]
    PROVE  SubSeq(s, m, n) = SubSeq(t, b + m, b + n)
<1>1. \A i \in m..n : s[i] \in Nodes /\ t[b + i] \in Nodes
  <2> TAKE i \in m..n
  <2>1. i \in 1..Len(s) /\ b + i \in 1..Len(t)
    OBVIOUS
  <2> QED BY <2>1, ElementTypes
<1>2. \A j \in (b + m)..(b + n) : t[j] \in Nodes
  <2> TAKE j \in (b + m)..(b + n)
  <2>1. j \in 1..Len(t)
    OBVIOUS
  <2> QED BY <2>1, ElementTypes
<1>3. /\ SubSeq(s, m, n) \in Seq(Nodes)
      /\ Len(SubSeq(s, m, n)) = IF m <= n THEN n - m + 1 ELSE 0
      /\ \A i \in 1..n - m + 1 : SubSeq(s, m, n)[i] = s[m + i - 1]
  <2>1. m \in Int /\ n \in Int /\ \A i \in m..n : s[i] \in Nodes
    BY <1>1
  <2> HIDE <1>1
  <2> QED BY <2>1, SubSeqProperties, SMTT(30)
<1>4. /\ SubSeq(t, b + m, b + n) \in Seq(Nodes)
      /\ Len(SubSeq(t, b + m, b + n)) =
           IF b + m <= b + n THEN (b + n) - (b + m) + 1 ELSE 0
      /\ \A i \in 1..(b + n) - (b + m) + 1 :
           SubSeq(t, b + m, b + n)[i] = t[(b + m) + i - 1]
  <2>1. b + m \in Int /\ b + n \in Int
    OBVIOUS
  <2> QED BY <1>2, <2>1, SubSeqProperties
<1>5. Len(SubSeq(s, m, n)) = Len(SubSeq(t, b + m, b + n))
  <2>1. (b + n) - (b + m) + 1 = n - m + 1 /\ (m <= n <=> b + m <= b + n)
    OBVIOUS
  <2> QED BY <1>3, <1>4, <2>1
<1>6. ASSUME NEW i \in 1..Len(SubSeq(s, m, n))
      PROVE  SubSeq(s, m, n)[i] = SubSeq(t, b + m, b + n)[i]
  <2>1. i \in 1..n - m + 1 /\ i \in 1..(b + n) - (b + m) + 1
    BY <1>3
  <2>2. m + i - 1 \in 1..n
    BY <2>1
  <2>3. (b + m) + i - 1 = b + (m + i - 1)
    BY <2>1
  <2> QED BY <1>3, <1>4, <2>1, <2>2, <2>3
<1> QED BY <1>3, <1>4, <1>5, <1>6, SeqEqual

\* Where a walk that wants no more has stopped, and what its page leaves out.
LEMMA PageArithmetic ==
    ASSUME NEW b \in Nat, NEW n \in Nat, NEW offset \in Nat, NEW limit \in Nat \ {0},
           NEW chain \in Nat, NEW size \in Nat, NEW c, NEW lists,
           NEW skipped,
           b <= offset, offset < size, b + n <= chain, b + n <= offset + limit,
           c \in lists => b + n <= size,
           \/ b + n = chain
           \/ ~(b + n < offset + limit)
           \/ c \in lists /\ ~(b + n < size),
           skipped = LET bound == IF c \in lists THEN size ELSE n
                     IN  IF offset - b <= bound THEN offset - b ELSE bound
    PROVE  LET walkable == IF c \in lists /\ size < chain THEN size ELSE chain
           IN  /\ skipped \in Nat
               /\ b + n = IF offset + limit <= walkable
                          THEN offset + limit ELSE walkable
               /\ b + skipped = IF c \in lists \/ offset <= chain
                                THEN offset ELSE chain
               /\ skipped + limit <= n => skipped + limit = n
<1>1. CASE c \in lists
  BY <1>1
<1>2. CASE c \notin lists
  BY <1>2
<1> QED BY <1>1, <1>2

\* The node a walk has reached is null only at the end of the chain.
LEMMA NullAtEnd ==
    ASSUME NEW c \in Collections, NEW i \in Nat, i <= Len(Chain[c]),
           NodeAt(c, i) = End
    PROVE  i = Len(Chain[c])
<1>1. ASSUME i < Len(Chain[c])
      PROVE  NodeAt(c, i) \in Nodes
  <2>1. i + 1 \in 1..Len(Chain[c])
    BY <1>1, ChainType
  <2> QED BY <1>1, <2>1, ChainType DEF NodeAt
<1> QED BY <1>1, ChainType, HeapAssumption

\* The bounds of the page an extraction that wants no more returns.
LEMMA PageBounds ==
    ASSUME TypeOK, NEW p \in Pagers, pc[p] = "extracting", ExtractSound(p),
           ~WantsMore(p)
    PROVE  LET c == serving[p]
               reached == extract[p].base + Len(extract[p].items)
               r == request[p]
           IN  /\ Skipped(p) \in Nat
               /\ reached = IF r.offset + r.limit <= Walkable(c)
                            THEN r.offset + r.limit ELSE Walkable(c)
               /\ extract[p].base + Skipped(p) =
                    IF c \in LinkedLists \/ r.offset <= Len(Chain[c])
                    THEN r.offset ELSE Len(Chain[c])
               /\ Skipped(p) + r.limit <= Len(extract[p].items) =>
                    Skipped(p) + r.limit = Len(extract[p].items)
<1> DEFINE c == serving[p]
           b == extract[p].base
           n == Len(extract[p].items)
           offset == request[p].offset
           limit == request[p].limit
<1>1. /\ c \in Collections /\ b \in Nat /\ n \in Nat /\ offset \in Nat
      /\ limit \in Nat \ {0} /\ Size[c] \in Nat /\ Len(Chain[c]) \in Nat
  BY ElementTypes, ChainType
<1>2. /\ b <= offset /\ offset < Size[c]
      /\ b + n <= Len(Chain[c]) /\ b + n <= offset + limit
      /\ c \in LinkedLists => b + n <= Size[c]
      /\ extract[p].at = NodeAt(c, b + n)
  BY DEF ExtractSound
<1>3. \/ extract[p].at = End
      \/ ~(b + n < offset + limit)
      \/ c \in LinkedLists /\ ~(b + n < Size[c])
  BY DEF WantsMore
<1>4. Skipped(p) = LET bound == IF c \in LinkedLists THEN Size[c] ELSE n
                   IN  IF offset - b <= bound THEN offset - b ELSE bound
  BY DEF Skipped
<1> HIDE DEF c, b, n, offset, limit
<1>5. extract[p].at = End => b + n = Len(Chain[c])
  <2>1. b + n \in Nat
    BY <1>1
  <2> QED BY <1>1, <1>2, <2>1, NullAtEnd
<1>6. Walkable(c) = IF c \in LinkedLists /\ Size[c] < Len(Chain[c])
                    THEN Size[c] ELSE Len(Chain[c])
  BY DEF Walkable
<1>7. /\ Skipped(p) \in Nat
      /\ b + n = IF offset + limit <= Walkable(c)
                 THEN offset + limit ELSE Walkable(c)
      /\ b + Skipped(p) = IF c \in LinkedLists \/ offset <= Len(Chain[c])
                          THEN offset ELSE Len(Chain[c])
      /\ Skipped(p) + limit <= n => Skipped(p) + limit = n
  <2>1. PICK chain \in Nat, size \in Nat : chain = Len(Chain[c]) /\ size = Size[c]
    BY <1>1
  <2>2. \/ b + n = chain
        \/ ~(b + n < offset + limit)
        \/ c \in LinkedLists /\ ~(b + n < size)
    BY <1>3, <1>5, <2>1
  <2>3. Skipped(p) = LET bound == IF c \in LinkedLists THEN size ELSE n
                     IN  IF offset - b <= bound THEN offset - b ELSE bound
    BY <1>4, <2>1
  <2>4. /\ b <= offset /\ offset < size /\ b + n <= chain
        /\ b + n <= offset + limit
        /\ c \in LinkedLists => b + n <= size
    BY <1>2, <2>1
  <2>5. LET walkable == IF c \in LinkedLists /\ size < chain THEN size ELSE chain
        IN  /\ Skipped(p) \in Nat
            /\ b + n = IF offset + limit <= walkable
                       THEN offset + limit ELSE walkable
            /\ b + Skipped(p) = IF c \in LinkedLists \/ offset <= chain
                                THEN offset ELSE chain
            /\ Skipped(p) + limit <= n => Skipped(p) + limit = n
    BY ONLY <1>1, <2>2, <2>3, <2>4, chain \in Nat, size \in Nat, PageArithmetic
  <2> QED BY <1>6, <2>1, <2>5
<1> QED BY <1>7 DEF c, b, n, offset, limit

LEMMA PageBuilt ==
    ASSUME TypeOK, NEW p \in Pagers, ExtractSound(p), ExtractEnd(p)
    PROVE  page'[p] =
             ReferencePage(serving[p], request[p].offset, request[p].limit)
<1> USE ElementTypes
<1>1. /\ serving[p] \in Collections /\ extract[p].base \in Nat
      /\ extract[p].items \in Seq(Nodes) /\ Len(extract[p].items) \in Nat
      /\ request[p].offset \in Nat /\ request[p].limit \in Nat \ {0}
      /\ page \in [Pagers -> [entries : Seq(Nodes), offset : Nat,
                              hasMore : BOOLEAN]]
  BY DEF TypeOK
<1>2. PICK c \in Collections, b \in Nat, n \in Nat, offset \in Nat,
           limit \in Nat \ {0}, items \in Seq(Nodes) :
        /\ c = serving[p] /\ b = extract[p].base /\ n = Len(items)
        /\ items = extract[p].items
        /\ offset = request[p].offset /\ limit = request[p].limit
  BY <1>1
<1>3. /\ pc[p] = "extracting" /\ ~WantsMore(p)
      /\ page'[p] = PageOf(items, b, Skipped(p), limit, Size[c])
  BY <1>1, <1>2 DEF ExtractEnd
<1>4. /\ b + n <= Len(Chain[c])
      /\ \A i \in 1..n : items[i] = Chain[c][b + i]
  BY <1>2, <1>3 DEF ExtractSound
<1>5. /\ Skipped(p) \in Nat
      /\ b + n = IF offset + limit <= Walkable(c)
                 THEN offset + limit ELSE Walkable(c)
      /\ b + Skipped(p) = IF c \in LinkedLists \/ offset <= Len(Chain[c])
                          THEN offset ELSE Len(Chain[c])
      /\ Skipped(p) + limit <= n => Skipped(p) + limit = n
  BY <1>2, <1>3, PageBounds
<1>6. PICK k \in Nat : k = Skipped(p)
  BY <1>5
<1>7. SubSeq(items, k + 1, n) = SubSeq(Chain[c], b + (k + 1), b + n)
  <2>1. /\ Chain[c] \in Seq(Nodes) /\ k + 1 \in Nat \ {0}
        /\ n <= Len(items) /\ b + n <= Len(Chain[c])
    BY <1>2, <1>4, ChainType
  <2>2. /\ k + 1 \in Nat \ {0} /\ b \in Nat /\ n \in Nat
        /\ items \in Seq(Nodes) /\ Chain[c] \in Seq(Nodes)
        /\ n <= Len(items) /\ b + n <= Len(Chain[c])
        /\ \A i \in 1..n : items[i] = Chain[c][b + i]
    BY <1>4, <2>1
  <2> HIDE <1>1, <1>2, <1>3, <1>4, <1>5, <1>6
  <2> QED BY <2>2, SameSlice, SMTT(30)
<1>8. b + (k + 1) = (b + k) + 1
  OBVIOUS
<1>9. (IF k + limit <= n THEN k + limit ELSE n) = n
  BY <1>5, <1>6
<1>10. PageOf(items, b, k, limit, Size[c]) =
         [entries |-> SubSeq(Chain[c], (b + k) + 1, b + n), offset |-> b + k,
          hasMore |-> b + k + Len(SubSeq(Chain[c], (b + k) + 1, b + n)) < Size[c]]
  BY <1>2, <1>7, <1>8, <1>9 DEF PageOf
<1>11. ReferencePage(c, offset, limit) =
         [entries |-> SubSeq(Chain[c], (b + k) + 1, b + n), offset |-> b + k,
          hasMore |-> b + k + Len(SubSeq(Chain[c], (b + k) + 1, b + n)) < Size[c]]
  BY <1>5, <1>6 DEF ReferencePage
<1> QED BY <1>2, <1>3, <1>6, <1>10, <1>11

LEMMA PagesStep ==
    ASSUME TypeOK, ExtractInv, PagesMatchChain, [Next]_vars
    PROVE  PagesMatchChain'
<1> SUFFICES ASSUME NEW p \in Pagers, pc'[p] = "returned"
             PROVE  page'[p] = ReferencePage(serving'[p], request'[p].offset,
                                             request'[p].limit)
  BY Zenon DEF PagesMatchChain, ReferencePage, Walkable
<1> DEFINE Same == /\ pc[p] = "returned"
                   /\ serving'[p] = serving[p] /\ request'[p] = request[p]
                   /\ page'[p] = page[p]
<1>1. /\ pc \in [Threads -> Labels] /\ p \in Threads /\ p # UI
      /\ serving \in [Threads -> Collections] /\ ExtractSound(p)
      /\ page \in [Pagers -> [entries : Seq(Nodes), offset : Nat,
                              hasMore : BOOLEAN]]
      /\ request \in [Pagers -> [offset : Nat, limit : Nat \ {0}]]
  BY ThreadsAssumption DEF TypeOK, ExtractInv, Threads
<1>2. CASE Same
  BY <1>2 DEF PagesMatchChain
<1>3. ASSUME NEW t \in Threads, DrainWalker(t)
      PROVE  Same
  BY <1>1, <1>3
  DEF DrainWalker, DrainTake, DrainRemove, DrainJoin, DrainApply, ApplyBatch,
      ApplyComplete, DrainDone, Goto, Resume, pageVars
<1>4. ASSUME NEW w \in Walkers, Walking(w) \/ WalkPanic(w)
      PROVE  Same
  BY <1>1, <1>4
  DEF Walking, WalkNode, WalkFlush, WalkComplete, WalkExit, WalkPanic, pageVars
<1>5. CASE Events \/ TickStart \/ Ticking
  <2>1. CASE DrainWalker(UI)
    BY <1>2, <1>3, <2>1 DEF Threads
  <2>2. CASE ~DrainWalker(UI)
    <3>1. Same
      BY <1>1, <1>5, <2>2
      DEF Events, Ticking, SpawnLock, SpawnWalker, Cancel, CancelJoin,
          CancelWalker, TickStart, TickDrain, TickEnd, Quit, DropCancel,
          DropJoin, DropEnd, Goto, pageVars
    <3> QED BY <1>2, <3>1
  <2> QED BY <2>1, <2>2
<1>6. ASSUME NEW q \in Pagers,
             \/ Paging(q)
             \/ \E d \in Collections, s \in Requests : GetPage(q, d, s)
      PROVE  Same \/ (q = p /\ ExtractEnd(p))
  <2>1. CASE DrainWalker(q)
    BY <1>3, <2>1 DEF Threads
  <2>2. CASE ~DrainWalker(q)
    BY <1>1, <1>6, <2>2
    DEF Paging, ExtractBegin, ExtractNode, ExtractEnd, Return, GetPage, Goto
  <2> QED BY <2>1, <2>2
<1>7. CASE ExtractEnd(p)
  <2>1. serving'[p] = serving[p] /\ request'[p] = request[p]
    BY <1>7 DEF ExtractEnd
  <2> QED BY <1>1, <1>7, <2>1, PageBuilt
<1>8. CASE UNCHANGED vars
  BY <1>2, <1>8 DEF vars, pageVars
<1> QED BY SMTT(30), <1>2, <1>4, <1>5, <1>6, <1>7, <1>8 DEF Next, Stopped

-----------------------------------------------------------------------------
(* What an operation on a skip-index adds.                                 *)

LEMMA UnchangedGrows ==
    ASSUME NEW si \in SI!Indexes
    PROVE  Grows(si, si)
<1>1. si.checkpoints \in Seq(Nodes)
  BY DEF SI!Indexes
<1>2. SubSeq(si.checkpoints, 1, Len(si.checkpoints)) = si.checkpoints
  BY <1>1, SubSeqFull
<1> QED BY <1>1, <1>2 DEF Grows

LEMMA RecordGrows ==
    ASSUME NEW si \in SI!Indexes, NEW e, NEW n \in Nodes
    PROVE  Grows(si, SI!Record(si, e, n))
<1> DEFINE old == si.checkpoints
           new == Append(old, n)
<1>1. CASE SI!Record(si, e, n) = si
  BY <1>1, UnchangedGrows
<1>2. CASE SI!Record(si, e, n) # si
  <2>1. old \in Seq(Nodes) /\ Len(old) \in Nat
    BY DEF SI!Indexes
  <2>2. SI!Record(si, e, n) = [si EXCEPT !.checkpoints = new]
    BY <1>2 DEF SI!Record
  <2>3. SubSeq(new, 1, Len(old)) = old
    <3>1. new \in Seq(Nodes) /\ Len(new) = Len(old) + 1
          /\ \A i \in 1..Len(old) : new[i] = old[i]
      BY <2>1
    <3>2. PICK l \in Nat : l = Len(old)
      BY <2>1
    <3>3. l <= Len(new) /\ 0 + l <= Len(old)
          /\ \A i \in 1..l : new[i] = old[0 + i]
      BY <3>1, <3>2
    <3>4. SubSeq(new, 1, l) = SubSeq(old, 0 + 1, 0 + l)
      <4> HIDE DEF new, old
      <4> QED BY <2>1, <3>1, <3>3, SameSlice
    <3>5. 0 + 1 = 1 /\ 0 + l = l
      OBVIOUS
    <3> QED BY <2>1, <3>2, <3>4, <3>5, SubSeqFull
  <2>4. /\ SI!Record(si, e, n).checkpoints = new
        /\ SI!Record(si, e, n).complete = si.complete
    BY <2>2 DEF SI!Indexes
  <2>5. Len(new) >= Len(old)
    BY <2>1
  <2> QED BY <2>3, <2>4, <2>5 DEF Grows
<1> QED BY <1>1, <1>2

LEMMA MarkedGrows ==
    ASSUME NEW si \in SI!Indexes
    PROVE  Grows(si, SI!MarkComplete(si))
<1>1. /\ SI!MarkComplete(si).checkpoints = si.checkpoints
      /\ SI!MarkComplete(si).complete = TRUE
  BY DEF SI!MarkComplete, SI!Indexes
<1> QED BY <1>1, UnchangedGrows DEF Grows

LEMMA GrowStep ==
    ASSUME TypeOK, CheckpointsInv, [Next]_vars
    PROVE  /\ indexed \subseteq indexed'
           /\ \A c \in Collections : Grows(skip[c], skip'[c])
<1> USE ElementTypes
<1> DEFINE Growing == /\ indexed \subseteq indexed'
                      /\ \A c \in Collections : Grows(skip[c], skip'[c])
           Apart(d, si) == /\ indexed \subseteq indexed'
                           /\ skip' = [skip EXCEPT ![d] = si]
<1>1. skip \in [Collections -> SI!Indexes]
  BY DEF TypeOK
<1>2. CASE UNCHANGED indexVars
  BY <1>1, <1>2, UnchangedGrows DEF indexVars
<1>3. ASSUME indexed \subseteq indexed', skip' = skip
      PROVE  Growing
  BY <1>1, <1>3, UnchangedGrows
<1>4. ASSUME NEW d \in Collections, NEW si, Apart(d, si), Grows(skip[d], si)
      PROVE  Growing
  <2>1. ASSUME NEW c \in Collections
        PROVE  skip'[c] = IF c = d THEN si ELSE skip[c]
    BY <1>1, <1>4
  <2> QED BY <1>1, <1>4, <2>1, UnchangedGrows
<1>5. ASSUME NEW t \in Threads, ApplyBatch(t)
      PROVE  Growing
  <2> DEFINE d == serving[t]
             rest == Head(messages[t]).checkpoints
  <2>1. CASE rest = << >>
    BY <1>3, <1>5, <2>1 DEF ApplyBatch
  <2>2. CASE rest # << >>
    <3>1. Apart(d, SI!Record(skip[d], Head(rest)[1], Head(rest)[2]))
      BY <1>1, <1>5, <2>2 DEF ApplyBatch
    <3>2. Head(rest)[2] \in Nodes
      BY <1>5, <2>2, FrontMessage, FrontCheckpoint DEF ApplyBatch
    <3>3. d \in Collections /\ skip[d] \in SI!Indexes
      BY <1>1
    <3> HIDE DEF d, rest
    <3> QED BY <1>4, <3>1, <3>2, <3>3, RecordGrows
  <2> QED BY <2>1, <2>2
<1>6. ASSUME NEW t \in Threads, ApplyComplete(t)
      PROVE  Growing
  <2>1. serving[t] \in Collections /\ skip[serving[t]] \in SI!Indexes
    BY <1>1
  <2>2. CASE serving[t] \in indexed
    <3>1. Apart(serving[t], SI!MarkComplete(skip[serving[t]]))
      BY <1>1, <1>6, <2>2 DEF ApplyComplete
    <3> QED BY <1>4, <2>1, <3>1, MarkedGrows
  <2>3. CASE serving[t] \notin indexed
    BY <1>3, <1>6, <2>3 DEF ApplyComplete
  <2> QED BY <2>2, <2>3
<1>7. ASSUME NEW t \in Threads, DrainWalker(t)
      PROVE  Growing
  BY <1>2, <1>5, <1>6, <1>7
  DEF DrainWalker, DrainTake, DrainRemove, DrainJoin, DrainApply, DrainDone
<1>8. ASSUME NEW p \in Pagers, Paging(p)
      PROVE  Growing
  <2>1. serving[p] \in Collections /\ skip[serving[p]] \in SI!Indexes
    BY <1>1
  <2>2. CASE ExtractNode(p)
    <3>1. CASE serving[p] \in indexed
      <4> DEFINE e == extract[p]
                 entry == e.base + Len(e.items)
      <4>1. Apart(serving[p], SI!Record(skip[serving[p]], entry, e.at))
        BY <1>1, <2>2, <3>1 DEF ExtractNode
      <4>2. e.at \in Nodes
        BY <2>2 DEF ExtractNode, WantsMore
      <4> HIDE DEF e, entry
      <4> QED BY <1>4, <2>1, <4>1, <4>2, RecordGrows
    <3>2. CASE serving[p] \notin indexed
      BY <1>3, <2>2, <3>2 DEF ExtractNode
    <3> QED BY <3>1, <3>2
  <2>3. CASE ExtractEnd(p)
    <3>1. CASE serving[p] \in indexed /\ Traversed(p)
      <4>1. Apart(serving[p], SI!MarkComplete(skip[serving[p]]))
        BY <1>1, <2>3, <3>1 DEF ExtractEnd
      <4> QED BY <1>4, <2>1, <4>1, MarkedGrows
    <3>2. CASE ~(serving[p] \in indexed /\ Traversed(p))
      BY <1>3, <2>3, <3>2 DEF ExtractEnd
    <3> QED BY <3>1, <3>2
  <2>4. CASE ExtractBegin(p) \/ Return(p)
    BY <1>3, <2>4 DEF ExtractBegin, Return, indexVars
  <2>5. CASE DrainWalker(p)
    BY <1>7, <2>5 DEF Threads
  <2> QED BY <1>8, <2>2, <2>3, <2>4, <2>5 DEF Paging
<1>9. CASE Events \/ TickStart \/ Ticking
  <2>1. CASE DrainWalker(UI)
    BY <1>7, <2>1 DEF Threads
  <2>2. CASE ~DrainWalker(UI)
    BY <1>2, <1>9, <2>2
    DEF Events, Ticking, SpawnLock, SpawnWalker, Cancel, CancelJoin,
        CancelWalker, TickStart, TickDrain, TickEnd, Quit, DropCancel,
        DropJoin, DropEnd
  <2> QED BY <2>1, <2>2
<1>10. CASE \E w \in Walkers : Walking(w) \/ WalkPanic(w)
  BY <1>2, <1>10
  DEF Walking, WalkNode, WalkFlush, WalkComplete, WalkExit, WalkPanic
<1>11. CASE \E p \in Pagers, c \in Collections, r \in Requests : GetPage(p, c, r)
  BY <1>2, <1>11 DEF GetPage
<1>12. CASE UNCHANGED vars
  BY <1>2, <1>12 DEF vars
<1> QED BY <1>8, <1>9, <1>10, <1>11, <1>12 DEF Next, Stopped

-----------------------------------------------------------------------------
(* The theorems.                                                           *)

LEMMA InvInit == Init => IInv
BY InitType, InitHandles, InitCheckpoints, InitExtract DEF IInv

LEMMA InvStep == IInv /\ [Next]_vars => IInv'
<1> SUFFICES ASSUME IInv, [Next]_vars PROVE IInv'
  OBVIOUS
<1>1. TypeOK' /\ HandlesInv' /\ CheckpointsInv' /\ PagesMatchChain'
  BY TypeStep, HandlesStep, CheckpointsStep, PagesStep DEF IInv
<1>2. ExtractInv'
  BY ExtractStep DEF IInv, ExtractInv
<1> QED BY <1>1, <1>2 DEF IInv

\* The inductive invariant: handles and live threads agree, every checkpoint
\* in a buffer, a channel, a drain or an index is sound, and a page in the
\* making holds the chain's nodes from its base on.
THEOREM Invariant == Spec => []IInv
BY InvInit, InvStep, PTL DEF Spec

\* No step of walkers, UI or page workers takes a variable out of its domain.
THEOREM TypeCorrect == Spec => []TypeOK
<1>1. IInv => TypeOK
  BY DEF IInv
<1> QED BY <1>1, Invariant, PTL

\* A page request never resumes from a wrong node: whatever the order in
\* which batches are applied, the i-th checkpoint is entry (i - 1) * interval.
THEOREM IndexSound == Spec => []SkipIndexSound
<1>1. IInv => SkipIndexSound
  BY DEF IInv, CheckpointsInv
<1> QED BY <1>1, Invariant, PTL

\* get_page returns what a walk from the head would, for every dump, interval,
\* page size, number of walkers and number of concurrent requests.
THEOREM PagesCorrect == Spec => []PagesMatchChain
<1>1. IInv => PagesMatchChain
  BY DEF IInv
<1> QED BY <1>1, Invariant, PTL

\* spawn_walker's dedup by the handle map is enough: two threads never walk
\* the same collection, through removals, joins and re-spawns.
THEOREM OneWalker == Spec => []OneWalkerPerCollection
<1>1. IInv => OneWalkerPerCollection
  <2> SUFFICES ASSUME IInv, NEW v \in Walkers, NEW w \in Walkers,
                      Live(v), Live(w), walk[v].collection = walk[w].collection
               PROVE  v = w
    BY DEF OneWalkerPerCollection
  <2> DEFINE c == walk[v].collection
  <2>0. c \in Collections /\ NoWalker \notin Walkers
    BY ElementTypes, ThreadsAssumption DEF IInv, WalkType
  <2>1. \/ walkers[c] = v
        \/ \E t \in Threads : joining[t] = v /\ walkersLock = t /\ walkers[c] = NoWalker
    BY <2>0 DEF IInv, HandlesInv
  <2>2. \/ walkers[c] = w
        \/ \E t \in Threads : joining[t] = w /\ walkersLock = t /\ walkers[c] = NoWalker
    BY <2>0 DEF IInv, HandlesInv
  <2> QED BY <2>0, <2>1, <2>2
<1> QED BY <1>1, Invariant, PTL

\* Skip-indexes are add-only under every interleaving of drains and pages, so
\* what a page request reads between its drain and its walk can only improve.
THEOREM IndexGrows == Spec => IndexOnlyGrows
<1>1. IInv /\ [Next]_vars =>
        [/\ indexed \subseteq indexed'
         /\ \A c \in Collections : Grows(skip[c], skip'[c])]_indexVars
  BY GrowStep DEF IInv
<1> QED BY <1>1, Invariant, PTL DEF Spec, IndexOnlyGrows

-----------------------------------------------------------------------------
(* The cap on walker threads, for every cap and number of collections.    *)

Alive      == {w \in Walkers : Live(w)}
Registered == {c \in Collections : walkers[c] # NoWalker}

\* The bound, with what Cardinality needs to be one.
CapInv == IsFiniteSet(Alive) /\ Cardinality(Alive) <= MaxWalkers

LEMMA InitCap == Init => CapInv
<1> SUFFICES ASSUME Init PROVE CapInv
  OBVIOUS
<1>1. Alive = {}
  BY DEF Init, Alive, Live, Idle
<1> QED BY <1>1, FS_EmptySet, IntervalsAssumption DEF CapInv

\* A step that lets no new thread run keeps the bound.
LEMMA NoneStarted ==
    ASSUME CapInv, \A w \in Walkers : Live(w)' => Live(w)
    PROVE  CapInv'
<1>1. Alive' \subseteq Alive
  BY DEF Alive
<1>2. IsFiniteSet(Alive') /\ Cardinality(Alive') <= Cardinality(Alive)
  BY <1>1, FS_Subset DEF CapInv
<1>3. Cardinality(Alive) \in Nat /\ Cardinality(Alive') \in Nat
  BY <1>2, FS_CardinalityType DEF CapInv
<1> QED BY <1>2, <1>3, IntervalsAssumption DEF CapInv

\* While nobody joins, handles count threads: each live thread is registered
\* for the collection it walks.
LEMMA HandlesCount ==
    ASSUME TypeOK, HandlesInv, CapInv, \A t \in Threads : joining[t] = NoWalker
    PROVE  IsFiniteSet(Registered) /\ Cardinality(Alive) <= Cardinality(Registered)
<1> DEFINE collectionOf == [w \in Alive |-> walk[w].collection]
           handleOf     == [c \in Registered |-> walkers[c]]
<1>1. /\ walkers \in [Collections -> Walkers \union {NoWalker}]
      /\ \A w \in Walkers : walk[w].collection \in Collections
  BY ElementTypes DEF TypeOK, WalkType
<1>2. handleOf \in Injection(Registered, Alive)
  <2>1. handleOf \in [Registered -> Alive]
    BY <1>1 DEF HandlesInv, Registered, Alive
  <2>2. \A c, d \in Registered : walkers[c] = walkers[d] => c = d
    BY DEF HandlesInv, Registered
  <2> QED BY <2>1, <2>2 DEF Injection, IsInjective
<1>3. IsFiniteSet(Registered)
  BY <1>2, FS_Injection DEF CapInv
<1>4. \A w \in Alive : walkers[walk[w].collection] = w /\ walk[w].collection \in Registered
  BY <1>1, ThreadsAssumption DEF HandlesInv, Alive, Registered
<1>5. collectionOf \in Injection(Alive, Registered)
  <2>1. collectionOf \in [Alive -> Registered]
    BY <1>4
  <2>2. \A v, w \in Alive : walk[v].collection = walk[w].collection => v = w
    BY <1>4
  <2> QED BY <2>1, <2>2 DEF Injection, IsInjective
<1> QED BY <1>3, <1>5, FS_Injection

\* The one thread that a spawn lets run fits under the cap.
LEMMA SpawnKeepsCap ==
    ASSUME TypeOK, HandlesInv, CapInv, SpawnWalker
    PROVE  CapInv'
<1>1. /\ walkersLock = UI /\ joining[UI] = NoWalker
      /\ walk \in [Walkers -> WalkType]
  BY DEF SpawnWalker, HandlesInv, TypeOK
<1>2. \A t \in Threads : joining[t] = NoWalker
  BY <1>1, NobodyJoins
<1>3. CASE UNCHANGED walk
  BY <1>3, NoneStarted DEF Live
<1>4. CASE ~UNCHANGED walk
  <2>1. /\ ~(HandleCount >= MaxWalkers)
        /\ \E w \in Walkers : \E r : walk' = [walk EXCEPT ![w] = r]
    BY <1>4 DEF SpawnWalker, walkVars
  <2>2. PICK w \in Walkers : \E r : walk' = [walk EXCEPT ![w] = r]
    BY <2>1
  <2>3. \A v \in Walkers : v # w => walk'[v] = walk[v]
    BY <1>1, <2>2
  <2>4. Alive' \subseteq Alive \union {w}
    BY <2>3 DEF Alive, Live
  <2>5. /\ IsFiniteSet(Alive \union {w})
        /\ Cardinality(Alive \union {w}) <= Cardinality(Alive) + 1
    <3>1. Cardinality(Alive) \in Nat
      BY FS_CardinalityType DEF CapInv
    <3>2. /\ IsFiniteSet(Alive \union {w})
          /\ Cardinality(Alive \union {w}) =
                IF w \in Alive THEN Cardinality(Alive) ELSE Cardinality(Alive) + 1
      BY FS_AddElement, Zenon DEF CapInv
    <3> QED BY <3>1, <3>2
  <2>6. /\ IsFiniteSet(Alive')
        /\ Cardinality(Alive') <= Cardinality(Alive \union {w})
    BY <2>4, <2>5, FS_Subset
  <2>7. /\ IsFiniteSet(Registered)
        /\ Cardinality(Alive) <= Cardinality(Registered)
    BY <1>2, HandlesCount
  <2>8. Cardinality(Registered) < MaxWalkers
    <3>1. HandleCount = Cardinality(Registered)
      BY DEF HandleCount, Registered
    <3>2. Cardinality(Registered) \in Nat
      BY <2>7, FS_CardinalityType
    <3> QED BY <2>1, <3>1, <3>2, IntervalsAssumption
  <2>9. /\ Cardinality(Alive) \in Nat /\ Cardinality(Alive') \in Nat
        /\ Cardinality(Alive \union {w}) \in Nat /\ Cardinality(Registered) \in Nat
    BY <2>5, <2>6, <2>7, FS_CardinalityType DEF CapInv
  <2>10. Cardinality(Alive') <= MaxWalkers
    BY <2>5, <2>6, <2>7, <2>8, <2>9, IntervalsAssumption
  <2> QED BY <2>6, <2>10 DEF CapInv
<1> QED BY <1>3, <1>4

\* A join lets its walker's place go and starts none.
LEMMA JoinStartsNone ==
    ASSUME TypeOK, NEW t \in Threads, Joined(t)
    PROVE  \A w \in Walkers : Live(w)' => Live(w)
BY DEF TypeOK, Joined, Live, Idle

LEMMA WalkerStartsNone ==
    ASSUME TypeOK, NEW w \in Walkers, Walking(w) \/ WalkPanic(w)
    PROVE  \A v \in Walkers : Live(v)' => Live(v)
<1>1. walk[w].state # "free"
  BY DEF Walking, WalkNode, WalkFlush, WalkComplete, WalkExit, WalkPanic
<1>2. walk \in [Walkers -> WalkType]
  BY DEF TypeOK
<1>3. \A v \in Walkers : v # w => walk'[v] = walk[v]
  BY <1>2 DEF Walking, WalkNode, WalkFlush, WalkComplete, WalkExit, WalkPanic
<1> QED BY <1>1, <1>3 DEF Live

LEMMA DrainStartsNone ==
    ASSUME TypeOK, NEW t \in Threads, DrainWalker(t)
    PROVE  \A w \in Walkers : Live(w)' => Live(w)
<1>1. CASE DrainJoin(t)
  BY <1>1, JoinStartsNone DEF DrainJoin
<1>2. CASE ~DrainJoin(t)
  <2>1. UNCHANGED walk
    BY <1>2 DEF DrainWalker, DrainTake, DrainRemove, DrainApply, ApplyBatch,
                ApplyComplete, DrainDone, walkVars
  <2> QED BY <2>1 DEF Live
<1> QED BY <1>1, <1>2

LEMMA UIStartsNone ==
    ASSUME TypeOK, HandlesInv,
           Events \/ TickStart \/ (Ticking /\ ~DrainWalker(UI) /\ ~SpawnWalker)
    PROVE  \A w \in Walkers : Live(w)' => Live(w)
<1>1. UI \in Threads
  BY DEF Threads
<1>2. CASE CancelJoin \/ DropJoin
  BY <1>1, <1>2, JoinStartsNone DEF CancelJoin, DropJoin
<1>3. CASE \E c \in Collections : Cancel(c) \/ DropCancel(c)
  <2>1. PICK c \in Collections : walkers[c] # NoWalker
                                 /\ walk' = [walk EXCEPT ![walkers[c]].cancel = TRUE]
    BY <1>3 DEF Cancel, DropCancel, CancelWalker
  <2>2. walk \in [Walkers -> WalkType] /\ walkers[c] \in Walkers
    BY <2>1 DEF TypeOK
  <2>3. \A w \in Walkers : walk'[w].state = walk[w].state
    BY <2>1, <2>2 DEF WalkType
  <2> QED BY <2>3 DEF Live
<1>4. CASE \/ \E c \in Collections : SpawnLock(c) \/ TickDrain(c)
           \/ Quit \/ TickStart \/ TickEnd \/ DropEnd
  BY <1>4 DEF SpawnLock, TickDrain, Quit, TickStart, TickEnd, DropEnd, walkVars, Live
<1> QED BY <1>2, <1>3, <1>4 DEF Events, Ticking

LEMMA CapStep == IInv /\ CapInv /\ [Next]_vars => CapInv'
<1> SUFFICES ASSUME IInv, CapInv, [Next]_vars PROVE CapInv'
  OBVIOUS
<1>0. TypeOK /\ HandlesInv
  BY DEF IInv
<1>1. ASSUME NEW t \in Threads, DrainWalker(t)
      PROVE  CapInv'
  BY <1>0, <1>1, DrainStartsNone, NoneStarted
<1>2. ASSUME NEW w \in Walkers, Walking(w) \/ WalkPanic(w)
      PROVE  CapInv'
  BY <1>0, <1>2, WalkerStartsNone, NoneStarted
<1>3. CASE Events \/ TickStart \/ Ticking
  <2>1. CASE DrainWalker(UI)
    BY <1>1, <2>1 DEF Threads
  <2>2. CASE SpawnWalker
    BY <1>0, <2>2, SpawnKeepsCap
  <2>3. CASE ~DrainWalker(UI) /\ ~SpawnWalker
    BY <1>0, <1>3, <2>3, UIStartsNone, NoneStarted
  <2> QED BY <2>1, <2>2, <2>3
<1>4. ASSUME NEW p \in Pagers,
             \/ Paging(p)
             \/ \E c \in Collections, r \in Requests : GetPage(p, c, r)
      PROVE  CapInv'
  <2>1. CASE DrainWalker(p)
    BY <1>1, <2>1 DEF Threads
  <2>2. CASE ~DrainWalker(p)
    <3>1. UNCHANGED walk
      BY <1>4, <2>2 DEF Paging, ExtractBegin, ExtractNode, ExtractEnd, Return,
                        GetPage, walkVars
    <3> QED BY <3>1, NoneStarted DEF Live
  <2> QED BY <2>1, <2>2
<1>5. CASE UNCHANGED vars
  BY <1>5, NoneStarted DEF vars, walkVars, Live
<1> QED BY <1>2, <1>3, <1>4, <1>5 DEF Next, Stopped

\* MAX_WALKERS bounds the threads that run, and not only the handles, for every
\* cap and dump: the handles are counted under the lock that a thread is joined
\* under, so that every thread that still runs has a handle then.
THEOREM WalkersCapped == Spec => []RunningWalkersBounded
<1>1. CapInv => RunningWalkersBounded
  BY DEF CapInv, RunningWalkersBounded, Alive
<1>2. Spec => []CapInv
  BY InitCap, CapStep, Invariant, PTL DEF Spec
<1> QED BY <1>1, <1>2, PTL

-----------------------------------------------------------------------------
(* What a complete index covers, and which walkers are reaped, for any page  *)
(* workers beside the UI: under TakenApart and HandleKept, two conditions on *)
(* how drains meet.  The code does not ensure them, and without them both    *)
(* are false: two threads may apply what they took in either order           *)
(* (MCWalkerCovered), or one may reap what the other found at its end.       *)

\* The entries of checkpoints, and of the batches of some messages.
Entries(cps) == {cps[i][1] : i \in 1..Len(cps)}
BatchAt(ms, k) == k \in 1..Len(ms) /\ ms[k].type = "Batch"
EntriesIn(ms) == {e \in Nat : \E k \in 1..Len(ms) :
                    BatchAt(ms, k) /\ e \in Entries(ms[k].checkpoints)}

Below(A, B) == \A d \in A, e \in B : d < e
Increasing(cps) == \A i, j \in 1..Len(cps) : i < j => cps[i][1] < cps[j][1]

\* Entries grow through the messages, and Complete can only be the last.
Ascending(ms) ==
    /\ \A k \in 1..Len(ms) : BatchAt(ms, k) => Increasing(ms[k].checkpoints)
    /\ \A k, l \in 1..Len(ms) : k < l =>
          /\ BatchAt(ms, k)
          /\ BatchAt(ms, l) =>
               Below(Entries(ms[k].checkpoints), Entries(ms[l].checkpoints))

-----------------------------------------------------------------------------
(* Sequences of checkpoints and messages.                                  *)

LEMMA EntriesType ==
    ASSUME NEW cps \in Checkpoints
    PROVE  Entries(cps) \subseteq Nat
BY DEF Checkpoints, Entries

LEMMA MessageKinds ==
    ASSUME NEW m \in Messages
    PROVE  /\ m = Complete <=> m.type # "Batch"
           /\ m.type = "Batch" => /\ m.checkpoints \in Checkpoints
                                  /\ m = Batch(m.checkpoints)
BY DEF Messages, Complete, Batch

LEMMA NoEntries ==
    /\ Entries(<< >>) = {} /\ EntriesIn(<< >>) = {}
    /\ Increasing(<< >>) /\ Ascending(<< >>) /\ ~HasComplete(<< >>)
BY DEF Entries, EntriesIn, Increasing, Ascending, HasComplete

LEMMA CheckpointAdded ==
    ASSUME NEW cps \in Checkpoints, NEW e \in Nat, NEW n \in Nodes,
           Increasing(cps), Below(Entries(cps), {e})
    PROVE  /\ Increasing(Append(cps, <<e, n>>))
           /\ Entries(Append(cps, <<e, n>>)) = Entries(cps) \union {e}
<1> DEFINE new == Append(cps, <<e, n>>)
<1>1. /\ Len(cps) \in Nat /\ Len(new) = Len(cps) + 1
      /\ \A i \in 1..Len(cps) : new[i] = cps[i]
      /\ new[Len(cps) + 1] = <<e, n>>
  BY DEF Checkpoints
<1> HIDE DEF new
<1>2. \A i \in 1..Len(cps) : cps[i][1] \in Nat /\ cps[i][1] < e
  BY EntriesType DEF Entries, Below
<1>3. Increasing(new)
  <2> SUFFICES ASSUME NEW i \in 1..Len(new), NEW j \in 1..Len(new), i < j
               PROVE  new[i][1] < new[j][1]
    BY DEF Increasing
  <2>1. i \in 1..Len(cps) /\ <<e, n>>[1] = e
    BY <1>1
  <2>2. CASE j \in 1..Len(cps)
    BY <1>1, <2>1, <2>2 DEF Increasing
  <2>3. CASE j = Len(cps) + 1
    BY <1>1, <1>2, <2>1, <2>3
  <2> QED BY <1>1, <2>2, <2>3
<1>4. Entries(new) = Entries(cps) \union {e}
  <2>1. 1..Len(new) = 1..Len(cps) \union {Len(cps) + 1} /\ <<e, n>>[1] = e
    BY <1>1
  <2> QED BY <1>1, <2>1 DEF Entries
<1> QED BY <1>3, <1>4 DEF new

LEMMA AddedMessage ==
    ASSUME NEW ms \in Seq(Messages), NEW m \in Messages
    PROVE  LET new == Append(ms, m)
           IN  /\ new \in Seq(Messages)
               /\ Len(ms) \in Nat /\ Len(new) = Len(ms) + 1
               /\ \A k \in 1..Len(ms) : new[k] = ms[k] /\ ms[k] \in Messages
               /\ new[Len(ms) + 1] = m
OBVIOUS

LEMMA BatchAdded ==
    ASSUME NEW ms \in Seq(Messages), NEW cps \in Checkpoints,
           Ascending(ms), ~HasComplete(ms), Increasing(cps),
           Below(EntriesIn(ms), Entries(cps))
    PROVE  LET new == Append(ms, Batch(cps))
           IN  /\ Ascending(new) /\ ~HasComplete(new)
               /\ EntriesIn(new) = EntriesIn(ms) \union Entries(cps)
<1> DEFINE new == Append(ms, Batch(cps))
           last == Len(ms) + 1
<1>1. /\ Len(ms) \in Nat /\ Len(new) = last
      /\ \A k \in 1..Len(ms) : new[k] = ms[k] /\ ms[k] \in Messages
      /\ new[last] = Batch(cps)
  BY AddedMessage, MessageTypes
<1> HIDE DEF new
<1>2. new[last].type = "Batch" /\ new[last].checkpoints = cps /\ new[last] # Complete
  BY <1>1 DEF Batch, Complete
<1>3. \A k \in 1..Len(ms) : BatchAt(ms, k) /\ BatchAt(new, k)
  BY <1>1, MessageKinds DEF HasComplete, BatchAt
<1>4. \A k \in 1..Len(ms) : Below(Entries(ms[k].checkpoints), Entries(cps))
  BY <1>1, <1>3, EntriesType, MessageKinds DEF EntriesIn, Below, BatchAt
<1>5. Ascending(new)
  <2>1. \A k \in 1..last : Increasing(new[k].checkpoints)
    BY <1>1, <1>2, <1>3 DEF Ascending
  <2>2. ASSUME NEW k \in 1..last, NEW l \in 1..last, k < l
        PROVE  /\ BatchAt(new, k)
               /\ Below(Entries(new[k].checkpoints), Entries(new[l].checkpoints))
    <3>1. k \in 1..Len(ms)
      BY <1>1, <2>2
    <3>2. CASE l = last
      BY <1>1, <1>2, <1>3, <1>4, <3>1, <3>2
    <3>3. CASE l \in 1..Len(ms)
      BY <1>1, <1>3, <2>2, <3>1, <3>3 DEF Ascending
    <3> QED BY <1>1, <3>2, <3>3
  <2> QED BY <1>1, <2>1, <2>2 DEF Ascending
<1>6. ~HasComplete(new)
  BY <1>1, <1>2 DEF HasComplete
<1>7. EntriesIn(new) = EntriesIn(ms) \union Entries(cps)
  <2>1. Entries(cps) \subseteq Nat /\ BatchAt(new, last) /\ last \in 1..Len(new)
    BY <1>1, <1>2, EntriesType DEF BatchAt
  <2>2. EntriesIn(new) \subseteq EntriesIn(ms) \union Entries(cps)
    BY <1>1, <1>2, <1>3 DEF EntriesIn
  <2>3. EntriesIn(ms) \subseteq EntriesIn(new)
    BY <1>1, <1>3 DEF EntriesIn
  <2>4. Entries(cps) \subseteq EntriesIn(new)
    BY <1>2, <2>1 DEF EntriesIn
  <2> QED BY <2>2, <2>3, <2>4
<1> QED BY <1>5, <1>6, <1>7 DEF new

LEMMA CompleteAdded ==
    ASSUME NEW ms \in Seq(Messages), Ascending(ms), ~HasComplete(ms)
    PROVE  LET new == Append(ms, Complete)
           IN  /\ Ascending(new) /\ HasComplete(new)
               /\ EntriesIn(new) = EntriesIn(ms)
<1> DEFINE new == Append(ms, Complete)
           last == Len(ms) + 1
<1>1. /\ Len(ms) \in Nat /\ Len(new) = last
      /\ \A k \in 1..Len(ms) : new[k] = ms[k] /\ ms[k] \in Messages
      /\ new[last] = Complete
  BY AddedMessage, MessageTypes
<1> HIDE DEF new
<1>2. ~BatchAt(new, last)
  BY <1>1 DEF BatchAt, Complete
<1>3. \A k \in 1..Len(ms) : BatchAt(ms, k) /\ BatchAt(new, k)
  BY <1>1, MessageKinds DEF HasComplete, BatchAt
<1>4. Ascending(new)
  BY <1>1, <1>2, <1>3 DEF Ascending
<1>5. HasComplete(new)
  BY <1>1 DEF HasComplete
<1>6. EntriesIn(new) = EntriesIn(ms)
  BY <1>1, <1>2, <1>3 DEF EntriesIn
<1> QED BY <1>4, <1>5, <1>6 DEF new

LEMMA Rest ==
    ASSUME NEW ms \in Seq(Messages), ms # << >>
    PROVE  LET rest == Tail(ms)
           IN  /\ rest \in Seq(Messages) /\ Head(ms) = ms[1] /\ ms[1] \in Messages
               /\ Len(rest) \in Nat /\ Len(ms) = Len(rest) + 1
               /\ \A k \in 1..Len(rest) : rest[k] = ms[k + 1] /\ ms[k + 1] \in Messages
OBVIOUS

\* The batch in front is used up.
LEMMA BatchOver ==
    ASSUME NEW ms \in Seq(Messages), Ascending(ms), ms # << >>,
           Head(ms).type = "Batch", Head(ms).checkpoints = << >>
    PROVE  /\ Ascending(Tail(ms))
           /\ HasComplete(Tail(ms)) <=> HasComplete(ms)
           /\ EntriesIn(Tail(ms)) = EntriesIn(ms)
<1> DEFINE rest == Tail(ms)
<1>1. /\ rest \in Seq(Messages) /\ Head(ms) = ms[1] /\ ms[1] \in Messages
      /\ Len(rest) \in Nat /\ Len(ms) = Len(rest) + 1
      /\ \A k \in 1..Len(rest) : rest[k] = ms[k + 1] /\ ms[k + 1] \in Messages
  BY Rest
<1> HIDE DEF rest
<1>2. \A k \in 1..Len(ms) : k = 1 \/ \E j \in 1..Len(rest) : k = j + 1
  <2> SUFFICES ASSUME NEW k \in 1..Len(ms), k # 1
               PROVE  \E j \in 1..Len(rest) : k = j + 1
    OBVIOUS
  <2>1. k - 1 \in 1..Len(rest) /\ k = (k - 1) + 1
    BY <1>1
  <2> QED BY <2>1
<1>3. \A k \in 1..Len(rest) : BatchAt(rest, k) <=> BatchAt(ms, k + 1)
  BY <1>1 DEF BatchAt
<1>4. Ascending(rest)
  <2>1. \A k \in 1..Len(rest) : k + 1 \in 1..Len(ms)
    BY <1>1
  <2>2. \A k, l \in 1..Len(rest) : k < l => k + 1 < l + 1
    BY <1>1
  <2>3. \A k \in 1..Len(rest) : BatchAt(rest, k) => Increasing(rest[k].checkpoints)
    BY <1>1, <1>3, <2>1 DEF Ascending
  <2>4. \A k, l \in 1..Len(rest) : k < l =>
          /\ BatchAt(rest, k)
          /\ BatchAt(rest, l) =>
               Below(Entries(rest[k].checkpoints), Entries(rest[l].checkpoints))
    BY <1>1, <1>3, <2>1, <2>2 DEF Ascending
  <2> QED BY <2>3, <2>4 DEF Ascending
<1>5. HasComplete(rest) <=> HasComplete(ms)
  <2>1. ms[1] # Complete
    BY <1>1, MessageKinds
  <2>2. \A k \in 1..Len(rest) : k + 1 \in 1..Len(ms) /\ rest[k] = ms[k + 1]
    BY <1>1
  <2> QED BY <1>2, <2>1, <2>2 DEF HasComplete
<1>6. EntriesIn(rest) = EntriesIn(ms)
  <2>1. EntriesIn(rest) \subseteq EntriesIn(ms)
    BY SMTT(30), <1>1, <1>3 DEF EntriesIn
  <2>2. Entries(ms[1].checkpoints) = {}
    BY <1>1, NoEntries
  <2>3. EntriesIn(ms) \subseteq EntriesIn(rest)
    BY <1>1, <1>2, <1>3, <2>2 DEF EntriesIn
  <2> QED BY <2>1, <2>3
<1> QED BY <1>4, <1>5, <1>6 DEF rest

\* Complete is in front: nothing is behind it.
LEMMA CompleteFront ==
    ASSUME NEW ms \in Seq(Messages), Ascending(ms), ms # << >>,
           Head(ms).type # "Batch"
    PROVE  HasComplete(ms) /\ Tail(ms) = << >> /\ EntriesIn(ms) = {}
<1>1. /\ Head(ms) = ms[1] /\ ms[1] \in Messages /\ Len(ms) \in Nat /\ Len(ms) >= 1
  BY Rest
<1>2. ms[1] = Complete /\ ~BatchAt(ms, 1)
  BY <1>1, MessageKinds DEF BatchAt
<1>3. Len(ms) = 1
  <2>1. 1 \in 1..Len(ms) /\ Len(ms) \in 1..Len(ms)
    BY <1>1
  <2>2. ~(1 < Len(ms))
    BY <1>2, <2>1 DEF Ascending
  <2>3. \A n \in Nat : n >= 1 /\ ~(1 < n) => n = 1
    OBVIOUS
  <2> QED BY <1>1, <2>2, <2>3
<1>4. Tail(ms) = << >>
  <2> DEFINE rest == Tail(ms)
  <2>1. rest \in Seq(Messages) /\ Len(rest) = 0
    BY <1>3, Rest
  <2> HIDE DEF rest
  <2>2. rest = << >>
    BY <2>1, EmptySeq
  <2> QED BY <2>2 DEF rest
<1> QED BY <1>2, <1>3, <1>4 DEF HasComplete, EntriesIn

LEMMA CheckpointTaken ==
    ASSUME NEW cps \in Checkpoints, cps # << >>, Increasing(cps)
    PROVE  /\ Head(cps)[1] \in Nat
           /\ Increasing(Tail(cps))
           /\ Below({Head(cps)[1]}, Entries(Tail(cps)))
           /\ Entries(cps) = Entries(Tail(cps)) \union {Head(cps)[1]}
<1> DEFINE rest == Tail(cps)
           e    == Head(cps)[1]
<1>1. /\ rest \in Checkpoints /\ e \in Nat /\ e = cps[1][1]
      /\ Len(rest) \in Nat /\ Len(cps) = Len(rest) + 1
      /\ \A i \in 1..Len(rest) : rest[i] = cps[i + 1] /\ i + 1 \in 1..Len(cps)
  BY FrontCheckpoint DEF Checkpoints
<1> HIDE DEF rest, e
<1>2. \A i \in 1..Len(cps) : i = 1 \/ \E j \in 1..Len(rest) : i = j + 1
  <2> SUFFICES ASSUME NEW i \in 1..Len(cps), i # 1
               PROVE  \E j \in 1..Len(rest) : i = j + 1
    OBVIOUS
  <2>1. i - 1 \in 1..Len(rest) /\ i = (i - 1) + 1
    BY <1>1
  <2> QED BY <2>1
<1>3. 1 \in 1..Len(cps)
  BY <1>1
<1>4. Increasing(rest)
  <2>1. \A i, j \in 1..Len(rest) : i < j => i + 1 < j + 1
    BY <1>1
  <2> QED BY <1>1, <2>1 DEF Increasing
<1>5. Below({e}, Entries(rest))
  <2>1. \A i \in 1..Len(rest) : 1 < i + 1
    BY <1>1
  <2> QED BY <1>1, <1>3, <2>1 DEF Increasing, Below, Entries
<1>6. Entries(cps) = Entries(rest) \union {e}
  BY SMTT(30), <1>1, <1>2, <1>3 DEF Entries
<1> QED BY <1>1, <1>4, <1>5, <1>6 DEF rest, e

\* The first checkpoint of the batch in front is taken, the others put back.
LEMMA BatchPutBack ==
    ASSUME NEW ms \in Seq(Messages), Ascending(ms), ms # << >>,
           Head(ms).type = "Batch", Head(ms).checkpoints # << >>
    PROVE  LET cps == Head(ms).checkpoints
               new == <<Batch(Tail(cps))>> \o Tail(ms)
               e   == Head(cps)[1]
           IN  /\ e \in Nat
               /\ Ascending(new)
               /\ HasComplete(new) <=> HasComplete(ms)
               /\ Below({e}, EntriesIn(new))
               /\ EntriesIn(ms) = EntriesIn(new) \union {e}
<1> DEFINE cps  == Head(ms).checkpoints
           left == Tail(cps)
           new  == <<Batch(left)>> \o Tail(ms)
           e    == Head(cps)[1]
<1>1. /\ Head(ms) = ms[1] /\ ms[1] \in Messages
      /\ Len(ms) \in Nat /\ 1 \in 1..Len(ms)
  BY Rest
<1>2. cps \in Checkpoints /\ left \in Checkpoints /\ cps = ms[1].checkpoints
  BY <1>1, MessageKinds, FrontCheckpoint
<1>3. BatchAt(ms, 1) /\ Increasing(cps)
  BY <1>1 DEF BatchAt, Ascending
<1>4. /\ e \in Nat
      /\ Increasing(left)
      /\ Below({e}, Entries(left))
      /\ Entries(cps) = Entries(left) \union {e}
  BY <1>2, <1>3, CheckpointTaken
<1>5. /\ Len(new) = Len(ms) /\ new[1] = Batch(left)
      /\ \A k \in 1..Len(ms) : k # 1 => new[k] = ms[k] /\ ms[k] \in Messages
  <2>1. /\ Tail(ms) \in Seq(Messages) /\ Len(Tail(ms)) = Len(ms) - 1
        /\ \A k \in 1..Len(Tail(ms)) : Tail(ms)[k] = ms[k + 1]
    BY Rest
  <2>2. Batch(left) \in Messages
    BY <1>2, MessageTypes
  <2>3. Len(<<Batch(left)>>) = 1 /\ <<Batch(left)>>[1] = Batch(left)
    OBVIOUS
  <2> QED BY <1>1, <2>1, <2>2, <2>3
<1>6. /\ BatchAt(new, 1) /\ new[1].checkpoints = left
      /\ new[1] # Complete /\ ms[1] # Complete
  BY <1>1, <1>5, MessageKinds DEF BatchAt, Batch, Complete
<1> HIDE DEF new, left, e
<1>7. \A k \in 1..Len(ms) : BatchAt(new, k) <=> BatchAt(ms, k)
  BY <1>3, <1>5, <1>6 DEF BatchAt
<1>8. HasComplete(new) <=> HasComplete(ms)
  BY <1>1, <1>5, <1>6 DEF HasComplete
<1>9. ASSUME NEW l \in 1..Len(ms), l # 1, BatchAt(ms, l)
      PROVE  Below(Entries(cps), Entries(ms[l].checkpoints))
  <2>1. 1 < l
    BY <1>1, <1>9
  <2> QED BY <1>1, <1>2, <1>9, <2>1 DEF Ascending
<1>10. Ascending(new)
  <2>1. \A k \in 1..Len(new) : BatchAt(new, k) => Increasing(new[k].checkpoints)
    BY <1>4, <1>5, <1>6, <1>7 DEF Ascending
  <2>2. ASSUME NEW k \in 1..Len(new), NEW l \in 1..Len(new), k < l
        PROVE  /\ BatchAt(new, k)
               /\ BatchAt(new, l) =>
                    Below(Entries(new[k].checkpoints), Entries(new[l].checkpoints))
    <3>1. l # 1
      BY <1>1, <1>5, <2>2
    <3>2. BatchAt(new, k)
      BY <1>5, <1>7, <2>2 DEF Ascending
    <3>3. CASE k = 1
      BY <1>4, <1>5, <1>6, <1>7, <1>9, <3>1, <3>2, <3>3 DEF Below
    <3>4. CASE k # 1
      BY <1>5, <1>7, <2>2, <3>1, <3>2, <3>4 DEF Ascending
    <3> QED BY <3>3, <3>4
  <2> QED BY <2>1, <2>2 DEF Ascending
<1>11. EntriesIn(ms) = EntriesIn(new) \union {e}
  <2>1. EntriesIn(ms) \subseteq EntriesIn(new) \union {e}
    BY <1>1, <1>2, <1>4, <1>5, <1>6, <1>7 DEF EntriesIn
  <2>2. EntriesIn(new) \subseteq EntriesIn(ms)
    BY <1>1, <1>2, <1>4, <1>5, <1>6, <1>7 DEF EntriesIn
  <2>3. e \in EntriesIn(ms)
    BY <1>1, <1>2, <1>3, <1>4 DEF EntriesIn
  <2> QED BY <2>1, <2>2, <2>3
<1>12. Below({e}, EntriesIn(new))
  <2> SUFFICES ASSUME NEW d \in EntriesIn(new) PROVE e < d
    BY DEF Below
  <2>1. PICK k \in 1..Len(new) : BatchAt(new, k) /\ d \in Entries(new[k].checkpoints)
    BY DEF EntriesIn
  <2>2. CASE k = 1
    BY <1>4, <1>6, <2>1, <2>2 DEF Below
  <2>3. CASE k # 1
    BY <1>4, <1>5, <1>7, <1>9, <2>1, <2>3 DEF Below
  <2> QED BY <2>2, <2>3
<1> QED BY <1>4, <1>8, <1>10, <1>11, <1>12 DEF new, left, e

-----------------------------------------------------------------------------
(* What a Complete says.                                                   *)

\* A walk that is over is cancelled or at the end of its chain, and only in the
\* second case is a Complete on its way.
Announced(w) ==
    /\ HasComplete(channel[w]) =>
          walk[w].state \in {"returning", "exited"} /\ walk[w].at = End
    /\ walk[w].state \in {"flushed", "returning", "exited"} =>
          walk[w].cancel \/ walk[w].at = End

\* A handle still registered has not been cancelled.
NotCancelled ==
    \A c \in Collections : walkers[c] # NoWalker => ~walk[walkers[c]].cancel

\* A drain joins a walker of its collection.
JoinsOwn ==
    \A t \in Threads : pc[t] = "join" => walk[joining[t]].collection = serving[t]

AnnounceInv == NotCancelled /\ JoinsOwn /\ \A w \in Walkers : Announced(w)

LEMMA InitAnnounce == Init => AnnounceInv
BY NoEntries, ThreadsAssumption
   DEF Init, AnnounceInv, NotCancelled, JoinsOwn, Announced, Idle, Threads

LEMMA AnnouncedFrame ==
    ASSUME NEW w \in Walkers, Announced(w),
           walk'[w] = walk[w], channel'[w] = channel[w]
    PROVE  Announced(w)'
BY DEF Announced

\* Steps between two drains, and those that apply what was taken.
LEMMA QuietAnnounce ==
    ASSUME AnnounceInv, UNCHANGED <<walkers, walk, channel>>,
           \A t \in Threads : pc'[t] = "join" =>
              pc[t] = "join" /\ joining'[t] = joining[t] /\ serving'[t] = serving[t]
    PROVE  AnnounceInv'
<1>1. ASSUME NEW w \in Walkers PROVE Announced(w)'
  BY AnnouncedFrame DEF AnnounceInv
<1>2. NotCancelled' /\ JoinsOwn'
  BY DEF AnnounceInv, NotCancelled, JoinsOwn
<1> QED BY <1>1, <1>2 DEF AnnounceInv

\* What a walker's step changes, whichever it is.
LEMMA WalkerStepFacts ==
    ASSUME TypeOK, NEW w \in Walkers, Walking(w) \/ WalkPanic(w)
    PROVE  /\ UNCHANGED <<walkers, indexVars, pc, serving, messages, joining>>
           /\ walk' \in [Walkers -> WalkType]
           /\ \A v \in Walkers : v # w => /\ walk'[v] = walk[v]
                                          /\ channel'[v] = channel[v]
           /\ walk[w].state \in {"walking", "flushed", "returning"}
           /\ walk'[w].state # "free"
           /\ walk'[w].collection = walk[w].collection
           /\ walk'[w].cancel = walk[w].cancel
<1>1. /\ walk \in [Walkers -> WalkType] /\ walk' \in [Walkers -> WalkType]
      /\ channel \in [Walkers -> Seq(Messages)]
  BY WalkerTypeStep DEF TypeOK
<1> USE DEF WalkType
<1>2. CASE WalkNode(w)
  BY <1>1, <1>2 DEF WalkNode, Send
<1>3. CASE WalkFlush(w)
  BY <1>1, <1>3 DEF WalkFlush, Send
<1>4. CASE WalkComplete(w)
  BY <1>1, <1>4 DEF WalkComplete, Send
<1>5. CASE WalkExit(w)
  BY <1>1, <1>5 DEF WalkExit
<1>6. CASE WalkPanic(w)
  BY <1>1, <1>6 DEF WalkPanic
<1> QED BY <1>2, <1>3, <1>4, <1>5, <1>6 DEF Walking

LEMMA SentComplete ==
    ASSUME NEW ms \in Seq(Messages)
    PROVE  /\ HasComplete(Append(ms, Complete))
           /\ \A cps \in Checkpoints :
                HasComplete(Append(ms, Batch(cps))) <=> HasComplete(ms)
<1>1. HasComplete(Append(ms, Complete))
  <2>1. Len(ms) + 1 \in 1..Len(Append(ms, Complete))
    BY AddedMessage, MessageTypes
  <2> QED BY <2>1, AddedMessage, MessageTypes DEF HasComplete
<1>2. ASSUME NEW cps \in Checkpoints
      PROVE  HasComplete(Append(ms, Batch(cps))) <=> HasComplete(ms)
  <2> DEFINE new == Append(ms, Batch(cps))
  <2>1. /\ Len(ms) \in Nat /\ Len(new) = Len(ms) + 1
        /\ \A k \in 1..Len(ms) : new[k] = ms[k]
        /\ new[Len(ms) + 1] = Batch(cps)
    BY AddedMessage, MessageTypes
  <2>2. Batch(cps) # Complete
    BY DEF Batch, Complete
  <2> HIDE DEF new
  <2> QED BY <2>1, <2>2 DEF HasComplete, new
<1> QED BY <1>1, <1>2

LEMMA WalkerAnnounceStep ==
    ASSUME TypeOK, HandlesInv, AnnounceInv,
           NEW w \in Walkers, Walking(w) \/ WalkPanic(w)
    PROVE  AnnounceInv'
<1>0. /\ walk \in [Walkers -> WalkType]
      /\ channel \in [Walkers -> Seq(Messages)]
      /\ walkers \in [Collections -> Walkers \union {NoWalker}]
  BY DEF TypeOK
<1>1. /\ UNCHANGED <<walkers, pc, serving, messages, joining>>
      /\ \A v \in Walkers : v # w => walk'[v] = walk[v] /\ channel'[v] = channel[v]
      /\ walk[w].state \in {"walking", "flushed", "returning"}
      /\ walk'[w].collection = walk[w].collection
      /\ walk'[w].cancel = walk[w].cancel
  BY WalkerStepFacts
<1>2. ASSUME NEW v \in Walkers, v # w PROVE Announced(v)'
  BY <1>1, <1>2, AnnouncedFrame DEF AnnounceInv
<1>3. Announced(w)'
  <2>0. Announced(w)
    BY DEF AnnounceInv
  <2>1. CASE WalkNode(w)
    <3>1. walk'[w].state = "walking" /\ walk[w].state = "walking"
      BY <1>0, <2>1 DEF WalkNode, WalkType
    <3>2. ~HasComplete(channel[w])
      BY <2>0, <3>1 DEF Announced
    <3>3. ~HasComplete(channel'[w])
      <4>1. \/ channel'[w] = channel[w]
            \/ channel'[w] = Append(channel[w], Batch(walk[w].buffer))
            \/ channel'[w] = Append(channel[w],
                 Batch(Append(walk[w].buffer, <<walk[w].count, walk[w].at>>)))
        BY <1>0, <2>1 DEF WalkNode, Send
      <4>2. walk[w].count \in Nat /\ walk[w].at \in Nodes
        BY <1>0, <2>1 DEF WalkNode, WalkType
      <4>3. walk[w].buffer \in Checkpoints
        BY ElementTypes
      <4>4. Append(walk[w].buffer, <<walk[w].count, walk[w].at>>) \in Checkpoints
        BY <4>2, <4>3 DEF Checkpoints
      <4>5. \A cps \in Checkpoints :
              channel'[w] = Append(channel[w], Batch(cps)) => ~HasComplete(channel'[w])
        BY <1>0, <3>2, SentComplete
      <4> QED BY <3>2, <4>1, <4>3, <4>4, <4>5
    <3> QED BY <3>1, <3>3 DEF Announced
  <2>2. CASE WalkFlush(w)
    <3>1. /\ walk'[w].state = "flushed" /\ walk[w].state = "walking"
          /\ walk'[w].at = walk[w].at
          /\ walk[w].cancel \/ walk[w].at = End
      BY <1>0, <2>2 DEF WalkFlush, WalkType
    <3>2. ~HasComplete(channel[w])
      BY <2>0, <3>1 DEF Announced
    <3>3. ~HasComplete(channel'[w])
      <4>1. \/ channel'[w] = channel[w]
            \/ channel'[w] = Append(channel[w], Batch(walk[w].buffer))
        BY <1>0, <2>2 DEF WalkFlush, Send
      <4>2. walk[w].buffer \in Checkpoints
        BY ElementTypes
      <4> QED BY <1>0, <3>2, <4>1, <4>2, SentComplete
    <3> QED BY <1>1, <3>1, <3>3 DEF Announced
  <2>3. CASE WalkComplete(w)
    <3>1. /\ walk'[w].state = "returning" /\ walk[w].state = "flushed"
          /\ walk'[w].at = walk[w].at
          /\ walk[w].cancel => channel'[w] = channel[w]
      BY <1>0, <2>3 DEF WalkComplete, WalkType
    <3> QED BY <1>1, <2>0, <3>1 DEF Announced
  <2>4. CASE WalkExit(w)
    <3>1. /\ walk'[w].state = "exited" /\ walk[w].state = "returning"
          /\ walk'[w].at = walk[w].at /\ channel'[w] = channel[w]
      BY <1>0, <2>4 DEF WalkExit, WalkType
    <3> QED BY <1>1, <2>0, <3>1 DEF Announced
  <2>5. CASE WalkPanic(w)
    <3>1. /\ walk'[w].state = "panicked" /\ walk[w].state = "walking"
          /\ channel'[w] = channel[w]
      BY <1>0, <2>5 DEF WalkPanic, WalkType
    <3> QED BY <2>0, <3>1 DEF Announced
  <2> QED BY <2>1, <2>2, <2>3, <2>4, <2>5 DEF Walking
<1>4. NotCancelled'
  BY <1>0, <1>1 DEF AnnounceInv, NotCancelled
<1>5. JoinsOwn'
  <2>1. \A v \in Walkers : walk'[v].collection = walk[v].collection
    BY <1>1
  <2>2. \A t \in Threads : pc[t] = "join" => joining[t] \in Walkers
    BY DEF TypeOK, HandlesInv, JoinLabels
  <2> QED BY <1>1, <2>1, <2>2 DEF AnnounceInv, JoinsOwn
<1> QED BY <1>2, <1>3, <1>4, <1>5 DEF AnnounceInv

\* A walker that was joined is forgotten, and no other walks its collection.
LEMMA JoinedFacts ==
    ASSUME TypeOK, HandlesInv, NEW t \in Threads, pc[t] \in JoinLabels, Joined(t)
    PROVE  /\ joining[t] \in Walkers /\ Live(joining[t])
           /\ walkers[walk[joining[t]].collection] = NoWalker
           /\ walk'[joining[t]] = Idle /\ channel'[joining[t]] = << >>
           /\ \A v \in Walkers : v # joining[t] => /\ walk'[v] = walk[v]
                                                   /\ channel'[v] = channel[v]
           /\ \A u \in Threads : u # t => joining[u] = NoWalker
           /\ \A v \in Walkers : v # joining[t] /\ Live(v) =>
                walk[v].collection # walk[joining[t]].collection
<1>1. joining[t] \in Walkers /\ joining[t] # NoWalker /\ walkersLock = t
  BY DEF TypeOK, HandlesInv
<1>2. \A u \in Threads : u # t => joining[u] = NoWalker
  BY <1>1 DEF HandlesInv
<1>3. /\ Live(joining[t]) /\ walkers[walk[joining[t]].collection] = NoWalker
      /\ \A v \in Walkers : v # joining[t] /\ Live(v) =>
           walkers[walk[v].collection] = v /\ v # NoWalker
  BY <1>1, <1>2, ThreadsAssumption DEF HandlesInv
<1>4. /\ walk'[joining[t]] = Idle /\ channel'[joining[t]] = << >>
      /\ \A v \in Walkers : v # joining[t] => /\ walk'[v] = walk[v]
                                              /\ channel'[v] = channel[v]
  BY <1>1 DEF Joined, TypeOK
<1> QED BY <1>1, <1>2, <1>3, <1>4

\* The joins of drains, of cancel_walker and of the drop.
LEMMA JoinAnnounce ==
    ASSUME TypeOK, HandlesInv, AnnounceInv, NEW t \in Threads,
           pc[t] \in JoinLabels, Joined(t), UNCHANGED <<walkers, serving>>,
           \A u \in Threads : pc'[u] = "join" => u # t /\ pc[u] = "join"
    PROVE  AnnounceInv'
<1> DEFINE j == joining[t]
<1>1. /\ j \in Walkers /\ walkers[walk[j].collection] = NoWalker
      /\ walk'[j] = Idle /\ channel'[j] = << >>
      /\ \A v \in Walkers : v # j => walk'[v] = walk[v] /\ channel'[v] = channel[v]
      /\ \A u \in Threads : u # t => joining[u] = NoWalker
  BY JoinedFacts
<1>2. ASSUME NEW v \in Walkers PROVE Announced(v)'
  <2>1. CASE v = j
    BY <1>1, <2>1, NoEntries DEF Announced, Idle
  <2>2. CASE v # j
    BY <1>1, <2>2, AnnouncedFrame DEF AnnounceInv
  <2> QED BY <2>1, <2>2
<1>3. NotCancelled'
  <2>1. ~walk'[j].cancel
    BY <1>1 DEF Idle
  <2>2. walkers \in [Collections -> Walkers \union {NoWalker}]
    BY DEF TypeOK
  <2> QED BY <1>1, <2>1, <2>2 DEF AnnounceInv, NotCancelled
<1>4. JoinsOwn'
  <2>1. \A u \in Threads : pc[u] = "join" => joining[u] # NoWalker
    BY DEF HandlesInv, JoinLabels
  <2> QED BY <1>1, <2>1 DEF JoinsOwn
<1> QED BY <1>2, <1>3, <1>4 DEF AnnounceInv

LEMMA UIAnnounceStep ==
    ASSUME TypeOK, HandlesInv, CheckpointsInv, AnnounceInv,
           \/ Events \/ TickStart \/ SpawnWalker \/ CancelJoin
           \/ \E c \in Collections : TickDrain(c) \/ DropCancel(c)
           \/ TickEnd \/ DropJoin \/ DropEnd
    PROVE  AnnounceInv'
<1>0. /\ walk \in [Walkers -> WalkType]
      /\ walkers \in [Collections -> Walkers \union {NoWalker}]
      /\ pc \in [Threads -> Labels] /\ UI \in Threads
      /\ serving \in [Threads -> Collections]
      /\ joining \in [Threads -> Walkers \union {NoWalker}]
  BY DEF TypeOK, Threads
<1>1. CASE \/ \E c \in Collections : SpawnLock(c) \/ TickDrain(c)
           \/ Quit \/ TickStart \/ TickEnd \/ DropEnd
  <2>1. UNCHANGED <<walkers, walk, channel, joining>>
    BY <1>1 DEF SpawnLock, TickDrain, Quit, TickStart, TickEnd, DropEnd, walkVars
  <2>2. \A t \in Threads : pc'[t] = "join" => pc[t] = "join" /\ serving'[t] = serving[t]
    BY <1>0, <1>1 DEF SpawnLock, TickDrain, Quit, TickStart, TickEnd, DropEnd, Goto
  <2> QED BY <2>1, <2>2, QuietAnnounce
<1>2. CASE SpawnWalker
  <2>1. UNCHANGED <<serving, channel, joining>>
    BY <1>2 DEF SpawnWalker, walkVars
  <2>2. \A t \in Threads : pc'[t] = "join" => pc[t] = "join"
    BY <1>0, <1>2 DEF SpawnWalker, Goto
  <2>3. CASE UNCHANGED <<walkers, walk>>
    BY <2>1, <2>2, <2>3, QuietAnnounce
  <2>4. CASE ~UNCHANGED <<walkers, walk>>
    <3> DEFINE c == serving[UI]
    <3>1. PICK w \in Walkers :
            /\ walk[w].state = "free"
            /\ walk' = [walk EXCEPT ![w] = [Idle EXCEPT !.state = "walking",
                                                        !.collection = c,
                                                        !.at = Head1(c)]]
            /\ walkers' = [walkers EXCEPT ![c] = w]
      BY <1>2, <2>4 DEF SpawnWalker, walkVars
    <3>2. /\ walk'[w].state = "walking" /\ ~walk'[w].cancel
          /\ \A v \in Walkers : v # w => walk'[v] = walk[v]
      BY <1>0, <3>1 DEF Idle
    <3>3. channel'[w] = << >>
      BY <2>1, <3>1 DEF CheckpointsInv, WalkerSound, Live
    <3>4. ASSUME NEW v \in Walkers PROVE Announced(v)'
      <4>1. CASE v = w
        BY <3>2, <3>3, <4>1, NoEntries DEF Announced
      <4>2. CASE v # w
        BY <2>1, <3>2, <4>2, AnnouncedFrame DEF AnnounceInv
      <4> QED BY <4>1, <4>2
    <3>5. NotCancelled'
      <4>1. \A d \in Collections : walkers[d] # NoWalker => walkers[d] # w
        BY <3>1 DEF HandlesInv, Live
      <4> QED BY <1>0, <3>1, <3>2, <4>1 DEF AnnounceInv, NotCancelled
    <3>6. JoinsOwn'
      <4>1. \A t \in Threads : pc[t] = "join" => joining[t] \in Walkers /\ joining[t] # w
        BY <1>0, <3>1 DEF HandlesInv, JoinLabels, Live
      <4> QED BY <2>1, <2>2, <3>2, <4>1 DEF AnnounceInv, JoinsOwn
    <3> QED BY <3>4, <3>5, <3>6 DEF AnnounceInv
  <2> QED BY <2>3, <2>4
<1>3. ASSUME NEW c \in Collections, Cancel(c) \/ DropCancel(c)
      PROVE  AnnounceInv'
  <2> DEFINE w == walkers[c]
  <2>1. /\ w \in Walkers
        /\ walk' = [walk EXCEPT ![w].cancel = TRUE]
        /\ walkers' = [walkers EXCEPT ![c] = NoWalker]
        /\ joining' = [joining EXCEPT ![UI] = w]
        /\ UNCHANGED <<channel, serving>>
    BY <1>0, <1>3 DEF Cancel, DropCancel, CancelWalker
  <2>2. /\ walk'[w].cancel
        /\ walk'[w].state = walk[w].state /\ walk'[w].at = walk[w].at
        /\ walk'[w].collection = walk[w].collection
        /\ \A v \in Walkers : v # w => walk'[v] = walk[v]
    BY <1>0, <2>1 DEF WalkType
  <2>3. ASSUME NEW v \in Walkers PROVE Announced(v)'
    <3>1. CASE v = w
      BY <2>1, <2>2, <3>1 DEF AnnounceInv, Announced
    <3>2. CASE v # w
      BY <2>1, <2>2, <3>2, AnnouncedFrame DEF AnnounceInv
    <3> QED BY <3>1, <3>2
  <2>4. NotCancelled'
    <3>1. \A d \in Collections : d # c /\ walkers[d] # NoWalker => walkers[d] # w
      BY <1>0, <2>1, ThreadsAssumption DEF HandlesInv
    <3> QED BY <1>0, <2>1, <2>2, <3>1 DEF AnnounceInv, NotCancelled
  <2>5. JoinsOwn'
    <3>1. \A t \in Threads : pc'[t] = "join" => t # UI /\ pc[t] = "join"
      BY <1>0, <1>3 DEF Cancel, DropCancel, CancelWalker, Goto
    <3>2. \A t \in Threads : pc[t] = "join" => joining[t] \in Walkers
      BY <1>0 DEF HandlesInv, JoinLabels
    <3>3. \A v \in Walkers : walk'[v].collection = walk[v].collection
      BY <2>2
    <3> QED BY <1>0, <2>1, <3>1, <3>2, <3>3 DEF AnnounceInv, JoinsOwn
  <2> QED BY <2>3, <2>4, <2>5 DEF AnnounceInv
<1>4. CASE CancelJoin \/ DropJoin
  <2>1. /\ pc[UI] \in {"cancelling", "dropping"} /\ Joined(UI)
        /\ UNCHANGED <<walkers, serving>>
        /\ \A t \in Threads : pc'[t] = "join" => t # UI /\ pc[t] = "join"
    BY <1>0, <1>4 DEF CancelJoin, DropJoin, Goto
  <2> QED BY <1>0, <2>1, JoinAnnounce DEF JoinLabels
<1> QED BY <1>1, <1>2, <1>3, <1>4 DEF Events

LEMMA DrainAnnounceStep ==
    ASSUME TypeOK, HandlesInv, AnnounceInv, NEW t \in Threads, DrainWalker(t)
    PROVE  AnnounceInv'
<1> DEFINE c == serving[t]
           w == walkers[c]
<1>0. /\ walkers \in [Collections -> Walkers \union {NoWalker}]
      /\ channel \in [Walkers -> Seq(Messages)]
      /\ joining \in [Threads -> Walkers \union {NoWalker}]
      /\ pc \in [Threads -> Labels] /\ c \in Collections
  BY ElementTypes DEF TypeOK
<1>1. CASE DrainApply(t) \/ ApplyBatch(t) \/ ApplyComplete(t) \/ DrainDone(t)
  <2>1. UNCHANGED <<walkers, walk, channel, joining, serving>>
    BY <1>1 DEF DrainApply, ApplyBatch, ApplyComplete, DrainDone, walkVars
  <2>2. \A u \in Threads : pc'[u] = "join" => pc[u] = "join"
    BY <1>0, <1>1 DEF DrainApply, ApplyBatch, ApplyComplete, DrainDone, Goto, Resume
  <2> QED BY <2>1, <2>2, QuietAnnounce
<1>2. CASE DrainTake(t)
  <2>1. /\ UNCHANGED <<walkers, walk, serving, joining>>
        /\ \A u \in Threads : pc'[u] = "join" => pc[u] = "join"
        /\ \A v \in Walkers : channel'[v] = channel[v] \/ channel'[v] = << >>
    BY <1>0, <1>2 DEF DrainTake, Goto, Resume
  <2>2. ASSUME NEW v \in Walkers PROVE Announced(v)'
    <3>1. Announced(v) /\ (HasComplete(channel'[v]) => HasComplete(channel[v]))
      BY <2>1, NoEntries DEF AnnounceInv
    <3> QED BY <2>1, <3>1 DEF Announced
  <2> QED BY <2>1, <2>2 DEF AnnounceInv, NotCancelled, JoinsOwn
<1>3. CASE DrainRemove(t)
  <2>1. UNCHANGED <<walk, channel, serving>>
    BY <1>3 DEF DrainRemove
  <2>2. ASSUME NEW v \in Walkers PROVE Announced(v)'
    BY <2>1, AnnouncedFrame DEF AnnounceInv
  <2>3. CASE w = NoWalker
    <3>1. /\ UNCHANGED <<walkers, joining>>
          /\ \A u \in Threads : pc'[u] = "join" => pc[u] = "join"
      BY <1>0, <1>3, <2>3 DEF DrainRemove, Goto
    <3> QED BY <2>1, <3>1, QuietAnnounce
  <2>4. CASE w # NoWalker
    <3>1. /\ walkers' = [walkers EXCEPT ![c] = NoWalker]
          /\ joining'[t] = w
          /\ \A u \in Threads : u # t => pc'[u] = pc[u] /\ joining'[u] = joining[u]
      BY <1>0, <1>3, <2>4 DEF DrainRemove, Goto
    <3>2. NotCancelled'
      BY <1>0, <2>1, <3>1 DEF AnnounceInv, NotCancelled
    <3>3. walk[w].collection = c
      BY <1>0, <2>4 DEF HandlesInv
    <3>4. JoinsOwn'
      BY <2>1, <3>1, <3>3 DEF AnnounceInv, JoinsOwn
    <3> QED BY <2>2, <3>2, <3>4 DEF AnnounceInv
  <2> QED BY <2>3, <2>4
<1>4. CASE DrainJoin(t)
  <2>1. /\ pc[t] = "join" /\ Joined(t) /\ UNCHANGED <<walkers, serving>>
        /\ \A u \in Threads : pc'[u] = "join" => u # t /\ pc[u] = "join"
    BY <1>0, <1>4 DEF DrainJoin, Goto
  <2> QED BY <2>1, JoinAnnounce DEF JoinLabels
<1> QED BY <1>1, <1>2, <1>3, <1>4 DEF DrainWalker

\* What a page request's own steps leave alone.
LEMMA PagerStepFacts ==
    ASSUME TypeOK, NEW p \in Pagers,
           \/ ExtractBegin(p) \/ ExtractNode(p) \/ ExtractEnd(p) \/ Return(p)
           \/ \E c \in Collections, r \in Requests : GetPage(p, c, r)
    PROVE  /\ UNCHANGED <<walkers, walk, channel, messages, joining>>
           /\ pc[p] \notin {"remove", "join"} /\ pc'[p] \notin {"remove", "join"}
           /\ \A t \in Threads : t # p => pc'[t] = pc[t] /\ serving'[t] = serving[t]
           /\ serving'[p] = serving[p] \/ pc[p] \in {"idle", "returned"}
<1>1. pc \in [Threads -> Labels] /\ serving \in [Threads -> Collections]
  BY DEF TypeOK
<1> QED BY <1>1
    DEF ExtractBegin, ExtractNode, ExtractEnd, Return, GetPage, Goto, walkVars, Threads

LEMMA AnnounceStep == IInv /\ AnnounceInv /\ [Next]_vars => AnnounceInv'
<1> SUFFICES ASSUME IInv, AnnounceInv, [Next]_vars PROVE AnnounceInv'
  OBVIOUS
<1> USE DEF IInv
<1>1. CASE \E w \in Walkers : Walking(w) \/ WalkPanic(w)
  BY <1>1, WalkerAnnounceStep
<1>2. CASE Events \/ TickStart \/ Ticking
  BY <1>2, UIAnnounceStep, DrainAnnounceStep DEF Ticking, Threads
<1>3. ASSUME NEW p \in Pagers,
             \/ Paging(p)
             \/ \E c \in Collections, r \in Requests : GetPage(p, c, r)
      PROVE  AnnounceInv'
  <2>1. CASE DrainWalker(p)
    BY <2>1, DrainAnnounceStep DEF Threads
  <2>2. CASE ~DrainWalker(p)
    <3>1. \/ ExtractBegin(p) \/ ExtractNode(p) \/ ExtractEnd(p) \/ Return(p)
          \/ \E c \in Collections, r \in Requests : GetPage(p, c, r)
      BY <1>3, <2>2 DEF Paging
    <3>2. /\ UNCHANGED <<walkers, walk, channel, joining>>
          /\ \A t \in Threads : pc'[t] = "join" =>
               pc[t] = "join" /\ serving'[t] = serving[t]
      BY <3>1, PagerStepFacts
    <3> QED BY <3>2, QuietAnnounce
  <2> QED BY <2>1, <2>2
<1>4. CASE UNCHANGED vars
  BY <1>4, QuietAnnounce DEF vars, walkVars
<1> QED BY <1>1, <1>2, <1>3, <1>4 DEF Next, Stopped

-----------------------------------------------------------------------------
(* Who has a walker's Complete, while a handle that a drain found at its end *)
(* is still registered when that drain locks again (HandleKept).             *)

\* A drain that has taken the walker's Complete is about to reap the walker.
Reaping(w) ==
    \E t \in Threads : /\ pc[t] \in {"remove", "join"}
                       /\ serving[t] = walk[w].collection
                       /\ HasComplete(messages[t])

Told(w) == walk[w].state \in {"returning", "exited"} =>
    walk[w].cancel \/ HasComplete(channel[w]) \/ Reaping(w)

\* A drain reaps a walker because of its Complete or because it died, unless
\* another drain is about to remove the same handle.
Reaped(t) ==
    /\ pc[t] = "remove" =>
         \/ HasComplete(messages[t])
         \/ walk[walkers[serving[t]]].state = "panicked"
         \/ \E u \in Threads \ {t} : pc[u] = "remove" /\ serving[u] = serving[t]
    /\ pc[t] = "join" =>
         HasComplete(messages[t]) \/ walk[joining[t]].state = "panicked"

ReapInv == (\A w \in Walkers : Told(w)) /\ \A t \in Threads : Reaped(t)

LEMMA InitReap == Init => ReapInv
BY DEF Init, ReapInv, Told, Reaped, Idle, Threads

\* Steps of other threads leave a drain where it is.
Steady(t) == /\ pc'[t] = pc[t] /\ serving'[t] = serving[t]
             /\ messages'[t] = messages[t] /\ joining'[t] = joining[t]

LEMMA ToldFrame ==
    ASSUME NEW w \in Walkers, Told(w), walk'[w] = walk[w], channel'[w] = channel[w],
           \A t \in Threads : /\ pc[t] \in {"remove", "join"}
                              /\ serving[t] = walk[w].collection
                              => /\ pc'[t] \in {"remove", "join"}
                                 /\ serving'[t] = serving[t]
                                 /\ messages'[t] = messages[t]
    PROVE  Told(w)'
<1>1. Reaping(w) => Reaping(w)'
  BY DEF Reaping
<1> QED BY <1>1 DEF Told

LEMMA ReapedFrame ==
    ASSUME NEW t \in Threads, Reaped(t),
           pc'[t] \in {"remove", "join"} => Steady(t),
           pc'[t] = "remove" =>
             /\ walkers'[serving[t]] = walkers[serving[t]]
             /\ walk[walkers[serving[t]]].state = "panicked" =>
                  walk'[walkers[serving[t]]].state = "panicked"
             /\ \A u \in Threads : pc[u] = "remove" /\ serving[u] = serving[t] =>
                  pc'[u] = "remove" /\ serving'[u] = serving[u],
           pc'[t] = "join" /\ walk[joining[t]].state = "panicked" =>
             walk'[joining[t]].state = "panicked"
    PROVE  Reaped(t)'
BY DEF Reaped, Steady

\* Steps that touch no walker and no drain about to reap one.
LEMMA QuietReap ==
    ASSUME ReapInv, UNCHANGED <<walkers, walk, channel>>,
           \A t \in Threads : pc[t] \in {"remove", "join"} => Steady(t),
           \A t \in Threads : pc'[t] \in {"remove", "join"} => Steady(t)
    PROVE  ReapInv'
<1>1. ASSUME NEW w \in Walkers PROVE Told(w)'
  BY ToldFrame DEF ReapInv, Steady
<1>2. ASSUME NEW t \in Threads PROVE Reaped(t)'
  BY ReapedFrame DEF ReapInv, Steady
<1> QED BY <1>1, <1>2 DEF ReapInv

\* Whoever removes or joins holds a walker there is.
LEMMA ReapTargets ==
    ASSUME TypeOK, HandlesInv, HandleKept, NEW t \in Threads
    PROVE  /\ pc[t] = "remove" =>
                /\ walkers[serving[t]] \in Walkers
                /\ Live(walkers[serving[t]])
                /\ walk[walkers[serving[t]]].collection = serving[t]
           /\ pc[t] = "join" => joining[t] \in Walkers /\ Live(joining[t])
BY ElementTypes DEF TypeOK, HandlesInv, HandleKept, JoinLabels

LEMMA WalkerReapStep ==
    ASSUME TypeOK, HandlesInv, AnnounceInv, ReapInv, HandleKept,
           NEW w \in Walkers, Walking(w) \/ WalkPanic(w)
    PROVE  ReapInv'
<1>0. walk \in [Walkers -> WalkType] /\ channel \in [Walkers -> Seq(Messages)]
  BY DEF TypeOK
<1>1. /\ UNCHANGED <<walkers, pc, serving, messages, joining>>
      /\ \A v \in Walkers : v # w => walk'[v] = walk[v] /\ channel'[v] = channel[v]
      /\ walk[w].state \in {"walking", "flushed", "returning"}
      /\ walk'[w].collection = walk[w].collection
      /\ walk'[w].cancel = walk[w].cancel
  BY WalkerStepFacts
<1>2. ASSUME NEW v \in Walkers PROVE Told(v)'
  <2>1. CASE v # w
    BY <1>1, <2>1, ToldFrame DEF ReapInv
  <2>2. CASE v = w
    <3>1. \/ walk'[w].state \in {"walking", "flushed", "panicked"}
          \/ walk[w].cancel
          \/ channel'[w] = Append(channel[w], Complete)
          \/ walk[w].state = "returning" /\ channel'[w] = channel[w]
      BY <1>0, <1>1
      DEF Walking, WalkNode, WalkFlush, WalkComplete, WalkExit, WalkPanic, WalkType,
          Send
    <3>2. HasComplete(Append(channel[w], Complete))
      BY <1>0, SentComplete
    <3>3. Told(w) /\ (Reaping(w) => Reaping(w)')
      BY <1>1 DEF ReapInv, Reaping
    <3> QED BY <1>1, <2>2, <3>1, <3>2, <3>3 DEF Told
  <2> QED BY <2>1, <2>2
<1>3. ASSUME NEW t \in Threads PROVE Reaped(t)'
  <2>1. \A v \in Walkers : walk[v].state = "panicked" => walk'[v].state = "panicked"
    BY <1>1
  <2> QED BY <1>1, <2>1, ReapTargets, ReapedFrame DEF ReapInv, Steady
<1> QED BY <1>2, <1>3 DEF ReapInv

LEMMA JoinReap ==
    ASSUME TypeOK, HandlesInv, AnnounceInv, ReapInv, HandleKept,
           NEW t \in Threads, pc[t] \in JoinLabels, Joined(t),
           UNCHANGED <<walkers, serving, messages>>,
           pc'[t] \notin {"remove", "join"},
           \A u \in Threads : u # t => pc'[u] = pc[u]
    PROVE  ReapInv'
<1> DEFINE j == joining[t]
<1>1. /\ j \in Walkers /\ walkers[walk[j].collection] = NoWalker
      /\ walk'[j] = Idle
      /\ \A v \in Walkers : v # j => walk'[v] = walk[v] /\ channel'[v] = channel[v]
      /\ \A u \in Threads : u # t => joining[u] = NoWalker
      /\ \A v \in Walkers : v # j /\ Live(v) => walk[v].collection # walk[j].collection
  BY JoinedFacts
<1>2. \A u \in Threads : u # t => pc[u] # "join"
  BY <1>1 DEF HandlesInv, JoinLabels
<1>3. ASSUME NEW v \in Walkers PROVE Told(v)'
  <2>1. CASE v = j
    BY <1>1, <2>1 DEF Told, Idle
  <2>2. CASE v # j /\ Live(v)
    <3>1. pc[t] \in {"remove", "join"} => serving[t] # walk[v].collection
      BY <1>1, <2>2 DEF AnnounceInv, JoinsOwn, JoinLabels
    <3> QED BY <1>1, <2>2, <3>1, ToldFrame DEF ReapInv
  <2>3. CASE v # j /\ ~Live(v)
    BY <1>1, <2>3 DEF Told, Live
  <2> QED BY <2>1, <2>2, <2>3
<1>4. ASSUME NEW u \in Threads PROVE Reaped(u)'
  <2>1. CASE u = t
    BY <2>1 DEF Reaped
  <2>2. CASE u # t /\ pc[u] = "remove"
    <3> DEFINE x == walkers[serving[u]]
    <3>1. /\ x \in Walkers /\ x # j
          /\ pc'[u] = "remove" /\ serving'[u] = serving[u]
          /\ walkers'[serving[u]] = x /\ walk'[x] = walk[x]
          /\ messages'[u] = messages[u]
      BY <1>1, <2>2, ReapTargets, ThreadsAssumption DEF HandleKept
    <3>2. \A s \in Threads : pc[s] = "remove" => pc'[s] = "remove"
      BY DEF JoinLabels
    <3> QED BY <2>2, <3>1, <3>2 DEF ReapInv, Reaped
  <2>3. CASE u # t /\ pc[u] # "remove"
    BY <1>2, <2>3 DEF Reaped
  <2> QED BY <2>1, <2>2, <2>3
<1> QED BY <1>3, <1>4 DEF ReapInv

LEMMA UIReapStep ==
    ASSUME TypeOK, HandlesInv, CheckpointsInv, AnnounceInv, ReapInv,
           HandleKept, HandleKept',
           \/ Events \/ TickStart \/ SpawnWalker \/ CancelJoin
           \/ \E c \in Collections : TickDrain(c) \/ DropCancel(c)
           \/ TickEnd \/ DropJoin \/ DropEnd
    PROVE  ReapInv'
<1>0. /\ walk \in [Walkers -> WalkType]
      /\ walkers \in [Collections -> Walkers \union {NoWalker}]
      /\ pc \in [Threads -> Labels] /\ UI \in Threads
      /\ serving \in [Threads -> Collections]
      /\ joining \in [Threads -> Walkers \union {NoWalker}]
  BY DEF TypeOK, Threads
<1>1. CASE \/ \E c \in Collections : SpawnLock(c) \/ TickDrain(c)
           \/ Quit \/ TickStart \/ TickEnd \/ DropEnd
  <2>1. /\ UNCHANGED <<walkers, walk, channel, joining, messages>>
        /\ pc[UI] \notin {"remove", "join"} /\ pc'[UI] \notin {"remove", "join"}
        /\ \A t \in Threads : t # UI => pc'[t] = pc[t] /\ serving'[t] = serving[t]
    BY <1>0, <1>1 DEF SpawnLock, TickDrain, Quit, TickStart, TickEnd, DropEnd,
                      walkVars, Goto
  <2> QED BY <2>1, QuietReap DEF Steady
<1>2. CASE SpawnWalker
  <2>1. /\ UNCHANGED <<serving, channel, joining, messages>>
        /\ pc[UI] = "spawn" /\ pc'[UI] = "input"
        /\ \A t \in Threads : t # UI => pc'[t] = pc[t]
    BY <1>0, <1>2 DEF SpawnWalker, Goto, walkVars
  <2>2. CASE UNCHANGED <<walkers, walk>>
    BY <2>1, <2>2, QuietReap DEF Steady
  <2>3. CASE ~UNCHANGED <<walkers, walk>>
    <3> DEFINE c == serving[UI]
    <3>1. PICK w \in Walkers :
            /\ walk[w].state = "free"
            /\ walk' = [walk EXCEPT ![w] = [Idle EXCEPT !.state = "walking",
                                                        !.collection = c,
                                                        !.at = Head1(c)]]
            /\ walkers' = [walkers EXCEPT ![c] = w]
      BY <1>2, <2>3 DEF SpawnWalker, walkVars
    <3>2. /\ walk'[w].state = "walking"
          /\ \A v \in Walkers : v # w => walk'[v] = walk[v]
          /\ walkers[c] = NoWalker
          /\ \A d \in Collections : d # c => walkers'[d] = walkers[d]
      BY <1>0, <2>1, <3>1 DEF Idle, HandlesInv
    <3>3. ASSUME NEW v \in Walkers PROVE Told(v)'
      <4>1. CASE v = w
        BY <3>2, <4>1 DEF Told
      <4>2. CASE v # w
        BY <2>1, <3>2, <4>2, ToldFrame DEF ReapInv
      <4> QED BY <4>1, <4>2
    <3>4. ASSUME NEW t \in Threads PROVE Reaped(t)'
      <4>1. pc[t] = "remove" => /\ walkers[serving[t]] \in Walkers \ {w}
                                /\ walkers'[serving[t]] = walkers[serving[t]]
        BY <1>0, <3>1, <3>2, ReapTargets DEF HandleKept, Live
      <4>2. pc[t] = "join" => joining[t] \in Walkers \ {w}
        BY <3>1, ReapTargets DEF Live
      <4> QED BY <2>1, <3>2, <4>1, <4>2, ReapedFrame DEF ReapInv, Steady
    <3> QED BY <3>3, <3>4 DEF ReapInv
  <2> QED BY <2>2, <2>3
<1>3. ASSUME NEW c \in Collections, Cancel(c) \/ DropCancel(c)
      PROVE  ReapInv'
  <2> DEFINE w == walkers[c]
  <2>1. /\ w \in Walkers
        /\ walk' = [walk EXCEPT ![w].cancel = TRUE]
        /\ walkers' = [walkers EXCEPT ![c] = NoWalker]
        /\ UNCHANGED <<channel, messages, serving>>
        /\ pc[UI] \in {"input", "drop"} /\ pc'[UI] \in {"cancelling", "dropping"}
        /\ \A t \in Threads : t # UI => pc'[t] = pc[t] /\ joining'[t] = joining[t]
    BY <1>0, <1>3 DEF Cancel, DropCancel, CancelWalker, Goto
  <2>2. /\ walk'[w].cancel
        /\ \A v \in Walkers : walk'[v].state = walk[v].state
        /\ \A v \in Walkers : v # w => walk'[v] = walk[v]
    BY <1>0, <2>1 DEF WalkType
  <2>3. ASSUME NEW v \in Walkers PROVE Told(v)'
    <3>1. CASE v = w
      BY <2>1, <2>2, <3>1 DEF Told
    <3>2. CASE v # w
      BY <2>1, <2>2, <3>2, ToldFrame DEF ReapInv
    <3> QED BY <3>1, <3>2
  <2>4. ASSUME NEW t \in Threads PROVE Reaped(t)'
    <3>1. pc[t] = "remove" => /\ walkers[serving[t]] \in Walkers
                              /\ walkers'[serving[t]] = walkers[serving[t]]
      BY <1>0, <2>1, ReapTargets DEF HandleKept
    <3>2. pc[t] = "join" => joining[t] \in Walkers
      BY ReapTargets
    <3> QED BY <2>1, <2>2, <3>1, <3>2, ReapedFrame DEF ReapInv, Steady
  <2> QED BY <2>3, <2>4 DEF ReapInv
<1>4. CASE CancelJoin \/ DropJoin
  <2>1. /\ pc[UI] \in {"cancelling", "dropping"} /\ pc'[UI] \in {"input", "drop"}
        /\ Joined(UI) /\ UNCHANGED <<walkers, serving, messages>>
        /\ \A t \in Threads : t # UI => pc'[t] = pc[t]
    BY <1>0, <1>4 DEF CancelJoin, DropJoin, Goto
  <2> QED BY <1>0, <2>1, JoinReap DEF JoinLabels
<1> QED BY <1>1, <1>2, <1>3, <1>4 DEF Events

\* A drain that finds its walker at the end without a Complete meets a panic,
\* or another drain took the Complete and is about to remove the handle too.
LEMMA TakeReap ==
    ASSUME TypeOK, HandlesInv, AnnounceInv, ReapInv, HandleKept,
           NEW t \in Threads, DrainTake(t)
    PROVE  ReapInv'
<1> DEFINE c == serving[t]
           w == walkers[c]
<1>0. /\ walkers \in [Collections -> Walkers \union {NoWalker}]
      /\ channel \in [Walkers -> Seq(Messages)]
      /\ messages \in [Threads -> Seq(Messages)]
      /\ pc \in [Threads -> Labels] /\ c \in Collections
  BY ElementTypes DEF TypeOK
<1>1. /\ pc[t] = "drain" /\ UNCHANGED <<walkers, walk, serving, joining>>
      /\ \A u \in Threads : u # t => pc'[u] = pc[u] /\ messages'[u] = messages[u]
  BY <1>0 DEF DrainTake, Goto
<1>2. CASE w = NoWalker
  <2>1. UNCHANGED channel /\ pc'[t] \in {"tick", "extract"}
    BY <1>0, <1>2 DEF DrainTake, Goto, Resume
  <2> QED BY <1>1, <2>1, QuietReap DEF Steady
<1>3. CASE w # NoWalker
  <2>1. /\ w \in Walkers /\ messages'[t] = channel[w] /\ channel'[w] = << >>
        /\ \A v \in Walkers : v # w => channel'[v] = channel[v]
        /\ pc'[t] = "remove" <=> HasComplete(channel[w]) \/ Ended(w)
        /\ pc'[t] \in {"remove", "tick", "extract", "apply"}
    BY <1>0, <1>3 DEF DrainTake, Goto, Resume
  <2>2. walk[w].collection = c /\ ~walk[w].cancel
    BY <1>0, <1>3 DEF HandlesInv, AnnounceInv, NotCancelled
  <2>3. Reaping(w) => Reaping(w)'
    BY <1>1 DEF Reaping
  <2>4. ASSUME NEW v \in Walkers PROVE Told(v)'
    <3>1. CASE v # w
      BY <1>1, <2>1, <3>1, ToldFrame DEF ReapInv
    <3>2. CASE v = w
      <4>1. HasComplete(channel[w]) => Reaping(w)'
        BY <1>1, <2>1, <2>2 DEF Reaping
      <4> QED BY <1>1, <2>3, <3>2, <4>1 DEF ReapInv, Told
    <3> QED BY <3>1, <3>2
  <2>5. ASSUME NEW u \in Threads, u # t PROVE Reaped(u)'
    BY <1>1, <2>5, ReapedFrame DEF ReapInv, Steady
  <2>6. Reaped(t)'
    <3> SUFFICES ASSUME Ended(w), ~HasComplete(channel[w]), walk[w].state # "panicked"
                 PROVE  \E u \in Threads \ {t} : pc[u] = "remove" /\ serving[u] = c
      BY <1>1, <2>1 DEF Reaped
    <3>1. Reaping(w)
      BY <2>1, <2>2 DEF ReapInv, Told, Ended
    <3>2. PICK u \in Threads : pc[u] \in {"remove", "join"} /\ serving[u] = c
      BY <2>2, <3>1 DEF Reaping
    <3>3. pc[u] # "join"
      BY NobodyJoins DEF DrainTake, HandlesInv, JoinLabels
    <3> QED BY <1>1, <3>2, <3>3
  <2> QED BY <2>4, <2>5, <2>6 DEF ReapInv
<1> QED BY <1>2, <1>3

LEMMA DrainReapStep ==
    ASSUME TypeOK, HandlesInv, AnnounceInv, ReapInv, HandleKept, HandleKept',
           NEW t \in Threads, DrainWalker(t)
    PROVE  ReapInv'
<1> DEFINE c == serving[t]
           w == walkers[c]
<1>0. /\ walkers \in [Collections -> Walkers \union {NoWalker}]
      /\ joining \in [Threads -> Walkers \union {NoWalker}]
      /\ messages \in [Threads -> Seq(Messages)]
      /\ pc \in [Threads -> Labels] /\ c \in Collections
  BY ElementTypes DEF TypeOK
<1>1. CASE DrainApply(t) \/ ApplyBatch(t) \/ ApplyComplete(t) \/ DrainDone(t)
  <2>1. /\ UNCHANGED <<walkers, walk, channel, joining, serving>>
        /\ pc[t] \notin {"remove", "join"} /\ pc'[t] \notin {"remove", "join"}
        /\ \A u \in Threads : u # t => pc'[u] = pc[u] /\ messages'[u] = messages[u]
    BY <1>0, <1>1 DEF DrainApply, ApplyBatch, ApplyComplete, DrainDone, Goto, Resume,
                      walkVars
  <2> QED BY <2>1, QuietReap DEF Steady
<1>2. CASE DrainTake(t)
  BY <1>2, TakeReap
<1>3. CASE DrainRemove(t)
  <2>1. /\ pc[t] = "remove" /\ w \in Walkers /\ walk[w].collection = c
        /\ UNCHANGED <<walk, channel, serving, messages>>
    BY <1>3, ReapTargets DEF DrainRemove
  <2>2. /\ walkers' = [walkers EXCEPT ![c] = NoWalker]
        /\ joining'[t] = w /\ pc'[t] = "join"
        /\ \A u \in Threads : u # t => pc'[u] = pc[u] /\ joining'[u] = joining[u]
    BY <1>0, <1>3, <2>1, ThreadsAssumption DEF DrainRemove, Goto
  <2>3. ASSUME NEW u \in Threads, u # t, pc[u] = "remove"
        PROVE  serving[u] \in Collections /\ serving[u] # c
    BY <1>0, <2>1, <2>2, <2>3, ElementTypes DEF HandleKept
  <2>4. ASSUME NEW v \in Walkers PROVE Told(v)'
    BY <2>1, <2>2, ToldFrame DEF ReapInv
  <2>5. ASSUME NEW u \in Threads PROVE Reaped(u)'
    <3>1. CASE u = t
      BY <2>1, <2>2, <2>3, <3>1 DEF ReapInv, Reaped
    <3>2. CASE u # t
      <4>1. pc[u] = "remove" => walkers'[serving[u]] = walkers[serving[u]]
        BY <1>0, <2>2, <2>3, <3>2
      <4>2. pc[u] = "remove" => \A s \in Threads :
              pc[s] = "remove" /\ serving[s] = serving[u] => pc'[s] = "remove"
        BY <2>2, <2>3, <3>2
      <4> QED BY <2>1, <2>2, <3>2, <4>1, <4>2, ReapedFrame DEF ReapInv, Steady
    <3> QED BY <3>1, <3>2
  <2> QED BY <2>4, <2>5 DEF ReapInv
<1>4. CASE DrainJoin(t)
  <2>1. /\ pc[t] = "join" /\ pc'[t] = "apply" /\ Joined(t)
        /\ UNCHANGED <<walkers, serving, messages>>
        /\ \A u \in Threads : u # t => pc'[u] = pc[u]
    BY <1>0, <1>4 DEF DrainJoin, Goto
  <2> QED BY <2>1, JoinReap DEF JoinLabels
<1> QED BY <1>1, <1>2, <1>3, <1>4 DEF DrainWalker

LEMMA ReapStep ==
    IInv /\ AnnounceInv /\ ReapInv /\ HandleKept /\ HandleKept' /\ [Next]_vars
      => ReapInv'
<1> SUFFICES ASSUME IInv, AnnounceInv, ReapInv, HandleKept, HandleKept', [Next]_vars
             PROVE  ReapInv'
  OBVIOUS
<1> USE DEF IInv
<1>1. CASE \E w \in Walkers : Walking(w) \/ WalkPanic(w)
  BY <1>1, WalkerReapStep
<1>2. CASE Events \/ TickStart \/ Ticking
  BY <1>2, UIReapStep, DrainReapStep DEF Ticking, Threads
<1>3. ASSUME NEW p \in Pagers,
             \/ Paging(p)
             \/ \E c \in Collections, r \in Requests : GetPage(p, c, r)
      PROVE  ReapInv'
  <2>1. CASE DrainWalker(p)
    BY <2>1, DrainReapStep DEF Threads
  <2>2. CASE ~DrainWalker(p)
    BY <1>3, <2>2, PagerStepFacts, QuietReap DEF Paging, Steady
  <2> QED BY <2>1, <2>2
<1>4. CASE UNCHANGED vars
  BY <1>4, QuietReap DEF vars, walkVars, Steady
<1> QED BY <1>1, <1>2, <1>3, <1>4 DEF Next, Stopped

-----------------------------------------------------------------------------
(* No checkpoint is lost while what one drain has taken of a collection is   *)
(* applied before another takes more of it (TakenApart).                     *)

\* The checkpoints of entries below n are in the index or still to come.
Reaches(si, n, pending) ==
    \A i \in Nat : i * SkipInterval < n =>
        i < Len(si.checkpoints) \/ i * SkipInterval \in pending

\* What drains have taken of c, what a walker has not given away yet.
Taken(c) == {e \in Nat : \E t \in Threads :
                            serving[t] = c /\ e \in EntriesIn(messages[t])}
Held(w)  == EntriesIn(channel[w]) \union Entries(walk[w].buffer)

\* What is on its way of a walk is in order, and behind the walker.
Ordered(w) ==
    /\ Ascending(channel[w]) /\ Increasing(walk[w].buffer)
    /\ Below(EntriesIn(channel[w]), Entries(walk[w].buffer))
    /\ Below(Held(w), {walk[w].count})
    /\ walk[w].state # "walking" => walk[w].buffer = << >>

\* Behind the walker the index lacks only what the walker holds and `taken`,
\* which comes before that.
Follows(w, taken) ==
    /\ Below(taken, Held(w)) /\ Below(taken, {walk[w].count})
    /\ Reaches(skip[walk[w].collection], walk[w].count, taken \union Held(w))

\* What drains have taken may also be an earlier walker's.
Covering(w) ==
    /\ Live(w) => Ordered(w)
    /\ walk[w].state \notin {"free", "panicked"} =>
          Follows(w, {}) \/ Follows(w, Taken(walk[w].collection))

\* A Complete taken follows all the checkpoints; a complete index has them.
TakenWhole ==
    \A t \in Threads :
      /\ Ascending(messages[t])
      /\ HasComplete(messages[t]) =>
           Reaches(skip[serving[t]], Len(Chain[serving[t]]), EntriesIn(messages[t]))
IndexWhole ==
    \A c \in Collections :
        skip[c].complete => Reaches(skip[c], Len(Chain[c]), {})

CoverInv == TakenWhole /\ IndexWhole /\ \A w \in Walkers : Covering(w)

LEMMA NothingTaken ==
    ASSUME NEW c, \A t \in Threads : serving[t] = c => messages[t] = << >>
    PROVE  Taken(c) = {}
BY NoEntries DEF Taken

LEMMA TakenFrame ==
    ASSUME \A t \in Threads : /\ EntriesIn(messages'[t]) = EntriesIn(messages[t])
                              /\ serving'[t] = serving[t] \/ messages[t] = << >>
    PROVE  \A c : Taken(c)' = Taken(c)
BY NoEntries DEF Taken

LEMMA InitCover == Init => CoverInv
<1> SUFFICES ASSUME Init PROVE CoverInv
  OBVIOUS
<1>1. /\ \A t \in Threads : messages[t] = << >>
      /\ \A c \in Collections : ~skip[c].complete
  BY DEF Init, Threads, SI!NewIndex
<1>2. \A w \in Walkers : walk[w].state = "free"
  BY DEF Init, Idle
<1> QED BY <1>1, <1>2, NoEntries DEF CoverInv, TakenWhole, IndexWhole, Covering, Live

LEMMA Multiples ==
    ASSUME NEW i \in Nat
    PROVE  /\ i * SkipInterval \in Nat
           /\ (i * SkipInterval) % SkipInterval = 0
           /\ \A j \in Nat : i < j => i * SkipInterval < j * SkipInterval
<1>1. i * SkipInterval \in Nat
  BY IntervalsAssumption
<1>2. (i * SkipInterval) % SkipInterval = 0
  BY IntervalsAssumption
<1>3. ASSUME NEW j \in Nat, i < j PROVE i * SkipInterval < j * SkipInterval
  BY <1>3, IntervalsAssumption
<1> QED BY <1>1, <1>2, <1>3

LEMMA IndexLength ==
    ASSUME NEW si \in SI!Indexes
    PROVE  Len(si.checkpoints) \in Nat
<1>1. si.checkpoints \in Seq(Nodes)
  BY DEF SI!Indexes
<1> QED BY <1>1

\* The least pending checkpoint is the next one of the index, or is there.
LEMMA RecordReaches ==
    ASSUME NEW si \in SI!Indexes, NEW e \in Nat, NEW n \in Nat, NEW node \in Nodes,
           NEW P, Reaches(si, n, P \union {e}), Below({e}, P)
    PROVE  Reaches(SI!Record(si, e, node), n, P)
<1> DEFINE new == SI!Record(si, e, node)
           len == Len(si.checkpoints)
<1>1. /\ len \in Nat
      /\ e = len * SkipInterval => Len(new.checkpoints) = len + 1
      /\ e # len * SkipInterval => new = si
  <2>1. si.checkpoints \in Seq(Nodes)
    BY DEF SI!Indexes
  <2> QED BY <2>1 DEF SI!Record, SI!Indexes
<1> HIDE DEF new
<1> SUFFICES ASSUME NEW i \in Nat, i * SkipInterval < n, ~(i * SkipInterval \in P)
             PROVE  i < Len(new.checkpoints)
  BY DEF Reaches, new
<1>2. i < len \/ i * SkipInterval = e
  BY DEF Reaches
<1>3. CASE i < len
  BY <1>1, <1>3
<1>4. CASE ~(i < len) /\ i * SkipInterval = e
  <2>1. CASE i = len
    BY <1>1, <1>4, <2>1
  <2>2. CASE len < i
    <3>1. len * SkipInterval \in Nat /\ len * SkipInterval < e
      BY <1>1, <1>4, <2>2, Multiples
    <3>2. len * SkipInterval < n
      BY <1>4, <3>1
    <3>3. len * SkipInterval \in P
      BY <1>1, <3>1, <3>2 DEF Reaches
    <3>4. e < len * SkipInterval
      BY <3>3 DEF Below
    <3> QED BY <3>1, <3>4
  <2> QED BY <1>1, <1>4, <2>1, <2>2
<1> QED BY <1>2, <1>3, <1>4

\* One entry further, whose checkpoint is pending if it is due.
LEMMA OneFurther ==
    ASSUME NEW si, NEW n \in Nat, NEW P, NEW Q, Reaches(si, n, P), P \subseteq Q,
           n % SkipInterval = 0 => n \in Q
    PROVE  Reaches(si, n + 1, Q)
<1> SUFFICES ASSUME NEW i \in Nat, i * SkipInterval < n + 1
             PROVE  i < Len(si.checkpoints) \/ i * SkipInterval \in Q
  BY DEF Reaches
<1>1. i * SkipInterval \in Nat /\ (i * SkipInterval) % SkipInterval = 0
  BY Multiples
<1>2. i * SkipInterval < n \/ i * SkipInterval = n
  BY <1>1
<1> QED BY <1>1, <1>2 DEF Reaches

\* An index never gets shorter.
Longer(old, new) ==
    \A i \in Nat : i < Len(old.checkpoints) => i < Len(new.checkpoints)

LEMMA LongerReaches ==
    ASSUME NEW old, NEW new, Longer(old, new), NEW n, NEW P, Reaches(old, n, P)
    PROVE  Reaches(new, n, P)
BY DEF Longer, Reaches

LEMMA RecordLonger ==
    ASSUME NEW si \in SI!Indexes, NEW e \in Nat, NEW node \in Nodes
    PROVE  /\ Longer(si, SI!Record(si, e, node))
           /\ SI!Record(si, e, node).complete = si.complete
<1>1. si.checkpoints \in Seq(Nodes)
  BY DEF SI!Indexes
<1> QED BY <1>1 DEF Longer, SI!Record, SI!Indexes

LEMMA CoveringFrame ==
    ASSUME NEW w \in Walkers, NEW c, c = walk[w].collection, Covering(w),
           walk'[w].state = walk[w].state,
           walk'[w].collection = walk[w].collection,
           walk'[w].count = walk[w].count,
           walk'[w].buffer = walk[w].buffer,
           channel'[w] = channel[w],
           Live(w) => Taken(c)' = Taken(c),
           Longer(skip[c], skip'[c])
    PROVE  Covering(w)'
<1>1. Live(w)' <=> Live(w)
  BY DEF Live
<1>2. Held(w)' = Held(w)
  BY DEF Held
<1>3. Live(w)' => Ordered(w)'
  BY <1>1, <1>2 DEF Covering, Ordered
<1>4. ASSUME NEW T, Follows(w, T) PROVE Follows(w, T)'
  BY <1>2, <1>4, LongerReaches DEF Follows
<1>5. walk'[w].state \notin {"free", "panicked"} =>
        Follows(w, {})' \/ (Follows(w, Taken(c)) /\ Taken(c)' = Taken(c))
  BY <1>4 DEF Covering, Live
<1>6. Follows(w, Taken(c)) /\ Taken(c)' = Taken(c) =>
        Follows(w, Taken(walk[w].collection))'
  <2> SUFFICES ASSUME Follows(w, Taken(c)), Taken(c)' = Taken(c)
               PROVE  Follows(w, Taken(walk[w].collection))'
    OBVIOUS
  <2>1. Taken(walk[w].collection)' = Taken(c)
    BY DEF Taken
  <2> QED BY <1>2, <2>1, LongerReaches DEF Follows
<1> QED BY <1>3, <1>5, <1>6 DEF Covering

\* Steps that only move a thread on, or add to an index.
LEMMA QuietCover ==
    ASSUME TypeOK, CoverInv, UNCHANGED <<walk, channel, messages>>,
           \A t \in Threads : serving'[t] = serving[t] \/ messages[t] = << >>,
           \A c \in Collections : Longer(skip[c], skip'[c]),
           \A c \in Collections : skip'[c].complete =>
              skip[c].complete \/ Reaches(skip[c], Len(Chain[c]), {})
    PROVE  CoverInv'
<1>1. \A c : Taken(c)' = Taken(c)
  BY TakenFrame
<1>2. ASSUME NEW w \in Walkers PROVE Covering(w)'
  <2>1. walk[w].collection \in Collections
    BY ElementTypes DEF WalkType
  <2> QED BY <1>1, <2>1, CoveringFrame DEF CoverInv
<1>3. TakenWhole'
  BY ElementTypes, NoEntries, LongerReaches DEF CoverInv, TakenWhole
<1>4. IndexWhole'
  BY LongerReaches DEF CoverInv, IndexWhole
<1> QED BY <1>2, <1>3, <1>4 DEF CoverInv

\* A buffer is kept, or sent as a batch: nothing is lost and the order stays.
LEMMA SentOrKept ==
    ASSUME NEW w \in Walkers, NEW b \in Checkpoints,
           channel[w] \in Seq(Messages), ~HasComplete(channel[w]),
           Ascending(channel[w]), Increasing(b),
           Below(EntriesIn(channel[w]), Entries(b)),
           \/ channel'[w] = channel[w] /\ walk'[w].buffer = b
           \/ /\ channel'[w] = Append(channel[w], Batch(b))
              /\ walk'[w].buffer = << >>
    PROVE  /\ Ascending(channel'[w]) /\ Increasing(walk'[w].buffer)
           /\ Below(EntriesIn(channel'[w]), Entries(walk'[w].buffer))
           /\ Held(w)' = EntriesIn(channel[w]) \union Entries(b)
<1>1. CASE channel'[w] = channel[w] /\ walk'[w].buffer = b
  BY <1>1 DEF Held
<1>2. CASE channel'[w] = Append(channel[w], Batch(b)) /\ walk'[w].buffer = << >>
  <2>1. /\ Ascending(channel'[w])
        /\ EntriesIn(channel'[w]) = EntriesIn(channel[w]) \union Entries(b)
    BY <1>2, BatchAdded
  <2>2. /\ Increasing(walk'[w].buffer) /\ Entries(walk'[w].buffer) = {}
        /\ Below(EntriesIn(channel'[w]), Entries(walk'[w].buffer))
    BY <1>2, NoEntries DEF Below
  <2> QED BY <2>1, <2>2 DEF Held
<1> QED BY <1>1, <1>2

\* The node's checkpoint, if one is due, follows all that is on its way.
LEMMA WalkNodeCover ==
    ASSUME TypeOK, CheckpointsInv, NEW w \in Walkers,
           Announced(w), Covering(w), WalkNode(w), UNCHANGED <<skip, serving, messages>>
    PROVE  Covering(w)'
<1> DEFINE c == walk[w].collection
           n == walk[w].count
           checkpoint == n % SkipInterval = 0
           new == IF checkpoint THEN Append(walk[w].buffer, <<n, walk[w].at>>)
                  ELSE walk[w].buffer
           held == EntriesIn(channel[w]) \union Entries(new)
<1>1. /\ walk \in [Walkers -> WalkType] /\ channel[w] \in Seq(Messages)
      /\ walk[w].state = "walking" /\ Live(w) /\ walk[w].at \in Nodes
      /\ n \in Nat /\ c \in Collections /\ walk[w].buffer \in Checkpoints
  BY ElementTypes DEF TypeOK, WalkNode, WalkType, Live
<1>2. /\ walk'[w].state = "walking" /\ walk'[w].collection = c
      /\ walk'[w].count = n + 1
      /\ \/ channel'[w] = channel[w] /\ walk'[w].buffer = new
         \/ /\ channel'[w] = Append(channel[w], Batch(new))
            /\ walk'[w].buffer = << >>
  <2>1. channel \in [Walkers -> Seq(Messages)]
    BY DEF TypeOK
  <2> QED BY <1>1, <2>1 DEF WalkNode, WalkType, Send
<1>3. ~HasComplete(channel[w])
  BY <1>1 DEF Announced
<1>4. Ordered(w)
  BY <1>1 DEF Covering
<1>5. /\ \A d \in EntriesIn(channel[w]) : d \in Nat /\ d < n
      /\ \A d \in Entries(walk[w].buffer) : d \in Nat /\ d < n
  BY <1>1, <1>4, EntriesType DEF Ordered, Held, Below, EntriesIn
<1>6. /\ new \in Checkpoints /\ Increasing(new)
      /\ Entries(new) = Entries(walk[w].buffer) \union (IF checkpoint THEN {n} ELSE {})
  <2>1. CASE checkpoint
    <3>1. Below(Entries(walk[w].buffer), {n})
      BY <1>5 DEF Below
    <3>2. <<n, walk[w].at>> \in Nat \X Nodes
      BY <1>1
    <3>3. new \in Checkpoints
      BY <1>1, <2>1, <3>2 DEF Checkpoints
    <3> QED BY <1>1, <1>4, <2>1, <3>1, <3>3, CheckpointAdded DEF Ordered
  <2>2. CASE ~checkpoint
    BY <1>1, <1>4, <2>2 DEF Ordered
  <2> QED BY <2>1, <2>2
<1> HIDE DEF new, checkpoint
<1>7. Below(EntriesIn(channel[w]), Entries(new))
  BY <1>4, <1>5, <1>6 DEF Ordered, Below
<1>8. /\ Ascending(channel'[w]) /\ Increasing(walk'[w].buffer)
      /\ Below(EntriesIn(channel'[w]), Entries(walk'[w].buffer))
      /\ Held(w)' = held
  BY <1>1, <1>2, <1>3, <1>4, <1>6, <1>7, SentOrKept DEF Ordered
<1>9. Below(held, {n + 1})
  <2>1. \A d \in held : d \in Nat /\ d <= n
    BY <1>1, <1>5, <1>6
  <2> QED BY <1>1, <2>1 DEF Below
<1>10. Ordered(w)'
  BY <1>2, <1>8, <1>9 DEF Ordered
<1>11. ASSUME NEW T \in SUBSET Nat, Follows(w, T) PROVE Follows(w, T)'
  <2>1. Below(T, held)
    BY <1>5, <1>6, <1>11 DEF Follows, Held, Below
  <2>2. Below(T, {n + 1})
    <3>1. \A d \in T : d \in Nat /\ d < n
      BY <1>11 DEF Follows, Below
    <3>2. \A d \in T : d < n + 1
      BY <1>1, <3>1
    <3> QED BY <3>2 DEF Below
  <2>3. Reaches(skip[c], n + 1, T \union held)
    <3>1. T \union Held(w) \subseteq T \union held
      BY <1>6 DEF Held
    <3>2. n % SkipInterval = 0 => n \in T \union held
      BY <1>6 DEF checkpoint
    <3> QED BY <1>1, <1>11, <3>1, <3>2, OneFurther DEF Follows
  <2> QED BY <1>2, <1>8, <2>1, <2>2, <2>3 DEF Follows
<1>12. Taken(walk[w].collection)' = Taken(c) /\ Taken(c) \in SUBSET Nat
  BY <1>2 DEF Taken
<1>13. Follows(w, {})' \/ Follows(w, Taken(walk[w].collection))'
  <2>1. CASE Follows(w, {})
    BY <1>11, <2>1
  <2>2. CASE Follows(w, Taken(c))
    <3> DEFINE T == Taken(c)
    <3>1. T \in SUBSET Nat /\ Taken(walk[w].collection)' = T /\ T' = T
      BY <1>12 DEF Taken
    <3> HIDE DEF T
    <3>2. Follows(w, T)'
      BY <1>11, <2>2, <3>1 DEF T
    <3> QED BY <3>1, <3>2 DEF Follows
  <2> QED BY <1>1, <2>1, <2>2 DEF Covering
<1> QED BY <1>2, <1>10, <1>13 DEF Covering

LEMMA SameLonger == \A si : Longer(si, si)
BY DEF Longer

LEMMA WalkerCoverStep ==
    ASSUME TypeOK, CheckpointsInv, AnnounceInv, CoverInv,
           NEW w \in Walkers, Walking(w) \/ WalkPanic(w)
    PROVE  CoverInv'
<1>0. /\ walk \in [Walkers -> WalkType] /\ channel \in [Walkers -> Seq(Messages)]
      /\ channel[w] \in Seq(Messages) /\ walk[w].buffer \in Checkpoints
  BY ElementTypes DEF TypeOK
<1>1. /\ UNCHANGED <<skip, serving, messages>>
      /\ \A v \in Walkers : v # w => walk'[v] = walk[v] /\ channel'[v] = channel[v]
      /\ walk[w].state \in {"walking", "flushed", "returning"}
      /\ walk'[w].collection = walk[w].collection
  BY WalkerStepFacts DEF indexVars
<1>2. \A c : Taken(c)' = Taken(c)
  BY <1>1 DEF Taken
<1>3. ASSUME NEW v \in Walkers, v # w PROVE Covering(v)'
  BY <1>1, <1>2, <1>3, SameLonger, CoveringFrame DEF CoverInv
<1>4. TakenWhole' /\ IndexWhole'
  BY <1>1 DEF CoverInv, TakenWhole, IndexWhole
<1>5. /\ Announced(w) /\ Covering(w) /\ Ordered(w)
      /\ Follows(w, {}) \/ Follows(w, Taken(walk[w].collection))
  BY <1>1 DEF AnnounceInv, CoverInv, Covering, Live
<1>6. ASSUME walk'[w].count = walk[w].count, Held(w)' = Held(w)
      PROVE  Follows(w, {})' \/ Follows(w, Taken(walk[w].collection))'
  <2>1. Taken(walk[w].collection)' = Taken(walk[w].collection)
    BY <1>1 DEF Taken
  <2> QED BY <1>1, <1>5, <1>6, <2>1 DEF Follows
<1>7. Covering(w)'
  <2>1. CASE WalkNode(w)
    BY <1>1, <1>5, <2>1, WalkNodeCover
  <2>2. CASE WalkFlush(w)
    <3>1. /\ walk[w].state = "walking" /\ walk'[w].state = "flushed"
          /\ walk'[w].count = walk[w].count /\ walk'[w].buffer = << >>
          /\ \/ channel'[w] = channel[w] /\ walk[w].buffer = << >>
             \/ channel'[w] = Append(channel[w], Batch(walk[w].buffer))
      BY <1>0, <2>2 DEF WalkFlush, WalkType, Send
    <3>2. ~HasComplete(channel[w])
      BY <1>5, <3>1 DEF Announced
    <3>3. /\ Ascending(channel'[w]) /\ Increasing(walk'[w].buffer)
          /\ Below(EntriesIn(channel'[w]), Entries(walk'[w].buffer))
          /\ Held(w)' = Held(w)
      BY <1>0, <1>5, <3>1, <3>2, SentOrKept DEF Ordered, Held
    <3>4. Ordered(w)'
      BY <1>5, <3>1, <3>3 DEF Ordered
    <3> QED BY <1>6, <3>1, <3>3, <3>4 DEF Covering
  <2>3. CASE WalkComplete(w)
    <3>1. /\ walk[w].state = "flushed" /\ walk'[w].state = "returning"
          /\ walk'[w].count = walk[w].count /\ walk'[w].buffer = walk[w].buffer
          /\ \/ channel'[w] = channel[w]
             \/ channel'[w] = Append(channel[w], Complete)
      BY <1>0, <2>3 DEF WalkComplete, WalkType, Send
    <3>2. ~HasComplete(channel[w])
      BY <1>5, <3>1 DEF Announced
    <3>3. /\ Ascending(channel'[w])
          /\ EntriesIn(channel'[w]) = EntriesIn(channel[w])
      BY <1>0, <1>5, <3>1, <3>2, CompleteAdded DEF Ordered
    <3>4. Held(w)' = Held(w)
      BY <3>1, <3>3 DEF Held
    <3>5. Ordered(w)'
      BY <1>5, <3>1, <3>3, <3>4 DEF Ordered
    <3> QED BY <1>6, <3>1, <3>4, <3>5 DEF Covering
  <2>4. CASE WalkExit(w)
    <3>1. /\ walk[w].state = "returning" /\ walk'[w].state = "exited"
          /\ walk'[w].count = walk[w].count /\ walk'[w].buffer = walk[w].buffer
          /\ channel'[w] = channel[w]
      BY <1>0, <2>4 DEF WalkExit, WalkType
    <3>2. Held(w)' = Held(w)
      BY <3>1 DEF Held
    <3>3. Ordered(w)'
      BY <1>5, <3>1, <3>2 DEF Ordered
    <3> QED BY <1>6, <3>1, <3>2, <3>3 DEF Covering
  <2>5. CASE WalkPanic(w)
    <3>1. /\ walk'[w].state = "panicked"
          /\ walk'[w].count = walk[w].count /\ walk'[w].buffer = << >>
          /\ channel'[w] = channel[w]
      BY <1>0, <2>5 DEF WalkPanic, WalkType
    <3>2. /\ Held(w)' \subseteq Held(w)
          /\ Entries(walk'[w].buffer) = {} /\ Increasing(walk'[w].buffer)
      BY <3>1, NoEntries DEF Held
    <3>3. Ordered(w)'
      BY <1>5, <3>1, <3>2 DEF Ordered, Below
    <3> QED BY <3>1, <3>3 DEF Covering
  <2> QED BY <2>1, <2>2, <2>3, <2>4, <2>5 DEF Walking
<1> QED BY <1>3, <1>4, <1>7 DEF CoverInv

\* A joined walker has nothing left to give.
LEMMA JoinCover ==
    ASSUME TypeOK, HandlesInv, CoverInv, NEW t \in Threads,
           pc[t] \in JoinLabels, Joined(t), UNCHANGED <<skip, serving, messages>>
    PROVE  CoverInv'
<1>1. /\ joining[t] \in Walkers /\ walk'[joining[t]] = Idle
      /\ \A v \in Walkers : v # joining[t] => /\ walk'[v] = walk[v]
                                              /\ channel'[v] = channel[v]
  BY JoinedFacts
<1>2. \A c : Taken(c)' = Taken(c)
  BY DEF Taken
<1>3. ASSUME NEW v \in Walkers PROVE Covering(v)'
  <2>1. CASE v = joining[t]
    BY <1>1, <2>1 DEF Covering, Live, Idle
  <2>2. CASE v # joining[t]
    BY <1>1, <1>2, <2>2, SameLonger, CoveringFrame DEF CoverInv
  <2> QED BY <2>1, <2>2
<1>4. TakenWhole' /\ IndexWhole'
  BY DEF CoverInv, TakenWhole, IndexWhole
<1> QED BY <1>3, <1>4 DEF CoverInv

LEMMA UICoverStep ==
    ASSUME TypeOK, HandlesInv, CheckpointsInv, CoverInv,
           \/ Events \/ TickStart \/ SpawnWalker \/ CancelJoin
           \/ \E c \in Collections : TickDrain(c) \/ DropCancel(c)
           \/ TickEnd \/ DropJoin \/ DropEnd
    PROVE  CoverInv'
<1>0. /\ walk \in [Walkers -> WalkType]
      /\ walkers \in [Collections -> Walkers \union {NoWalker}]
      /\ serving \in [Threads -> Collections] /\ UI \in Threads
  BY DEF TypeOK, Threads
<1>1. CASE \/ \E c \in Collections : SpawnLock(c) \/ TickDrain(c)
           \/ Quit \/ TickStart \/ TickEnd \/ DropEnd
  <2>1. /\ UNCHANGED <<walk, channel, skip, messages>>
        /\ pc[UI] \in {"input", "tick"} \/ UNCHANGED serving
        /\ \A t \in Threads : t # UI => serving'[t] = serving[t]
    BY <1>0, <1>1 DEF SpawnLock, TickDrain, Quit, TickStart, TickEnd, DropEnd,
                      walkVars, indexVars
  <2>2. pc[UI] \in {"input", "tick"} => messages[UI] = << >>
    BY <1>0 DEF CheckpointsInv, DrainSound
  <2> QED BY <2>1, <2>2, SameLonger, QuietCover
<1>2. CASE SpawnWalker
  <2>1. UNCHANGED <<serving, messages, channel, skip>>
    BY <1>2 DEF SpawnWalker, walkVars, indexVars
  <2>2. CASE UNCHANGED walk
    BY <2>1, <2>2, SameLonger, QuietCover
  <2>3. CASE ~UNCHANGED walk
    <3>1. PICK w \in Walkers :
            /\ walk[w].state = "free"
            /\ walk' = [walk EXCEPT ![w] = [Idle EXCEPT !.state = "walking",
                                                        !.collection = serving[UI],
                                                        !.at = Head1(serving[UI])]]
      BY <1>2, <2>3 DEF SpawnWalker, walkVars
    <3>2. /\ walk'[w].state = "walking" /\ walk'[w].count = 0 /\ walk'[w].buffer = << >>
          /\ \A v \in Walkers : v # w => walk'[v] = walk[v]
      BY <1>0, <3>1 DEF Idle
    <3>3. channel'[w] = << >>
      BY <2>1, <3>1 DEF CheckpointsInv, WalkerSound, Live
    <3>4. \A c : Taken(c)' = Taken(c)
      BY <2>1 DEF Taken
    <3>5. ASSUME NEW v \in Walkers PROVE Covering(v)'
      <4>1. CASE v = w
        <5>1. Held(w)' = {}
          BY <3>2, <3>3, NoEntries DEF Held
        <5>2. Ordered(w)'
          BY <3>2, <3>3, <5>1, NoEntries DEF Ordered, Below
        <5>3. \A i \in Nat : ~(i * SkipInterval < 0)
          BY Multiples
        <5>4. Follows(w, {})'
          BY <3>2, <5>1, <5>3 DEF Follows, Below, Reaches
        <5> QED BY <4>1, <5>2, <5>4 DEF Covering
      <4>2. CASE v # w
        BY <2>1, <3>2, <3>4, <4>2, SameLonger, CoveringFrame DEF CoverInv
      <4> QED BY <4>1, <4>2
    <3>6. TakenWhole' /\ IndexWhole'
      BY <2>1 DEF CoverInv, TakenWhole, IndexWhole
    <3> QED BY <3>5, <3>6 DEF CoverInv
  <2> QED BY <2>2, <2>3
<1>3. ASSUME NEW c \in Collections, Cancel(c) \/ DropCancel(c)
      PROVE  CoverInv'
  <2>1. /\ walk' = [walk EXCEPT ![walkers[c]].cancel = TRUE]
        /\ walkers[c] \in Walkers
        /\ UNCHANGED <<channel, skip, messages, serving>>
    BY <1>0, <1>3 DEF Cancel, DropCancel, CancelWalker, indexVars
  <2>2. \A v \in Walkers : /\ walk'[v].state = walk[v].state
                           /\ walk'[v].collection = walk[v].collection
                           /\ walk'[v].count = walk[v].count
                           /\ walk'[v].buffer = walk[v].buffer
    BY <1>0, <2>1 DEF WalkType
  <2>3. \A d : Taken(d)' = Taken(d)
    BY <2>1 DEF Taken
  <2>4. ASSUME NEW v \in Walkers PROVE Covering(v)'
    BY <2>1, <2>2, <2>3, SameLonger, CoveringFrame DEF CoverInv
  <2>5. TakenWhole' /\ IndexWhole'
    BY <2>1 DEF CoverInv, TakenWhole, IndexWhole
  <2> QED BY <2>4, <2>5 DEF CoverInv
<1>4. CASE CancelJoin \/ DropJoin
  BY <1>0, <1>4, JoinCover DEF CancelJoin, DropJoin, JoinLabels, indexVars
<1> QED BY <1>1, <1>2, <1>3, <1>4 DEF Events

\* The drain takes a channel over as it is, when nothing taken before is left.
LEMMA TakeCover ==
    ASSUME TypeOK, HandlesInv, CheckpointsInv, AnnounceInv, CoverInv, TakenApart',
           NEW t \in Threads, DrainTake(t)
    PROVE  CoverInv'
<1> DEFINE c == serving[t]
           w == walkers[c]
<1>0. /\ channel \in [Walkers -> Seq(Messages)]
      /\ messages \in [Threads -> Seq(Messages)]
      /\ walkers \in [Collections -> Walkers \union {NoWalker}]
      /\ c \in Collections
  BY ElementTypes DEF TypeOK
<1>1. /\ pc[t] = "drain" /\ messages[t] = << >>
      /\ UNCHANGED <<walk, walkers, skip, serving>>
      /\ \A u \in Threads : u # t => messages'[u] = messages[u]
  BY <1>0 DEF DrainTake, indexVars, CheckpointsInv, DrainSound
<1>2. CASE w = NoWalker \/ channel[w] = << >>
  <2>1. UNCHANGED <<messages, channel>>
    BY <1>0, <1>1, <1>2 DEF DrainTake
  <2> QED BY <1>1, <2>1, SameLonger, QuietCover
<1>3. CASE w # NoWalker /\ channel[w] # << >>
  <2>1. /\ w \in Walkers /\ messages'[t] = channel[w] /\ channel'[w] = << >>
        /\ \A v \in Walkers : v # w => channel'[v] = channel[v]
    BY <1>0, <1>3 DEF DrainTake
  <2>2. Live(w) /\ walk[w].collection = c
    BY <1>0, <1>3 DEF HandlesInv
  <2>3. \A v \in Walkers : Live(v) /\ v # w => walk[v].collection # c
    <3>1. \A u \in Threads : joining[u] = NoWalker
      BY <1>0, NobodyJoins DEF DrainTake
    <3> QED BY <1>0, <3>1, ThreadsAssumption DEF HandlesInv
  <2>4. \A u \in Threads : serving[u] = c => messages[u] = << >>
    BY <1>1, <1>3, <2>1 DEF TakenApart
  <2>5. /\ Taken(c) = {} /\ Taken(c)' = EntriesIn(channel[w])
        /\ \A d : d # c => Taken(d)' = Taken(d)
    <3>1. Taken(c) = {}
      BY <2>4, NothingTaken
    <3>2. Taken(c)' = EntriesIn(channel[w])
      BY <1>1, <2>1, <2>4, NoEntries DEF Taken, EntriesIn
    <3>3. ASSUME NEW d, d # c PROVE Taken(d)' = Taken(d)
      BY <1>1, <3>3 DEF Taken
    <3> QED BY <3>1, <3>2, <3>3
  <2>6. Covering(w) /\ Ordered(w) /\ Announced(w)
    BY <2>1, <2>2 DEF CoverInv, AnnounceInv, Covering
  <2>7. walk[w].state \notin {"free", "panicked"} =>
          Reaches(skip[c], walk[w].count, Held(w))
    <3>1. {} \union Held(w) = Held(w)
      OBVIOUS
    <3> QED BY <2>2, <2>5, <2>6, <3>1 DEF Covering, Follows
  <2>8. ASSUME NEW v \in Walkers PROVE Covering(v)'
    <3>1. CASE v = w
      <4>1. walk[v].collection = c /\ Ordered(v) /\ channel'[v] = << >>
        BY <2>1, <2>2, <2>6, <3>1
      <4>2. /\ Held(v)' = Entries(walk[v].buffer)
            /\ Held(v) = Taken(c)' \union Held(v)'
            /\ Taken(walk[v].collection)' = Taken(c)'
        <5>1. Held(v)' = Entries(walk[v].buffer)
          BY <1>1, <4>1, NoEntries DEF Held
        <5>2. Taken(walk[v].collection)' = Taken(c)'
          BY <1>1, <4>1 DEF Taken
        <5> QED BY <2>5, <3>1, <5>1, <5>2 DEF Held
      <4>3. Ordered(v)'
        BY <1>1, <4>1, <4>2, NoEntries DEF Ordered, Below, Held
      <4>4. Below(Taken(c)', Held(v)') /\ Below(Taken(c)', {walk[v].count})
        BY <2>5, <3>1, <4>1, <4>2 DEF Ordered, Below, Held
      <4>5. walk'[v].state \notin {"free", "panicked"} =>
              Follows(v, Taken(walk[v].collection))'
        BY <1>1, <2>7, <3>1, <4>1, <4>2, <4>4 DEF Follows
      <4> QED BY <4>3, <4>5 DEF Covering
    <3>2. CASE v # w
      BY <1>1, <2>1, <2>3, <2>5, <3>2, SameLonger, CoveringFrame DEF CoverInv
    <3> QED BY <3>1, <3>2
  <2>9. TakenWhole'
    <3>1. ASSUME HasComplete(channel[w])
          PROVE  Reaches(skip[c], Len(Chain[c]), EntriesIn(channel[w]))
      <4>1. walk[w].state \in {"returning", "exited"} /\ walk[w].at = End
        BY <2>6, <3>1 DEF Announced
      <4>2. walk[w].count = Len(Chain[c])
        <5>1. /\ walk[w].at = NodeAt(c, walk[w].count)
              /\ walk[w].count <= Len(Chain[c]) /\ walk[w].count \in Nat
          BY <2>1, <2>2 DEF CheckpointsInv, WalkerSound, TypeOK, WalkType
        <5> QED BY <1>0, <4>1, <5>1, NullAtEnd
      <4>3. Held(w) = EntriesIn(channel[w])
        BY <2>6, <4>1, NoEntries DEF Held, Ordered
      <4> QED BY <2>7, <4>1, <4>2, <4>3
    <3>2. ASSUME NEW u \in Threads
          PROVE  /\ Ascending(messages'[u])
                 /\ HasComplete(messages'[u]) =>
                      Reaches(skip[serving[u]], Len(Chain[serving[u]]),
                              EntriesIn(messages'[u]))
      <4>1. CASE u = t
        BY <2>1, <2>6, <3>1, <4>1 DEF Ordered
      <4>2. CASE u # t
        BY <1>1, <4>2 DEF CoverInv, TakenWhole
      <4> QED BY <4>1, <4>2
    <3> QED BY <1>1, <3>2 DEF TakenWhole
  <2>10. IndexWhole'
    BY <1>1 DEF CoverInv, IndexWhole
  <2> QED BY <2>8, <2>9, <2>10 DEF CoverInv
<1> QED BY <1>2, <1>3

\* The checkpoints taken are applied in order, none of them after a later one.
LEMMA ApplyBatchCover ==
    ASSUME TypeOK, CoverInv, TakenApart, NEW t \in Threads, ApplyBatch(t)
    PROVE  CoverInv'
<1> DEFINE c    == serving[t]
           ms   == messages[t]
           rest == Head(ms).checkpoints
           si   == skip[c]
<1>0. /\ messages \in [Threads -> Seq(Messages)]
      /\ ms \in Seq(Messages) /\ c \in Collections
      /\ skip \in [Collections -> SI!Indexes] /\ si \in SI!Indexes
      /\ ms # << >> /\ Head(ms).type = "Batch" /\ Ascending(ms)
      /\ UNCHANGED <<walk, channel, serving>>
  BY ElementTypes DEF TypeOK, ApplyBatch, walkVars, CoverInv, TakenWhole
<1>1. CASE rest = << >>
  <2>1. messages' = [messages EXCEPT ![t] = Tail(ms)] /\ UNCHANGED skip
    BY <1>0, <1>1 DEF ApplyBatch
  <2>2. /\ Ascending(Tail(ms)) /\ EntriesIn(Tail(ms)) = EntriesIn(ms)
        /\ HasComplete(Tail(ms)) <=> HasComplete(ms)
    BY <1>0, <1>1, BatchOver
  <2>3. \A u \in Threads : messages'[u] = IF u = t THEN Tail(ms) ELSE messages[u]
    BY <1>0, <2>1
  <2>4. \A d : Taken(d)' = Taken(d)
    BY <1>0, <2>2, <2>3, TakenFrame
  <2>5. ASSUME NEW v \in Walkers PROVE Covering(v)'
    BY <1>0, <2>1, <2>4, SameLonger, CoveringFrame DEF CoverInv
  <2>6. TakenWhole' /\ IndexWhole'
    BY <1>0, <2>1, <2>2, <2>3 DEF CoverInv, TakenWhole, IndexWhole
  <2> QED BY <2>5, <2>6 DEF CoverInv
<1>2. CASE rest # << >>
  <2> DEFINE e   == Head(rest)[1]
             new == <<Batch(Tail(rest))>> \o Tail(ms)
  <2>1. /\ e \in Nat /\ Ascending(new)
        /\ HasComplete(new) <=> HasComplete(ms)
        /\ Below({e}, EntriesIn(new)) /\ EntriesIn(ms) = EntriesIn(new) \union {e}
    BY <1>0, <1>2, BatchPutBack
  <2>2. Head(rest)[2] \in Nodes
    BY <1>0, <1>2, FrontMessage, FrontCheckpoint
  <2>3. /\ messages' = [messages EXCEPT ![t] = new]
        /\ skip' = [skip EXCEPT ![c] = SI!Record(si, e, Head(rest)[2])]
    BY <1>0, <1>2 DEF ApplyBatch
  <2>4. /\ skip'[c] = SI!Record(si, e, Head(rest)[2])
        /\ \A d \in Collections : d # c => skip'[d] = skip[d]
    BY <1>0, <2>3
  <2>5. /\ \A d \in Collections : Longer(skip[d], skip'[d])
        /\ skip'[c].complete = si.complete
    <3>1. /\ Longer(si, SI!Record(si, e, Head(rest)[2]))
          /\ SI!Record(si, e, Head(rest)[2]).complete = si.complete
      BY <1>0, <2>1, <2>2, RecordLonger
    <3> QED BY <2>4, <3>1, SameLonger
  <2> HIDE DEF e, new
  <2>6. \A u \in Threads : messages'[u] = IF u = t THEN new ELSE messages[u]
    BY <1>0, <2>3
  <2>7. \A u \in Threads : u # t /\ serving[u] = c => messages[u] = << >>
    BY <1>0 DEF TakenApart
  <2>8. /\ Taken(c) = EntriesIn(new) \union {e} /\ Taken(c)' = EntriesIn(new)
        /\ \A d : d # c => Taken(d)' = Taken(d)
    <3>1. Taken(c) = EntriesIn(ms)
      BY <2>7, NoEntries DEF Taken, EntriesIn
    <3>2. Taken(c)' = EntriesIn(new)
      BY <1>0, <2>6, <2>7, NoEntries DEF Taken, EntriesIn
    <3>3. ASSUME NEW d, d # c PROVE Taken(d)' = Taken(d)
      BY <1>0, <2>6, <3>3 DEF Taken
    <3> QED BY <2>1, <3>1, <3>2, <3>3
  <2>9. ASSUME NEW n \in Nat, NEW P, Reaches(si, n, P \union {e}), Below({e}, P)
        PROVE  Reaches(skip'[c], n, P)
    BY <1>0, <2>1, <2>2, <2>4, <2>9, RecordReaches
  <2>10. ASSUME NEW v \in Walkers PROVE Covering(v)'
    <3>0. walk[v].collection \in Collections /\ walk[v].count \in Nat
      BY DEF TypeOK, WalkType
    <3>1. CASE walk[v].collection # c
      BY <1>0, <2>5, <2>8, <3>0, <3>1, CoveringFrame DEF CoverInv
    <3>2. CASE walk[v].collection = c /\ Live(v)
      <4>1. Ordered(v) /\ Covering(v) /\ Held(v)' = Held(v)
        BY <1>0, <3>2 DEF CoverInv, Covering, Held
      <4>2. Ordered(v)'
        BY <1>0, <4>1 DEF Ordered
      <4>3. Follows(v, {}) => Follows(v, {})'
        BY <1>0, <2>5, <3>0, <3>2, <4>1, LongerReaches DEF Follows
      <4>4. ASSUME Follows(v, Taken(c))
            PROVE  Follows(v, Taken(walk[v].collection))'
        <5> DEFINE P == EntriesIn(new) \union Held(v)
        <5>1. Taken(c) \union Held(v) = P \union {e} /\ EntriesIn(new) \subseteq Taken(c)
          BY <2>8
        <5>2. Below({e}, P)
          BY <2>1, <2>8, <4>4 DEF Follows, Below
        <5>3. Reaches(si, walk[v].count, P \union {e})
          BY <3>2, <4>4, <5>1 DEF Follows
        <5>4. Reaches(skip'[c], walk[v].count, P)
          BY <2>9, <3>0, <5>2, <5>3
        <5>5. Below(EntriesIn(new), Held(v)) /\ Below(EntriesIn(new), {walk[v].count})
          BY <4>4, <5>1 DEF Follows, Below
        <5>6. Taken(walk[v].collection)' = EntriesIn(new)
          BY <1>0, <2>8, <3>2 DEF Taken
        <5> QED BY <1>0, <3>2, <4>1, <5>4, <5>5, <5>6 DEF Follows
      <4>5. Covering(v)'
        BY <1>0, <3>2, <4>1, <4>2, <4>3, <4>4 DEF Covering
      <4> QED BY <4>5
    <3>3. CASE ~Live(v)
      BY <1>0, <3>3 DEF Covering, Live
    <3> QED BY <3>1, <3>2, <3>3
  <2>11. TakenWhole'
    <3>1. ASSUME NEW u \in Threads
          PROVE  /\ Ascending(messages'[u])
                 /\ HasComplete(messages'[u]) =>
                      Reaches(skip'[serving[u]], Len(Chain[serving[u]]),
                              EntriesIn(messages'[u]))
      <4>1. CASE u = t
        <5>1. HasComplete(ms) => Reaches(si, Len(Chain[c]), EntriesIn(new) \union {e})
          BY <2>1 DEF CoverInv, TakenWhole
        <5>2. HasComplete(ms) => Reaches(skip'[c], Len(Chain[c]), EntriesIn(new))
          BY <1>0, <2>1, <2>9, <5>1, ChainType
        <5> QED BY <2>1, <2>6, <4>1, <5>2
      <4>2. CASE u # t
        BY <2>5, <2>6, <4>2, ElementTypes, LongerReaches DEF CoverInv, TakenWhole
      <4> QED BY <4>1, <4>2
    <3> QED BY <1>0, <3>1 DEF TakenWhole
  <2>12. IndexWhole'
    <3> SUFFICES ASSUME NEW d \in Collections, skip'[d].complete
                 PROVE  Reaches(skip'[d], Len(Chain[d]), {})
      BY DEF IndexWhole
    <3>1. skip[d].complete
      BY <2>4, <2>5
    <3> QED BY <2>5, <3>1, LongerReaches DEF CoverInv, IndexWhole
  <2> QED BY <2>10, <2>11, <2>12 DEF CoverInv
<1> QED BY <1>1, <1>2

\* Nothing is behind the Complete: what it promises is in the index.
LEMMA ApplyCompleteCover ==
    ASSUME TypeOK, CoverInv, NEW t \in Threads, ApplyComplete(t)
    PROVE  CoverInv'
<1> DEFINE c  == serving[t]
           ms == messages[t]
<1>0. /\ messages \in [Threads -> Seq(Messages)]
      /\ ms \in Seq(Messages) /\ c \in Collections
      /\ skip \in [Collections -> SI!Indexes]
      /\ UNCHANGED <<walk, channel, serving>>
      /\ ms # << >> /\ Head(ms).type = "Complete" /\ Ascending(ms)
      /\ messages' = [messages EXCEPT ![t] = Tail(ms)]
  BY ElementTypes DEF TypeOK, ApplyComplete, walkVars, CoverInv, TakenWhole
<1>1. HasComplete(ms) /\ Tail(ms) = << >> /\ EntriesIn(ms) = {}
  BY <1>0, CompleteFront
<1>2. \A u \in Threads : messages'[u] = IF u = t THEN << >> ELSE messages[u]
  BY <1>0, <1>1
<1>3. \A d \in Collections : /\ skip'[d].checkpoints = skip[d].checkpoints
                             /\ d # c => skip'[d] = skip[d]
  BY <1>0 DEF ApplyComplete, SI!MarkComplete, SI!Indexes
<1>4. \A d \in Collections : Longer(skip[d], skip'[d])
  BY <1>3 DEF Longer
<1>5. \A d : Taken(d)' = Taken(d)
  BY <1>0, <1>1, <1>2, NoEntries, TakenFrame
<1>6. ASSUME NEW v \in Walkers PROVE Covering(v)'
  <2>1. walk[v].collection \in Collections
    BY DEF TypeOK, WalkType
  <2> QED BY <1>0, <1>4, <1>5, <2>1, CoveringFrame DEF CoverInv
<1>7. TakenWhole'
  BY <1>0, <1>2, <1>4, ElementTypes, NoEntries, LongerReaches DEF CoverInv, TakenWhole
<1>8. IndexWhole'
  <2>1. Reaches(skip[c], Len(Chain[c]), {})
    BY <1>1 DEF CoverInv, TakenWhole
  <2> QED BY <1>3, <1>4, <2>1, LongerReaches DEF CoverInv, IndexWhole
<1> QED BY <1>6, <1>7, <1>8 DEF CoverInv

-----------------------------------------------------------------------------
(* A page marks the index complete only after it has itself recorded every   *)
(* checkpoint up to the end of the chain.                                    *)

\* The holder of skip_indexes alone applies or extracts; a page in the making
\* has the checkpoints behind it in the index.
SkipLocked == \A t \in Threads : pc[t] \in {"applying", "extracting"} => skipLock = t
Reached(p) == extract[p].base + Len(extract[p].items)
PageCovers(p) ==
    pc[p] = "extracting" /\ serving[p] \in indexed =>
        Reaches(skip[serving[p]], Reached(p), {})
PageInv == SkipLocked /\ \A p \in Pagers : PageCovers(p)

LEMMA InitPage == Init => PageInv
BY ThreadsAssumption DEF Init, PageInv, SkipLocked, PageCovers, Threads

\* Steps of which a page in the making sees nothing.
LEMMA QuietPage ==
    ASSUME PageInv,
           UNCHANGED <<skipLock, indexed, skip, extract>>,
           \A t \in Threads : pc'[t] \in {"applying", "extracting"} =>
              pc'[t] = pc[t] /\ serving'[t] = serving[t]
    PROVE  PageInv'
BY DEF PageInv, SkipLocked, PageCovers, Reached, Threads

LEMMA DrainPage ==
    ASSUME TypeOK, PageInv, NEW t \in Threads, DrainWalker(t)
    PROVE  PageInv'
<1>0. pc \in [Threads -> Labels] /\ t # NoThread /\ Pagers \subseteq Threads
  BY ThreadsAssumption DEF TypeOK, Threads
<1>1. CASE DrainTake(t) \/ DrainRemove(t) \/ DrainJoin(t)
  <2>1. /\ UNCHANGED <<skipLock, indexed, skip, extract, serving>>
        /\ \A u \in Threads : pc'[u] \in {"applying", "extracting"} => pc'[u] = pc[u]
    BY <1>0, <1>1 DEF DrainTake, DrainRemove, DrainJoin, Goto, Resume, locks, indexVars,
                      pageVars
  <2> QED BY <2>1, QuietPage
<1>2. CASE DrainApply(t) \/ ApplyBatch(t) \/ ApplyComplete(t) \/ DrainDone(t)
  <2>1. \A u \in Threads : u # t => pc[u] \notin {"applying", "extracting"}
    BY <1>0, <1>2, ThreadsAssumption
    DEF PageInv, SkipLocked, DrainApply, ApplyBatch, ApplyComplete, DrainDone
  <2>2. /\ pc'[t] # "extracting" /\ (pc'[t] = "applying" => skipLock' = t)
        /\ \A u \in Threads : u # t => pc'[u] = pc[u]
    BY <1>0, <1>2 DEF PageInv, SkipLocked, DrainApply, ApplyBatch, ApplyComplete,
                      DrainDone, Goto, Resume, locks
  <2> QED BY <1>0, <2>1, <2>2 DEF PageInv, SkipLocked, PageCovers
<1> QED BY <1>1, <1>2 DEF DrainWalker

\* The node is recorded if its entry is the next boundary.
LEMMA NodeRecorded ==
    ASSUME NEW si \in SI!Indexes, NEW n \in Nat, NEW node \in Nodes, Reaches(si, n, {})
    PROVE  Reaches(SI!Record(si, n, node), n + 1, {})
<1>1. Reaches(si, n + 1, {} \union {n})
  BY OneFurther
<1> QED BY <1>1, RecordReaches DEF Below

LEMMA PagerPage ==
    ASSUME TypeOK, PageInv, NEW p \in Pagers,
           \/ ExtractBegin(p) \/ ExtractNode(p) \/ ExtractEnd(p) \/ Return(p)
           \/ \E c \in Collections, r \in Requests : GetPage(p, c, r)
    PROVE  PageInv'
<1> DEFINE c == serving[p]
           e == extract[p]
<1>0. /\ pc \in [Threads -> Labels] /\ serving \in [Threads -> Collections]
      /\ p \in Threads /\ Pagers \subseteq Threads /\ p # NoThread
      /\ extract \in [Pagers -> [base : Nat, at : Nodes \union {End}, items : Seq(Nodes)]]
      /\ skip \in [Collections -> SI!Indexes] /\ c \in Collections
      /\ e.base \in Nat /\ e.items \in Seq(Nodes) /\ e.at \in Nodes \union {End}
  BY ElementTypes, ThreadsAssumption DEF TypeOK, Threads
<1>1. CASE Return(p) \/ \E d \in Collections, r \in Requests : GetPage(p, d, r)
  <2>1. /\ UNCHANGED <<skipLock, indexed, skip, extract>>
        /\ \A u \in Threads : pc'[u] \in {"applying", "extracting"} =>
              pc'[u] = pc[u] /\ serving'[u] = serving[u]
    BY <1>0, <1>1 DEF Return, GetPage, Goto, locks, indexVars
  <2> QED BY <2>1, QuietPage
<1>2. CASE ExtractBegin(p) \/ ExtractNode(p) \/ ExtractEnd(p)
  <2>1. \A u \in Threads : u # p => pc[u] \notin {"applying", "extracting"}
    BY <1>0, <1>2, ThreadsAssumption
    DEF PageInv, SkipLocked, ExtractBegin, ExtractNode, ExtractEnd
  <2>2. /\ \A u \in Threads : u # p => pc'[u] = pc[u]
        /\ pc'[p] \in {"applying", "extracting"} => skipLock' = p
        /\ UNCHANGED serving
    BY <1>0, <1>2 DEF PageInv, SkipLocked, ExtractBegin, ExtractNode, ExtractEnd, Goto,
                      locks
  <2>3. ASSUME pc'[p] = "extracting", c \in indexed'
        PROVE  Reaches(skip'[c], Reached(p)', {})
    <3>1. CASE ExtractBegin(p)
      <4> DEFINE near == SI!NearestBefore(skip[c], request[p].offset)
      <4>1. /\ skip' = skip
            /\ extract'[p] = IF request[p].offset > 0 /\ skip[c].checkpoints # << >>
                             THEN [base |-> near.index, at |-> near.node, items |-> << >>]
                             ELSE [base |-> 0, at |-> Head1(c), items |-> << >>]
        BY <1>0, <3>1 DEF ExtractBegin
      <4>2. CASE request[p].offset > 0 /\ skip[c].checkpoints # << >>
        <5> DEFINE i == SI!NearestPosition(skip[c], request[p].offset)
        <5>1. /\ i \in 0..(Len(skip[c].checkpoints) - 1) /\ i * SkipInterval \in Nat
              /\ Len(skip[c].checkpoints) \in Nat
          BY <1>0, <4>2, ElementTypes, NearestBounds, IndexLength
        <5>2. extract'[p].base = i * SkipInterval /\ extract'[p].items = << >>
          BY <4>1, <4>2 DEF SI!NearestBefore
        <5> HIDE DEF i
        <5>3. Reached(p)' = i * SkipInterval
          BY <5>1, <5>2 DEF Reached
        <5>4. ASSUME NEW k \in Nat, k * SkipInterval < i * SkipInterval
              PROVE  k < Len(skip[c].checkpoints)
          <6>1. i \in Nat
            BY <5>1
          <6>2. k * SkipInterval \in Nat /\ (i < k => i * SkipInterval < k * SkipInterval)
            BY <6>1, Multiples
          <6>3. k < i
            BY <5>1, <5>4, <6>1, <6>2
          <6> QED BY <5>1, <6>3
        <5> QED BY <4>1, <5>3, <5>4 DEF Reaches
      <4>3. CASE ~(request[p].offset > 0 /\ skip[c].checkpoints # << >>)
        <5>1. Reached(p)' = 0
          BY <4>1, <4>3 DEF Reached
        <5>2. \A k \in Nat : ~(k * SkipInterval < 0)
          BY Multiples
        <5> QED BY <5>1, <5>2 DEF Reaches
      <4> QED BY <4>2, <4>3
    <3>2. CASE ExtractNode(p)
      <4>1. /\ e.at \in Nodes /\ pc[p] = "extracting" /\ indexed' = indexed
            /\ skip'[c] = SI!Record(skip[c], Reached(p), e.at)
            /\ extract'[p].base = e.base /\ extract'[p].items = Append(e.items, e.at)
        BY <1>0, <2>3, <3>2 DEF ExtractNode, WantsMore, Reached
      <4>2. Reached(p) \in Nat /\ Reached(p)' = Reached(p) + 1
        BY <1>0, <4>1 DEF Reached
      <4>3. Reaches(skip[c], Reached(p), {})
        BY <2>3, <4>1 DEF PageInv, PageCovers
      <4> QED BY <1>0, <4>1, <4>2, <4>3, NodeRecorded
    <3>3. CASE ExtractEnd(p)
      BY <1>0, <2>3, <3>3 DEF ExtractEnd, Goto
    <3> QED BY <1>2, <3>1, <3>2, <3>3
  <2>4. \A u \in Pagers : PageCovers(u)'
    BY <1>0, <2>1, <2>2, <2>3 DEF PageCovers
  <2> QED BY <2>1, <2>2, <2>4 DEF PageInv, SkipLocked
<1> QED BY <1>1, <1>2

LEMMA PageStep == IInv /\ PageInv /\ [Next]_vars => PageInv'
<1> SUFFICES ASSUME IInv, PageInv, [Next]_vars PROVE PageInv'
  OBVIOUS
<1> USE DEF IInv
<1>0. pc \in [Threads -> Labels] /\ serving \in [Threads -> Collections]
  BY DEF TypeOK
<1>1. CASE \E w \in Walkers : Walking(w) \/ WalkPanic(w)
  <2>1. UNCHANGED <<skipLock, indexed, skip, extract, pc, serving>>
    BY <1>1 DEF Walking, WalkNode, WalkFlush, WalkComplete, WalkExit, WalkPanic, locks,
                indexVars, pageVars
  <2> QED BY <2>1, QuietPage
<1>2. CASE \/ Events \/ TickStart \/ SpawnWalker \/ CancelJoin
           \/ \E c \in Collections : TickDrain(c) \/ DropCancel(c)
           \/ TickEnd \/ DropJoin \/ DropEnd
  <2>1. /\ UNCHANGED <<skipLock, indexed, skip, extract>>
        /\ \A t \in Threads : pc'[t] \in {"applying", "extracting"} =>
              pc'[t] = pc[t] /\ serving'[t] = serving[t]
    BY <1>0, <1>2
    DEF Events, SpawnLock, Cancel, CancelWalker, Quit, TickStart, SpawnWalker, CancelJoin,
        TickDrain, DropCancel, TickEnd, DropJoin, DropEnd, Goto, locks, indexVars,
        pageVars
  <2> QED BY <2>1, QuietPage
<1>3. CASE DrainWalker(UI)
  BY <1>3, DrainPage DEF Threads
<1>4. ASSUME NEW p \in Pagers,
             \/ Paging(p)
             \/ \E c \in Collections, r \in Requests : GetPage(p, c, r)
      PROVE  PageInv'
  BY <1>4, DrainPage, PagerPage DEF Paging, Threads
<1>5. CASE UNCHANGED vars
  BY <1>5, QuietPage DEF vars, locks, indexVars, pageVars
<1> QED BY <1>1, <1>2, <1>3, <1>4, <1>5 DEF Next, Ticking, Stopped

LEMMA PagerCover ==
    ASSUME TypeOK, CheckpointsInv, ExtractInv, PageInv, CoverInv, NEW p \in Pagers,
           \/ ExtractBegin(p) \/ ExtractNode(p) \/ ExtractEnd(p) \/ Return(p)
           \/ \E c \in Collections, r \in Requests : GetPage(p, c, r)
    PROVE  CoverInv'
<1> DEFINE c == serving[p]
           e == extract[p]
<1>0. /\ skip \in [Collections -> SI!Indexes] /\ c \in Collections
      /\ e.base \in Nat /\ e.items \in Seq(Nodes) /\ e.at \in Nodes \union {End}
      /\ Reached(p) \in Nat
      /\ request[p].offset \in Nat /\ request[p].limit \in Nat
      /\ p \in Threads /\ Len(Chain[c]) \in Nat
  <2>1. /\ skip \in [Collections -> SI!Indexes] /\ c \in Collections
        /\ e.base \in Nat /\ e.items \in Seq(Nodes) /\ e.at \in Nodes \union {End}
        /\ request[p].offset \in Nat /\ request[p].limit \in Nat
        /\ p \in Threads
    BY ElementTypes DEF TypeOK, Threads
  <2> HIDE DEF c, e
  <2>2. Len(Chain[c]) \in Nat /\ Len(e.items) \in Nat
    BY <2>1, ChainType
  <2> QED BY <2>1, <2>2 DEF Reached, e
<1>1. /\ UNCHANGED <<walk, channel, messages>>
      /\ \A t \in Threads : serving'[t] = serving[t] \/ messages[t] = << >>
  <2>1. serving'[p] = serving[p] \/ messages[p] = << >>
    BY <1>0, PagerStepFacts DEF CheckpointsInv, DrainSound
  <2> QED BY <2>1, PagerStepFacts
<1>2. /\ \A d \in Collections : Longer(skip[d], skip'[d])
      /\ \A d \in Collections : skip'[d].complete =>
           skip[d].complete \/ Reaches(skip[d], Len(Chain[d]), {})
  <2>1. CASE ExtractBegin(p) \/ Return(p)
             \/ \E d \in Collections, r \in Requests : GetPage(p, d, r)
    <3>1. UNCHANGED skip
      BY <2>1 DEF ExtractBegin, Return, GetPage, indexVars
    <3> QED BY <3>1, SameLonger
  <2>2. CASE ExtractNode(p)
    <3>1. /\ \A d \in Collections : d # c => skip'[d] = skip[d]
          /\ skip'[c] = skip[c] \/ skip'[c] = SI!Record(skip[c], Reached(p), e.at)
          /\ e.at \in Nodes
      BY <1>0, <2>2 DEF ExtractNode, WantsMore, Reached
    <3>2. /\ Longer(skip[c], SI!Record(skip[c], Reached(p), e.at))
          /\ SI!Record(skip[c], Reached(p), e.at).complete = skip[c].complete
      BY <1>0, <3>1, RecordLonger
    <3> QED BY <3>1, <3>2, SameLonger
  <2>3. CASE ExtractEnd(p)
    <3>1. /\ \A d \in Collections : /\ skip'[d].checkpoints = skip[d].checkpoints
                                    /\ d # c => skip'[d] = skip[d]
          /\ skip'[c].complete => skip[c].complete \/ (c \in indexed /\ Traversed(p))
          /\ pc[p] = "extracting" /\ ~WantsMore(p)
      BY <1>0, <2>3 DEF ExtractEnd, SI!MarkComplete, SI!Indexes
    <3>2. ASSUME c \in indexed, Traversed(p)
          PROVE  Reaches(skip[c], Len(Chain[c]), {})
      <4>1. Reaches(skip[c], Reached(p), {})
        BY <3>1, <3>2 DEF PageInv, PageCovers
      <4>2. e.at = End
        BY <1>0, <3>1, <3>2 DEF WantsMore, Traversed
      <4>3. Reached(p) <= Len(Chain[c]) /\ e.at = NodeAt(c, Reached(p))
        BY <3>1 DEF ExtractInv, ExtractSound, Reached
      <4> QED BY <1>0, <4>1, <4>2, <4>3, NullAtEnd
    <3> QED BY <3>1, <3>2 DEF Longer
  <2> QED BY <2>1, <2>2, <2>3
<1> QED BY <1>1, <1>2, QuietCover

LEMMA DrainCover ==
    ASSUME TypeOK, HandlesInv, CheckpointsInv, AnnounceInv, CoverInv,
           TakenApart, TakenApart', NEW t \in Threads, DrainWalker(t)
    PROVE  CoverInv'
<1>1. CASE DrainRemove(t) \/ DrainApply(t) \/ DrainDone(t)
  <2>1. UNCHANGED <<walk, channel, skip, serving, messages>>
    BY <1>1 DEF DrainRemove, DrainApply, DrainDone, walkVars, indexVars
  <2> QED BY <2>1, SameLonger, QuietCover
<1>2. CASE DrainJoin(t)
  BY <1>2, JoinCover DEF DrainJoin, JoinLabels, indexVars
<1> QED BY <1>1, <1>2, TakeCover, ApplyBatchCover, ApplyCompleteCover DEF DrainWalker

LEMMA CoverStep ==
    IInv /\ AnnounceInv /\ PageInv /\ CoverInv /\ TakenApart /\ TakenApart' /\ [Next]_vars
      => CoverInv'
<1> SUFFICES ASSUME IInv, AnnounceInv, PageInv, CoverInv, TakenApart, TakenApart',
                    [Next]_vars
             PROVE  CoverInv'
  OBVIOUS
<1> USE DEF IInv
<1>1. CASE \E w \in Walkers : Walking(w) \/ WalkPanic(w)
  BY <1>1, WalkerCoverStep
<1>2. CASE Events \/ TickStart \/ Ticking
  BY <1>2, UICoverStep, DrainCover DEF Ticking, Threads
<1>3. ASSUME NEW p \in Pagers,
             \/ Paging(p)
             \/ \E c \in Collections, r \in Requests : GetPage(p, c, r)
      PROVE  CoverInv'
  BY <1>3, DrainCover, PagerCover DEF Paging, Threads
<1>4. CASE UNCHANGED vars
  BY <1>4, SameLonger, QuietCover DEF vars, walkVars, indexVars
<1> QED BY <1>1, <1>2, <1>3, <1>4 DEF Next, Stopped

-----------------------------------------------------------------------------
(* The theorems.                                                           *)

LEMMA Announcements == Spec => [](IInv /\ AnnounceInv /\ PageInv)
<1>1. Init => AnnounceInv /\ PageInv
  BY InitAnnounce, InitPage
<1>2. IInv /\ (AnnounceInv /\ PageInv) /\ [Next]_vars => (AnnounceInv /\ PageInv)'
  BY AnnounceStep, PageStep
<1> QED BY <1>1, <1>2, Invariant, PTL DEF Spec

\* An index marked complete holds every checkpoint of its chain, whatever the
\* page requests and walkers do, as long as what one drain has taken of a
\* collection is applied before another takes more of it (TakenApart): batches
\* are then applied in the order they were sent, so each brings the next
\* boundary, and a page marks an index complete only at the chain's end.  Drains
\* in another order, which engine_impl/mod.rs:1047-1050 calls safe, are thus the
\* only way to a complete index that lacks checkpoints.
THEOREM CompleteIsCovered == Spec /\ []TakenApart => []CompleteMeansCovered
<1>1. Init => CoverInv
  BY InitCover
<1>2. /\ IInv /\ AnnounceInv /\ PageInv
      /\ CoverInv /\ TakenApart /\ TakenApart' /\ [Next]_vars
      => CoverInv'
  BY CoverStep
<1>3. TypeOK /\ CoverInv => CompleteMeansCovered
  <2> SUFFICES ASSUME TypeOK, CoverInv,
                      NEW c \in Collections, skip[c].complete
               PROVE  Covered(c)
    BY DEF CompleteMeansCovered
  <2> DEFINE len == Len(skip[c].checkpoints)
  <2>1. len \in Nat /\ len * SkipInterval \in Nat /\ Len(Chain[c]) \in Nat
    BY ElementTypes, IndexLength, Multiples, ChainType
  <2>2. ~(len * SkipInterval < Len(Chain[c]))
    BY <2>1 DEF CoverInv, IndexWhole, Reaches
  <2> QED BY <2>1, <2>2 DEF Covered
<1> QED BY <1>1, <1>2, <1>3, Announcements, TypeCorrect, PTL DEF Spec

\* The message "terminated unexpectedly" is true, whatever the page requests
\* do, as long as the handle a drain saw at its end is still registered when
\* that drain locks again (HandleKept): a drain that removes a handle without a
\* Complete has then met a panic.  A false report thus needs another thread to
\* take the handle away between the two locks of engine_impl/mod.rs:684-707.
THEOREM UnexpectedMeansPanic == Spec /\ []HandleKept => []UnexpectedTerminations
<1>1. Init => ReapInv
  BY InitReap
<1>2. /\ IInv /\ AnnounceInv /\ PageInv
      /\ ReapInv /\ HandleKept /\ HandleKept' /\ [Next]_vars
      => ReapInv'
  BY ReapStep
<1>3. ReapInv => UnexpectedTerminations
  BY DEF ReapInv, Reaped, UnexpectedTerminations
<1> QED BY <1>1, <1>2, <1>3, Announcements, PTL DEF Spec
=============================================================================
