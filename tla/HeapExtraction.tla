--------------------------- MODULE HeapExtraction ---------------------------
(***************************************************************************)
(* Phase 2 of the first pass (hprof-parser: first_pass/heap_extraction.rs, *)
(* the builder of segment.rs, the tracker of offset_lookup.rs): the heap   *)
(* records are cut into batches; the tasks of a batch read one record each *)
(* and send what they read, in whatever order they end; when all have, the *)
(* results are merged by their place in the file.  Below a size, or with a *)
(* single thread, the records are read and merged one after the other.     *)
(*                                                                         *)
(* What a run cannot choose is in setup: the threads of the pool, the      *)
(* memory budget, the segments for which the filter library fails to build *)
(* a filter, and the pairs <<segment, id>> its filters answer wrongly.     *)
(***************************************************************************)
EXTENDS RecordScan, SequencesExt

CONSTANTS
    Setups,            (* the choices of setup                              *)
    NoBudget,          (* a budget without limit                            *)
    ParallelThreshold, (* PARALLEL_THRESHOLD                                *)
    ChunkFloor,        (* CHUNK_FLOOR                                       *)
    BatchFloor         (* BATCH_FLOOR                                       *)

VARIABLES
    setup,
    taken,     (* the records given to tasks so far                         *)
    running,   (* the records whose task is still reading                   *)
    arrived,   (* the channel: the records whose task is done, in order     *)
    merged,    (* records merged                                            *)
    out,       (* HeapExtractionOutput                                      *)
    bytesDone  (* bytes_done                                                *)

extractVars == <<setup, taken, running, arrived, merged, out, bytesDone>>

-----------------------------------------------------------------------------
(* extract_heap_segment: the chunks of a record.  A chunk is [subs,        *)
(* entries, cut]; the tracker notes the first tag in each segment.         *)

ChunkBytes == IF setup.budget = NoBudget THEN file.length + 1
              ELSE Max2(setup.budget \div Max2(setup.threads, 1), ChunkFloor)

\* EntryPointTracker: a tag in another segment than the tag before it.
EntryPoints(subs) ==
    LET crosses == {i \in DOMAIN subs :
                      i = 1 \/ Segment(subs[i].at) # Segment(subs[i - 1].at)}
        firsts == Keep([i \in DOMAIN subs |-> i], crosses)
    IN  [k \in DOMAIN firsts |->
           [segment |-> Segment(subs[firsts[k]].at), at |-> subs[firsts[k]].at]]

\* cuts[i]: the chunks pushed once i sub-records are read.
Cuts(h, subs, size) ==
    LET cuts[i \in 0..Len(subs)] ==
          IF i = 0 THEN 0
          ELSE IF subs[i].at + subs[i].size - h.start >= (cuts[i - 1] + 1) * size
               THEN cuts[i - 1] + 1
               ELSE cuts[i - 1]
    IN  cuts

Matters(s) == s.kind \in ObjectKinds \cup {"frameRoot", "threadRoot", "class"}

\* The last chunk is kept if it holds anything; the entry points of the whole
\* record go with the first chunk, and nowhere if there is none.
ChunksOf(h, subs, cuts, entries) ==
    LET n == Len(subs)
        part(k) == SubSeq(subs, 1 + Cardinality({i \in 1..n : cuts[i - 1] < k}),
                          Cardinality({i \in 1..n : cuts[i - 1] <= k}))
        last == IF (\E s \in Range(part(cuts[n])) : Matters(s)) \/ Unread(h) > 0
                THEN cuts[n] ELSE cuts[n] - 1
    IN  [k \in 1..(last + 1) |->
           [subs    |-> part(k - 1),
            entries |-> IF k = 1 THEN entries ELSE <<>>,
            cut     |-> k - 1 = cuts[n] /\ Unread(h) > 0]]

Chunks(h) ==
    ChunksOf(h, Extracted(h), Cuts(h, Extracted(h), ChunkBytes),
             EntryPoints(Extracted(h)))

-----------------------------------------------------------------------------
(* SegmentFilterBuilder: the filter of a segment is built when an object   *)
(* of another segment arrives; failed is the filters that could not be     *)
(* built, each a warning (the objects in them are history).                *)

NoSegment == -1
NewBuilder == [current |-> NoSegment, ids |-> {}, filters |-> <<>>, failed |-> {}]

FinalizeCurrent(b) ==
    IF b.current = NoSegment THEN b
    ELSE IF b.current \in setup.unbuildable
    THEN [b EXCEPT !.current = NoSegment, !.ids = {},
                   !.failed = @ \cup {[segment |-> b.current, ids |-> b.ids]}]
    ELSE [b EXCEPT !.current = NoSegment, !.ids = {},
                   !.filters = Append(@, [segment |-> b.current, ids |-> b.ids])]

Add(b, s) ==
    IF b.current = Segment(s.at)
    THEN [b EXCEPT !.ids = @ \cup {s.id}]
    ELSE [FinalizeCurrent(b) EXCEPT !.current = Segment(s.at), !.ids = {s.id}]

\* finish: filters sorted by segment; each also answers yes for its false
\* positives.
BySegment(s) ==
    LET place(i) == Cardinality({j \in DOMAIN s : \/ s[j].segment < s[i].segment
                                                  \/ s[j].segment = s[i].segment /\ j <= i})
    IN  [k \in DOMAIN s |-> s[CHOOSE i \in DOMAIN s : place(i) = k]]

FinishFilters(b) ==
    LET sorted == BySegment(FinalizeCurrent(b).filters)
    IN  [i \in DOMAIN sorted |->
           [sorted[i] EXCEPT !.ids = @ \cup
               {p[2] : p \in {q \in setup.lookalikes : q[1] = sorted[i].segment}}]]

-----------------------------------------------------------------------------
(* merge_segment_result                                                    *)

EmptyOutput == [builder |-> NewBuilder, entries |-> <<>>, roots |-> <<>>,
                threads |-> <<>>, dumps |-> <<>>, log |-> NoWarnings,
                anomaly |-> FALSE]

KindOf(subs, kinds) == Keep(subs, {s \in Range(subs) : s.kind \in kinds})

AddEntry(entries, e) ==
    IF \E i \in DOMAIN entries : entries[i].segment = e.segment
    THEN entries ELSE Append(entries, e)

\* Mutant of MergeChunk: the chunk's warnings are left behind.
MergeChunkSilently(o, c) ==
    [builder |-> FoldLeft(Add, o.builder, KindOf(c.subs, ObjectKinds)),
     entries |-> FoldLeft(AddEntry, o.entries, c.entries),
     roots   |-> o.roots \o KindOf(c.subs, {"frameRoot"}),
     threads |-> o.threads \o KindOf(c.subs, {"threadRoot"}),
     dumps   |-> o.dumps \o KindOf(c.subs, {"class"}),
     log     |-> o.log,
     anomaly |-> o.anomaly \/ c.cut]

MergeChunk(o, c) ==
    LET partial == {s \in Range(c.subs) : s.kind = "class" /\ s.form = "partial"}
    IN  [builder |-> FoldLeft(Add, o.builder, KindOf(c.subs, ObjectKinds)),
         entries |-> FoldLeft(AddEntry, o.entries, c.entries),
         roots   |-> o.roots \o KindOf(c.subs, {"frameRoot"}),
         threads |-> o.threads \o KindOf(c.subs, {"threadRoot"}),
         dumps   |-> o.dumps \o KindOf(c.subs, {"class"}),
         log     |-> Warn(o.log, Len(Keep(c.subs, partial))
                                 + IF c.cut THEN 1 ELSE 0),
         anomaly |-> o.anomaly \/ c.cut]

\* Mutant of MergeRecord: the bytes of this record alone are told.
MergeRecordForgetting(h) ==
    /\ out' = FoldLeft(MergeChunk, out, Chunks(h))
    /\ merged' = merged + 1
    /\ bytesDone' = h.length

MergeRecord(h) ==
    /\ out' = FoldLeft(MergeChunk, out, Chunks(h))
    /\ merged' = merged + 1
    /\ bytesDone' = bytesDone + h.length

-----------------------------------------------------------------------------
(* extract_all                                                             *)

AddLength(n, h) == n + h.length
SumBytes(from, to) == FoldLeft(AddLength, 0, SubSeq(ranges, from, to))

BatchBytes == IF setup.budget = NoBudget THEN file.length
              ELSE Max2(setup.budget, BatchFloor)

Parallel == SumBytes(1, Len(ranges)) >= ParallelThreshold /\ setup.threads > 1

InitExtraction ==
    /\ setup \in Setups
    /\ taken = 0 /\ running = {} /\ arrived = <<>>
    /\ merged = 0 /\ out = EmptyOutput /\ bytesDone = 0

Extracting == phase = "extract" /\ UNCHANGED scanVars

ExtractNext ==
    /\ Extracting /\ ~Parallel /\ taken < Len(ranges)
    /\ taken' = taken + 1
    /\ MergeRecord(ranges[taken + 1])
    /\ UNCHANGED <<setup, running, arrived>>

\* compute_batch_ranges: records are added while the batch stays within the
\* limit; a record larger than that is a batch of its own.
StartBatch ==
    /\ Extracting /\ Parallel
    /\ taken < Len(ranges) /\ running = {} /\ arrived = <<>>
    /\ \E last \in (taken + 1)..Len(ranges) :
         /\ last > taken + 1 => SumBytes(taken + 1, last) <= BatchBytes
         /\ last < Len(ranges) => SumBytes(taken + 1, last + 1) > BatchBytes
         /\ running' = (taken + 1)..last
         /\ taken' = last
    /\ UNCHANGED <<setup, arrived, merged, out, bytesDone>>

FinishTask ==
    /\ Extracting
    /\ \E i \in running :
         /\ running' = running \ {i}
         /\ arrived' = Append(arrived, i)
    /\ UNCHANGED <<setup, taken, merged, out, bytesDone>>

\* Mutant of FirstArrived: results are merged as they arrive.
FirstSent(s) == Head(s)

\* sort_unstable_by_key on payload_start, then drain.
FirstArrived(s) == Least(Range(s))

MergeNext ==
    /\ Extracting /\ running = {} /\ arrived # <<>>
    /\ LET i == FirstArrived(arrived)
       IN  MergeRecord(ranges[i]) /\ arrived' = Keep(arrived, Range(arrived) \ {i})
    /\ UNCHANGED <<setup, taken, running>>

EndExtraction ==
    /\ phase = "extract"
    /\ taken = Len(ranges) /\ running = {} /\ arrived = <<>>
    /\ phase' = "assemble"
    /\ UNCHANGED <<file, next, index, ranges, attempted, indexed, log, position,
                   shown, barDown, extractVars>>

NextExtraction ==
    ExtractNext \/ StartBatch \/ FinishTask \/ MergeNext \/ EndExtraction

-----------------------------------------------------------------------------
(* What is extracted, as OrderedHeap sees it.                              *)

FiledIn(places, f) == places \cup ({f.segment} \X f.ids)
FiledFrom(built)   == FoldLeft(FiledIn, {}, built)
FailedIn(failed)   == UNION {{f.segment} \X f.ids : f \in failed}
Built(b) == FiledFrom(b.filters) \cup FailedIn(b.failed) \cup ({b.current} \X b.ids)

HeapRecords ==
    LET heap == Keep(file.records, {r \in Range(file.records) : r.tag = "Heap"})
    IN  [i \in DOMAIN heap |-> [start |-> heap[i].at, length |-> heap[i].size,
                                subs |-> heap[i].subs]]

Ordered == INSTANCE OrderedHeap WITH
    heap    <- HeapRecords,
    roots   <- out.roots,
    threads <- out.threads,
    dumps   <- out.dumps,
    located <- Built(out.builder),
    entry   <- [g \in {p[1] : p \in Built(out.builder)} |-> EntryOf(out.entries, g)]

\* The parallel extraction, whatever order its tasks end in, hands on what a
\* reader going through the file alone would: every record once, in file order,
\* each object under its own segment and each segment with the place of its
\* first tag (heap_extraction.rs, segment.rs "Ordering requirement").
ExtractionIsOrdered == Ordered!Spec
=============================================================================
