--------------------------- MODULE DumpProperties ---------------------------
(***************************************************************************)
(* What opening a dump must get right, stated against the dump itself: the *)
(* records and sub-records as they lie in `file` and what the VM meant by  *)
(* them (`truth`), not the index built from them.                          *)
(***************************************************************************)
EXTENDS HeapEngine

Opened    == phase = "open"
Assembled == phase \notin {"scan", "extract", "assemble"}
Heaps     == Range(HeapRecords)
Objects   == UNION {{s \in Subs(h) : Yields(s) /\ s.kind \in ObjectKinds} : h \in Heaps}

\* The objects of that id whose segment has a filter.
Findable(id) == {s \in Objects : s.id = id /\ Segment(s.at) \notin setup.unbuildable}

-----------------------------------------------------------------------------
(* is_fully_indexed                                                        *)

FullyIndexed == log.kept + invalid = 0 /\ indexed >= attempted

\* Every record and sub-record is whole, up to the end of the file.  Excepted is a
\* sub-record whose bytes were all read before it broke off, because its payload
\* ends within it or it is a lone unknown tag: no byte is left to warn of
\* (heap_extraction.rs:176).
Whole == /\ file.tail = "clean"
         /\ \A r \in Range(file.records) :
              r.tag \in Known => Parses(r) /\ ~LeftOver(r)
         /\ \A h \in Heaps : \A s \in Subs(h) :
              s.form = "whole" \/ (s.form = "broken" /\ s.left = 0)

\* A dump shown as fully indexed was read to the last byte: nothing that was
\* skipped, cut off or only partly read in any phase goes unreported
\* (engine_impl/mod.rs is_fully_indexed, and each warning of the first pass).
UnreportedIsWhole == Opened /\ FullyIndexed => Whole

\* The dump of a healthy VM opens without a warning, provided every filter was
\* built and no object id crosses the end of its segment, where the look-up of
\* the first pass loses it (offset_lookup.rs:99).
HealthyIsIndexed ==
    /\ Opened /\ file.healthy /\ setup.unbuildable = {}
    /\ \A s \in Objects : s.at + 1 + IdSize <= SegmentEnd(Segment(s.at))
    => FullyIndexed

\* "Fully indexed" is what it says, either way.
FullyIndexedMeansWhole == UnreportedIsWhole /\ HealthyIsIndexed

\* No warning is lost on its way through the phases: what was raised is either
\* in the list, which stays within its limit, or in the count of the suppressed
\* (push_warning_capped, extend_warnings_capped).
WarningsAccounted ==
    \A w \in {log, out.log, roundLog} :
      w.kept <= MaxWarnings /\ w.kept + w.dropped = w.raised

-----------------------------------------------------------------------------
(* Places of objects                                                       *)

\* A place in the index is the place of that very object, whoever entered it:
\* a round of the first pass or any later look (precise.rs instance_offsets).
\* The object may be one that breaks off after its id, which the bounded reader
\* of the rounds reports and every later reader declines.
OffsetsAreTrue ==
    \A id \in DOMAIN index.instance_offsets :
      \E h \in Heaps : \E s \in Subs(h) :
        /\ s.kind \in ObjectKinds
        /\ s.id = id /\ s.at = index.instance_offsets[id]

\* No class dump that breaks off precedes it in its segment, and its id is not
\* cut off by the end of the segment.
WithinReach(h, s) ==
    /\ s.at + 1 + IdSize <= SegmentEnd(Segment(s.at))
    /\ \A p \in Subs(h) :
         Segment(p.at) = Segment(s.at) /\ p.at < s.at => p.form = "whole"

\* An id names one object, be it in whichever record, and be it read in part only.
OneObjectPerId ==
    \A g, h \in Heaps : \A s \in Subs(g), t \in Subs(h) :
      s.kind \in ObjectKinds /\ t.kind \in ObjectKinds /\ s.id = t.id => s.at = t.at

\* With whatever false positives, the three look-ups find every object of a
\* segment whose filter was built, and at its own place, if no other object has
\* its id: the scan of a whole heap record, the batch of the engine, and the
\* bounded scan of the first pass from a segment's entry point (resolution.rs,
\* offset_lookup.rs, segment.rs:12-14 "a false result is a guaranteed absence").
\* Asked once: the filters and entry points are final when they are built.
LookupsFind ==
    phase = "correlate" /\ OneObjectPerId =>
      \A h \in Heaps : \A s \in Subs(h) :
        Yields(s) /\ s.kind \in ObjectKinds /\ s \in Findable(s.id) =>
          /\ FindIn(ranges, filters, s.kind, s.id) = s.at
          /\ s.kind = "instance" => BatchOffsets(ranges, filters, s.id) = {s.at}
          /\ WithinReach(h, s) =>
               LookedUp(ranges, filters, entries, {s.id}) = [x \in {s.id} |-> s.at]

-----------------------------------------------------------------------------
(* Threads, frames, classes                                                *)

\* The roots of frames in heap records, one record after the other.
JoinRoots(s, h) == s \o KindOf(Extracted(h), {"frameRoot"})
FrameRoots(hs)  == FoldLeft(JoinRoots, <<>>, hs)

\* The frame is the one that a root names: so many from the top of its thread's trace.
IsFrameOf(r, f) ==
    LET frames == FramesOf(index, r.thread)
    IN  r.frame >= 0 /\ r.frame < Len(frames) /\ frames[r.frame + 1] = f

\* The locals of a frame are the roots of the dump that name its place in a
\* thread's trace, each once and in file order, however the heap was cut into
\* tasks and chunks (thread_resolution.rs correlate_frame_roots).
LocalsInFileOrder ==
    phase = "round0" =>
      LET all == FrameRoots(HeapRecords)
          ids(f) == LET roots == Keep(all, {r \in Range(all) : IsFrameOf(r, f)})
                    IN  [i \in DOMAIN roots |-> roots[i].id]
      IN  \A f \in UNION {Range(index.stack_traces[s].frames) :
                            s \in DOMAIN index.stack_traces} :
            LocalVariables(f) = ids(f)

\* The super-classes of a class, theirs and so on.  Nothing is above NoClass, should
\* the dump have a class of that id.
Ancestors(c) ==
    LET n == Cardinality(DOMAIN index.class_dumps)
        above[i \in 0..n] ==
          IF i = 0 THEN c
          ELSE IF above[i - 1] = NoClass THEN NoClass ELSE Super(above[i - 1])
    IN  {above[i] : i \in 1..n}

\* The classes reported as a cycle are those that are their own ancestor, all
\* of them and no other, from whatever class the check starts
\* (validation.rs check_super_class_cycles).
CyclesExact ==
    Opened => inCycle = {c \in DOMAIN index.class_dumps \ {NoClass} : c \in Ancestors(c)}

\* Every class the instance's bytes are laid out by was read whole.
KnownLayout(s) ==
    LET chain == Chain(index.class_dumps, s.class)
    IN  chain # <<>> /\ index.class_dumps[Last(chain)].super = NoClass
        /\ \A c \in Range(chain) : index.class_dumps[c].form = "whole"

\* A thread is shown by the name and in the state its object has, if the dump
\* holds the objects and classes that say so: whichever thread is resolved
\* first, whether their places were found in the rounds of the first pass or by
\* a search, in the layout of the VM's version (engine_impl/mod.rs
\* resolve_thread_from_heap).
ThreadsAreTrue ==
    Opened =>
      \A t \in DOMAIN threadCache \cap DOMAIN index.thread_object_ids :
        \A o \in Findable(index.thread_object_ids[t]) :
          KnownLayout(o) =>
            /\ \A n \in Findable(o.truth.name) :
                 KnownLayout(n) => \A v \in Findable(n.truth.value) :
                                      threadCache[t].name = v.text
            /\ "state" \in DOMAIN o.truth => threadCache[t].state = o.truth.state
            /\ "holder" \in DOMAIN o.truth =>
                 \A h \in Findable(o.truth.holder) :
                   KnownLayout(h) => threadCache[t].state = h.truth.state

-----------------------------------------------------------------------------
(* Progress                                                                *)

\* The bar never goes back and ends where the scan ended; the bytes told while
\* the heap is extracted add up to the heap (hprof_primitives.rs
\* maybe_report_progress, heap_extraction.rs extract_all).
ProgressIsTrue ==
    /\ ~barDown
    /\ phase # "scan" => shown = position
    /\ Assembled => bytesDone = SumBytes(1, Len(ranges)) /\ merged = Len(ranges)
=============================================================================
