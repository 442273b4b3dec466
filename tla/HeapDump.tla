------------------------------ MODULE HeapDump ------------------------------
(***************************************************************************)
(* The heap records of a dump and the three readers that walk them         *)
(* (hprof-parser: heap_reader.rs, reader.rs, segment.rs, offset_lookup.rs, *)
(* resolution.rs).                                                         *)
(*                                                                         *)
(* A heap record is [start, length, subs]: the range of its payload and    *)
(* the sub-records its bytes read as.  A sub-record has its position `at`, *)
(* its `size`, its `kind` and, if it names an object, its `id`.  Its form  *)
(* is "whole"; "partial" for a class dump that breaks off in its static    *)
(* fields and is kept without its fields; or "broken" for the tag nobody   *)
(* knows or the truncated body where reading ends, `left` bytes short of   *)
(* the payload's end.                                                      *)
(***************************************************************************)
EXTENDS Integers, Sequences, FiniteSets

CONSTANTS
    IdSize,       (* bytes of an object id                                  *)
    SegmentSize   (* SEGMENT_SIZE: bytes covered by one filter              *)

ASSUME SizesAssumption == IdSize \in Nat \ {0} /\ SegmentSize \in Nat \ {0}

ObjectKinds == {"instance", "objArray", "primArray"}
NotFound    == -1

End(h) == h.start + h.length
Segment(at) == at \div SegmentSize
SegmentStart(g) == g * SegmentSize
SegmentEnd(g)   == (g + 1) * SegmentSize

Max2(x, y) == IF x > y THEN x ELSE y
Min2(x, y) == IF x < y THEN x ELSE y
Least(S) == CHOOSE x \in S : \A y \in S : x <= y
Subs(h) == {h.subs[i] : i \in DOMAIN h.subs}

\* The elements of s that are in T, in their order (SelectSeq with a set for its
\* test: the proofs cannot look into SelectSeq).
Keep(s, T) ==
    LET kept[i \in 0..Len(s)] ==
          IF i = 0 THEN <<>>
          ELSE IF s[i] \in T THEN Append(kept[i - 1], s[i]) ELSE kept[i - 1]
    IN  kept[Len(s)]

\* HeapSubRecordIter yields every sub-record up to the broken one.
Yields(s)    == s.form # "broken"
Extracted(h) == Keep(h.subs, {s \in Subs(h) : Yields(s)})

\* The bytes the iterator leaves unread when it ends.
Unread(h) ==
    LET broken == {s \in Subs(h) : ~Yields(s)}
    IN  IF broken = {} THEN 0 ELSE (CHOOSE s \in broken : TRUE).left

\* The bytes a whole sub-record takes, its tag included: ids, serials, counts
\* and what the counts announce.
SizeOf(s) ==
    1 + IdSize + CASE s.kind = "instance"  -> 4 + IdSize + 4 + Len(s.data)
                   [] s.kind = "primArray" -> 4 + 4 + 1 + s.bytes
                   [] s.kind = "objArray"  -> 4 + 4 + IdSize + s.count * IdSize
                   [] s.kind \in {"frameRoot", "threadRoot"} -> 8
                   [] s.kind = "class" ->
                        4 + 6 * IdSize + 4 + 2 + 2 + 2
                        + Len(s.statics) * (2 * IdSize + 1)
                        + Len(s.fields) * (IdSize + 1)
                   [] OTHER -> 0

-----------------------------------------------------------------------------
(* scan_segment_for_objects: the bounded reader of the first pass.  It     *)
(* reads from a tag up to the end of a window, breaks off at anything it   *)
(* cannot skip, and reports an object once it has read its id.             *)

Reached(h, from, s) ==
    \A p \in Subs(h) : from <= p.at /\ p.at < s.at => p.form = "whole"

WindowObjects(h, from, to, ids) ==
    {s \in Subs(h) :
        /\ from <= s.at /\ s.at + 1 + IdSize <= to
        /\ s.kind \in ObjectKinds /\ s.id \in ids
        /\ Reached(h, from, s)}

-----------------------------------------------------------------------------
(* The filters, as sequences of [segment, ids]: a filter answers yes for   *)
(* the ids it was built from and for some others, its false positives.     *)

Candidates(filters, id) ==
    {filters[i].segment : i \in {j \in DOMAIN filters : id \in filters[j].ids}}

Overlaps(h, g) == h.start < SegmentEnd(g) /\ End(h) > SegmentStart(g)

\* scan_for_instance and its like: the first sub-record of that kind and id.
FirstIn(h, kind, id) ==
    LET found == {s.at : s \in {t \in Subs(h) :
                                  Yields(t) /\ t.kind = kind /\ t.id = id}}
    IN  IF found = {} THEN NotFound ELSE Least(found)

\* Mutant of FindIn: only the record that holds the segment's start is read.
FindInHolding(ranges, filters, kind, id) ==
    LET hits == {FirstIn(ranges[i], kind, id) :
                   i \in {j \in DOMAIN ranges :
                            \E g \in Candidates(filters, id) :
                                ranges[j].start <= SegmentStart(g)
                                /\ End(ranges[j]) > SegmentStart(g)}} \ {NotFound}
    IN  IF hits = {} THEN NotFound ELSE Least(hits)

\* scan_candidate_segments with find_instance, find_prim_array and
\* find_object_array_meta: the records that overlap a candidate segment are
\* read from their start, in file order, up to the first match.
FindIn(ranges, filters, kind, id) ==
    LET hits == {FirstIn(ranges[i], kind, id) :
                   i \in {j \in DOMAIN ranges :
                            \E g \in Candidates(filters, id) :
                                Overlaps(ranges[j], g)}} \ {NotFound}
    IN  IF hits = {} THEN NotFound ELSE Least(hits)

\* batch_find_instances: each candidate segment is searched by a task of its
\* own; the offset of an id is that of any segment in which it was found.
BatchOffsets(ranges, filters, id) ==
    {o \in {LET hits == {FirstIn(ranges[i], "instance", id) :
                          i \in {j \in DOMAIN ranges : Overlaps(ranges[j], g)}}
                        \ {NotFound}
            IN  IF hits = {} THEN NotFound ELSE Least(hits)
            : g \in Candidates(filters, id)} : o # NotFound}

-----------------------------------------------------------------------------
(* batch_lookup_by_filter.  entries is the sequence of entry points, as    *)
(* [segment, at], sorted by segment.                                       *)

EntryOf(entries, g) ==
    LET at == {entries[i].at : i \in {j \in DOMAIN entries : entries[j].segment = g}}
    IN  IF at = {} THEN NotFound ELSE Least(at)

\* The windows to scan in a segment: its part of every record that overlaps
\* it, from the entry point on.
Windows(ranges, entries, g) ==
    LET from(h) == Max2(Max2(h.start, SegmentStart(g)), EntryOf(entries, g))
        to(h)   == Min2(End(h), SegmentEnd(g))
    IN  {[record |-> ranges[i], from |-> from(ranges[i]), to |-> to(ranges[i])] :
           i \in {j \in DOMAIN ranges :
                    /\ ranges[j].length > 0
                    /\ Overlaps(ranges[j], g)
                    /\ from(ranges[j]) < to(ranges[j])}}

FoundIn(ranges, entries, g, ids) ==
    UNION {WindowObjects(w.record, w.from, w.to, ids) : w \in Windows(ranges, entries, g)}

\* The offsets found, as a function of the ids found: the first segment wins.
LookedUp(ranges, filters, entries, ids) ==
    LET found == UNION {FoundIn(ranges, entries, filters[i].segment,
                                ids \cap filters[i].ids)
                        : i \in {j \in DOMAIN filters :
                                   EntryOf(entries, filters[j].segment) # NotFound}}
    IN  [id \in {s.id : s \in found} |-> Least({s.at : s \in {t \in found : t.id = id}})]

\* One warning for each filter asked that has no entry point, one for each id
\* not found.
LookupWarnings(filters, entries, ids, found) ==
    Cardinality({i \in DOMAIN filters :
                   /\ ids \cap filters[i].ids # {}
                   /\ EntryOf(entries, filters[i].segment) = NotFound})
    + Cardinality(ids \ DOMAIN found)
=============================================================================
