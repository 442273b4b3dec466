---------------------------- MODULE OrderedHeap -----------------------------
(***************************************************************************)
(* What the extraction of the heap promises to the phases after it, with   *)
(* however many threads, batches and chunks: what was read of the heap     *)
(* records arrives record by record in file order, none left out and none  *)
(* twice; each object is filed under the segment of its tag; and each      *)
(* segment with an object has one place to start reading, a tag at or      *)
(* before its first object.  HeapExtraction implements it.                 *)
(***************************************************************************)
EXTENDS HeapDump

VARIABLES
    heap,     (* the heap records of the dump, in file order                *)
    merged,   (* how many were taken up                                     *)
    roots,    (* GC_ROOT_JAVA_FRAMEs, in file order                         *)
    threads,  (* ROOT_THREAD_OBJs, in file order                            *)
    dumps,    (* class dumps, in file order                                 *)
    located,  (* the objects, as pairs <<segment, id>>                      *)
    entry     (* the tag where reading a segment starts                     *)

vars == <<heap, merged, roots, threads, dumps, located, entry>>

OfKind(subs, kind) ==
    Keep(subs, {subs[i] : i \in {j \in DOMAIN subs : subs[j].kind = kind}})
Objects(h) == {s \in Subs(h) : Yields(s) /\ s.kind \in ObjectKinds}
Tags(h)    == {s.at : s \in {t \in Subs(h) : Yields(t)}}
Places(h)  == {<<Segment(s.at), s.id>> : s \in Objects(h)}
SegmentsOf(places) == {p[1] : p \in places}

Init == /\ merged = 0
        /\ roots = <<>> /\ threads = <<>> /\ dumps = <<>>
        /\ located = {} /\ entry = <<>>

TakeUp(h) ==
    /\ roots'   = roots   \o OfKind(Extracted(h), "frameRoot")
    /\ threads' = threads \o OfKind(Extracted(h), "threadRoot")
    /\ dumps'   = dumps   \o OfKind(Extracted(h), "class")
    /\ located' = located \cup Places(h)
    /\ DOMAIN entry' = SegmentsOf(located')
    /\ \A g \in DOMAIN entry : entry'[g] = entry[g]
    /\ \A g \in DOMAIN entry' \ DOMAIN entry :
         /\ Segment(entry'[g]) = g
         /\ \A s \in Objects(h) : Segment(s.at) = g => entry'[g] <= s.at
         /\ \E i \in 1..(merged + 1) : entry'[g] \in Tags(heap[i])

Next == /\ merged < Len(heap)
        /\ merged' = merged + 1
        /\ TakeUp(heap[merged + 1])
        /\ UNCHANGED heap

Spec == Init /\ [][Next]_vars
=============================================================================
