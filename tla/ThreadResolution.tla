-------------------------- MODULE ThreadResolution --------------------------
(***************************************************************************)
(* The rest of the first pass (hprof-parser: first_pass/mod.rs,            *)
(* thread_resolution.rs, validation.rs): the index is put together from    *)
(* what the scan and the extraction found; threads are synthesised if the  *)
(* dump names none, their objects and locals correlated, and the places of *)
(* their objects looked up in three rounds; the class hierarchy is checked *)
(* for cycles.                                                             *)
(***************************************************************************)
EXTENDS HeapExtraction, FieldDecoding

CONSTANT MaxValidation      (* MAX_VALIDATION_WARNINGS                      *)

ASSUME ValidationAssumption == MaxValidation \in Nat

VARIABLES
    filters,     (* segment_filters                                         *)
    entries,     (* entry_points, sorted                                    *)
    nameRefs,    (* name_ref_ids                                            *)
    roundLog,    (* the warnings of resolve_all                             *)
    unchecked,   (* classes the cycle check has not started from            *)
    visited,     (* visited_global                                          *)
    inCycle,     (* in_cycle                                                *)
    invalid      (* validation warnings, kept or summed up in one           *)

resolveVars == <<filters, entries, nameRefs, roundLog, unchecked, visited,
                 inCycle, invalid>>
scanConst   == <<file, next, ranges, attempted, indexed, position, shown, barDown>>

InitResolution ==
    /\ filters = <<>> /\ entries = <<>>
    /\ nameRefs = {} /\ roundLog = NoWarnings
    /\ unchecked = {} /\ visited = {} /\ inCycle = {} /\ invalid = 0

-----------------------------------------------------------------------------
(* Assembly: class dumps, the extraction's warnings, the field names, the  *)
(* filters.                                                                *)

PutDump(f, c) == Put(f, c.id, c)
Dumps == FoldLeft(PutDump, index.class_dumps, out.dumps)

NamesUsed(dumps) ==
    UNION {{f.name : f \in Range(dumps[c].fields) \cup Range(dumps[c].statics)}
           : c \in DOMAIN dumps}

Assemble ==
    /\ phase = "assemble"
    /\ index' = [index EXCEPT
         !.class_dumps = Dumps,
         !.field_names = [n \in NamesUsed(Dumps) \cap DOMAIN index.strings
                            |-> index.strings[n]]]
    /\ filters' = FinishFilters(out.builder)
    /\ entries' = BySegment(out.entries)
    /\ log' = Warn(Absorb(log, out.log),
                   Cardinality(NamesUsed(Dumps) \ DOMAIN index.strings)
                   + Cardinality(FinalizeCurrent(out.builder).failed))
    /\ phase' = "correlate"
    /\ UNCHANGED <<scanConst, extractVars, nameRefs, roundLog, unchecked,
                   visited, inCycle, invalid>>

-----------------------------------------------------------------------------
(* Threads and their roots                                                 *)

\* synthesise_threads: of several traces of a thread the first the hash map
\* yields; threads that have a record keep it.
Synthesised(traceOf) ==
    [t \in DOMAIN index.threads \cup DOMAIN traceOf |->
       IF t \in DOMAIN index.threads THEN index.threads[t]
       ELSE [object |-> Null, trace |-> traceOf[t], name |-> Null]]

TraceChoices ==
    LET of(t) == {s \in DOMAIN index.stack_traces : index.stack_traces[s].thread = t}
        withTrace == {index.stack_traces[s].thread : s \in DOMAIN index.stack_traces} \ {0}
    IN  {c \in [withTrace -> DOMAIN index.stack_traces] :
           \A t \in withTrace : c[t] \in of(t)}

\* populate_thread_object_ids, with the root r.
PutThreadObject(ix, r) ==
    [ix EXCEPT
       !.thread_object_ids = Put(@, r.thread, r.id),
       !.threads = IF r.thread \in DOMAIN @ /\ @[r.thread].object = Null
                   THEN [@ EXCEPT ![r.thread].object = r.id] ELSE @]

\* The frames of the trace that a thread's record names.
FramesOf(ix, thread) ==
    IF thread \in DOMAIN ix.threads /\ ix.threads[thread].trace \in DOMAIN ix.stack_traces
    THEN ix.stack_traces[ix.threads[thread].trace].frames
    ELSE <<>>

\* Mutant of PutFrameRoot: the frame number taken as an index from one.
PutFrameRootOffByOne(ix, r) ==
    LET frames == FramesOf(ix, r.thread)
    IN  IF r.frame \in DOMAIN frames
        THEN LET f == frames[r.frame]
             IN  [ix EXCEPT !.java_frame_roots = Put(@, f, Append(Get(@, f, <<>>), r.id))]
        ELSE ix

\* correlate_frame_roots, with the root r: a root whose thread, trace or frame
\* is not there is dropped.
PutFrameRoot(ix, r) ==
    LET frames == FramesOf(ix, r.thread)
    IN  IF r.frame + 1 \in DOMAIN frames
        THEN LET f == frames[r.frame + 1]
             IN  [ix EXCEPT !.java_frame_roots = Put(@, f, Append(Get(@, f, <<>>), r.id))]
        ELSE ix

Correlate ==
    /\ phase = "correlate"
    /\ \E traceOf \in TraceChoices :
         LET withThreads == [index EXCEPT !.threads = Synthesised(traceOf)]
             withObjects == FoldLeft(PutThreadObject, withThreads, out.threads)
         IN  index' = FoldLeft(PutFrameRoot, withObjects, out.roots)
    /\ phase' = "round0"
    /\ UNCHANGED <<scanConst, log, extractVars, resolveVars>>

-----------------------------------------------------------------------------
(* The three rounds of batch look-ups                                      *)

\* read_raw_instance_at and read_instance_at_offset: what starts at a place.
SubAt(at) == UNION {{s \in Subs(ranges[i]) : s.at = at} : i \in DOMAIN ranges}
InstancesAt(at) == {s \in SubAt(at) : s.kind = "instance" /\ Yields(s)}

\* run_batch_round, with the offsets it found.
RunBatchRound(ids, found, w) ==
    /\ index' = [index EXCEPT !.instance_offsets = Over(found, @)]
    /\ roundLog' = Warn(w, LookupWarnings(filters, entries, ids, found))

EndRounds ==
    /\ phase' = "validate"
    /\ unchecked' = DOMAIN index.class_dumps
    /\ UNCHANGED <<visited, inCycle, invalid>>

ToRound(p) == /\ phase' = p
              /\ UNCHANGED <<unchecked, visited, inCycle, invalid>>

RoundConst == <<scanConst, log, extractVars, filters, entries>>

Round0 ==
    /\ phase = "round0"
    /\ UNCHANGED <<RoundConst, nameRefs>>
    /\ LET ids == Range(index.thread_object_ids)
       IN  IF ids = {} THEN EndRounds /\ UNCHANGED <<index, roundLog>>
           ELSE /\ RunBatchRound(ids, LookedUp(ranges, filters, entries, ids), roundLog)
                /\ ToRound("round1")

\* The references of these names held by the instances at these places, but
\* those whose place is known.
Wanted(places, names) ==
    UNION {RefsNamed(Decode(index.class_dumps, s), index.strings, names)
           : s \in UNION {InstancesAt(p) : p \in places}}
    \ DOMAIN index.instance_offsets

\* Round 1: what the objects found so far hold as name or holder.
Round1 ==
    /\ phase = "round1"
    /\ UNCHANGED RoundConst
    /\ LET places == Range(index.instance_offsets)
           ids == Wanted(places, {"name", "holder"})
       IN  IF ids = {} THEN EndRounds /\ UNCHANGED <<index, roundLog, nameRefs>>
           ELSE /\ RunBatchRound(ids, LookedUp(ranges, filters, entries, ids), roundLog)
                /\ nameRefs' = Wanted(places, {"name"})
                /\ ToRound("round2")

\* Round 2: the value arrays of the names that round 1 found.
Round2 ==
    /\ phase = "round2"
    /\ UNCHANGED <<RoundConst, nameRefs>>
    /\ LET known == nameRefs \cap DOMAIN index.instance_offsets
           ids == Wanted({index.instance_offsets[n] : n \in known}, {"value"})
       IN  IF ids = {} THEN UNCHANGED <<index, roundLog>>
           ELSE RunBatchRound(ids, LookedUp(ranges, filters, entries, ids), roundLog)
    /\ EndRounds

-----------------------------------------------------------------------------
(* check_super_class_cycles: one walk up from each class no walk has       *)
(* passed, in the order of the hash map.                                   *)

\* Mutant of InLoop: a walk that meets an earlier walk counts as a cycle.
InLoopAny(path, stop) == IF stop = NoClass THEN {} ELSE Range(path)

\* The classes from the one the path came back to, if it did.
InLoop(path, stop) ==
    {path[i] : i \in {j \in DOMAIN path :
                        stop # NoClass /\ \E k \in 1..j : path[k] = stop}}

\* Ends the walk at a class without a dump, a root, or a class already passed.
Super(c) == IF c \in DOMAIN index.class_dumps
            THEN index.class_dumps[c].super ELSE NoClass

Path(start) ==
    LET up[n \in 0..Cardinality(DOMAIN index.class_dumps)] ==
          IF n = 0 THEN <<start>>
          ELSE LET s == up[n - 1]
                   c == Super(Last(s))
               IN  IF c = NoClass \/ c \in visited \/ c \in Range(s) THEN s
                   ELSE Append(s, c)
    IN  up[Cardinality(DOMAIN index.class_dumps)]

CheckClass ==
    /\ phase = "validate"
    /\ \E c \in unchecked :
         /\ unchecked' = unchecked \ {c}
         /\ IF c \in visited THEN UNCHANGED <<visited, inCycle>>
            ELSE LET path == Path(c)
                 IN  /\ visited' = visited \cup Range(path)
                     /\ inCycle' = inCycle \cup InLoop(path, Super(Last(path)))
    /\ UNCHANGED <<scanConst, phase, index, log, extractVars, filters, entries,
                   nameRefs, roundLog, invalid>>

\* check_class_object_id_consistency.
Undumped == {n \in DOMAIN index.classes :
               index.classes[n] \notin DOMAIN index.class_dumps}

FinishPass ==
    /\ phase = "validate" /\ unchecked = {}
    /\ log' = Absorb(log, roundLog)
    /\ invalid' = Min2(Cardinality(Undumped) + IF inCycle = {} THEN 0 ELSE 1,
                       MaxValidation + 1)
    /\ phase' = "open"
    /\ UNCHANGED <<scanConst, index, extractVars, filters, entries, nameRefs,
                   roundLog, unchecked, visited, inCycle>>

NextResolution ==
    (Assemble \/ Correlate \/ Round0 \/ Round1 \/ Round2 \/ CheckClass \/ FinishPass)
=============================================================================
