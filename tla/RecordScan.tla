----------------------------- MODULE RecordScan -----------------------------
(***************************************************************************)
(* Phase 1 of the first pass (hprof-parser: first_pass/record_scan.rs,     *)
(* hprof_primitives.rs): one reader goes over the top-level records,       *)
(* enters the structural ones in the index, notes where the heap records   *)
(* lie and counts what it cannot read.                                     *)
(*                                                                         *)
(* A file is [records, tail, length].  A record is [tag, at, size], the    *)
(* place of its payload, with the fields of its kind.  The tail is where   *)
(* the records end: "clean" at the end of the file, "header" in a record's *)
(* header, "payload" in a record whose length reaches past the end of the  *)
(* file.                                                                   *)
(***************************************************************************)
EXTENDS HeapDump

CONSTANTS
    Files,             (* the dumps that may be opened                      *)
    MaxWarnings,       (* MAX_WARNINGS                                      *)
    ReportInterval     (* PROGRESS_REPORT_INTERVAL, in bytes                *)

ASSUME ScanAssumption == MaxWarnings \in Nat \ {0} /\ ReportInterval \in Nat \ {0}

\* Where things lie in a file, by the way it is read: the records one after the
\* other, the sub-records one after the other within their record up to the one
\* where reading breaks off.  An object read holds its tag and its id, a class dump
\* lists its fields, a trace its frames.
Placed(r) ==
    /\ r.subs \in Seq(Subs(r))
    /\ \A i \in DOMAIN r.subs :
         LET s == r.subs[i]
         IN  /\ s.at \in Nat /\ s.size \in Nat \ {0}
             /\ r.at <= s.at /\ s.at + s.size <= r.at + r.size
             /\ i < Len(r.subs) => s.at + s.size <= r.subs[i + 1].at
             /\ s.form \in {"whole", "partial", "broken"}
             /\ s.form = "broken" => i = Len(r.subs) /\ s.left \in Nat
             /\ s.form = "partial" => s.kind = "class"
             /\ s.kind \in ObjectKinds /\ Yields(s) => s.size > IdSize
             /\ s.kind = "class" /\ Yields(s) =>
                  /\ s.fields \in Seq({s.fields[j] : j \in DOMAIN s.fields})
                  /\ s.statics \in Seq({s.statics[j] : j \in DOMAIN s.statics})
             /\ s.kind = "frameRoot" /\ Yields(s) => s.frame \in Int

\* Where the last whole record ends, and with it the tail begins.
HeaderSize == 9
RecordsEnd(f) == IF f.records = <<>> THEN 0
                 ELSE LET last == f.records[Len(f.records)]
                      IN  last.at + last.size

ASSUME FilesAssumption ==
    \A f \in Files :
      /\ f.length \in Nat
      /\ f.tail \in {"clean", "header", "payload"}
      /\ f.tail = "header"  => f.length - RecordsEnd(f) \in 1..HeaderSize - 1
      /\ f.tail = "payload" => f.length - RecordsEnd(f) >= HeaderSize
      /\ f.records \in Seq({f.records[i] : i \in DOMAIN f.records})
      /\ \A i \in DOMAIN f.records :
           LET r == f.records[i]
           IN  /\ r.at \in Nat /\ r.size \in Nat
               /\ r.at + r.size <= f.length
               /\ i < Len(f.records) => r.at + r.size <= f.records[i + 1].at
               /\ r.tag = "Heap" => Placed(r)
               /\ r.tag = "Trace" => r.frames \in Seq({r.frames[j] : j \in DOMAIN r.frames})

VARIABLES
    file,      (* the dump being opened                                     *)
    phase,     (* the phase run_first_pass is in                            *)
    next,      (* the record the scan reads next                            *)
    index,     (* PreciseIndex                                              *)
    ranges,    (* heap_record_ranges, with what their bytes read as         *)
    attempted, (* records_attempted                                         *)
    indexed,   (* records_indexed                                           *)
    log,       (* warnings and suppressed: kept, dropped; history: raised   *)
    position,  (* the reader's position                                     *)
    shown,     (* what the progress bar was last told                       *)
    barDown    (* history: the bar was told to go back                      *)

scanVars == <<file, phase, next, index, ranges, attempted, indexed, log,
              position, shown, barDown>>

NoName == "none"
Over(f, g)   == [x \in DOMAIN f \cup DOMAIN g |-> IF x \in DOMAIN f THEN f[x] ELSE g[x]]
Put(f, k, v) == Over([x \in {k} |-> v], f)
Get(f, k, default) == IF k \in DOMAIN f THEN f[k] ELSE default

EmptyIndex ==
    [strings |-> <<>>, classes |-> <<>>, class_names_by_id |-> <<>>,
     threads |-> <<>>, stack_frames |-> <<>>, stack_traces |-> <<>>,
     class_dumps |-> <<>>, field_names |-> <<>>, thread_object_ids |-> <<>>,
     java_frame_roots |-> <<>>, instance_offsets |-> <<>>]

-----------------------------------------------------------------------------
(* Warnings: the first MaxWarnings are kept, the others are counted.       *)

NoWarnings == [kept |-> 0, dropped |-> 0, raised |-> 0]

\* push_warning_capped, n times.
Warn(w, n) ==
    LET room == Min2(n, Max2(MaxWarnings - w.kept, 0))
    IN  [kept    |-> w.kept + room,
         dropped |-> w.dropped + (n - room),
         raised  |-> w.raised + n]

\* Mutant of Absorb: the warnings the phase had already dropped are forgotten.
AbsorbForgetful(w, phaseLog) ==
    [Warn(w, phaseLog.kept) EXCEPT !.raised = w.raised + phaseLog.raised]

\* extend_warnings_capped: a phase's own capped list joins the list of the
\* whole pass; what the phase dropped stays dropped.
Absorb(w, phaseLog) ==
    LET joined == Warn(w, phaseLog.kept)
    IN  [joined EXCEPT !.dropped = joined.dropped + phaseLog.dropped,
                       !.raised  = w.raised + phaseLog.raised]

-----------------------------------------------------------------------------
(* Progress                                                                *)

Tell(p) == /\ shown' = p
           /\ barDown' = (barDown \/ p < shown)

\* maybe_report_progress: told once enough bytes went by, or once enough
\* time did, which may be at any record.
MaybeReport(p) ==
    \/ Tell(p)
    \/ p - shown < ReportInterval /\ UNCHANGED <<shown, barDown>>

-----------------------------------------------------------------------------
(* insert_record                                                           *)

\* The bytes the parser of its kind takes of a record, at least and at most; a
\* string takes what there is, a thread may lack its group's names.
LeastSize(r) ==
    CASE r.tag = "String"    -> IdSize
      [] r.tag = "LoadClass" -> 8 + 2 * IdSize
      [] r.tag = "Frame"     -> 8 + 4 * IdSize
      [] r.tag = "Trace"     -> 12 + Len(r.frames) * IdSize
      [] r.tag = "Thread"    -> 8 + 2 * IdSize
MostSize(r) == CASE r.tag = "String" -> r.size
                 [] r.tag = "Thread" -> 8 + 4 * IdSize
                 [] OTHER            -> LeastSize(r)

\* try_parse: it fails on a payload too short and warns of bytes left over.
Parses(r)   == r.size >= LeastSize(r)
LeftOver(r) == r.size > MostSize(r)

Known == {"String", "LoadClass", "Frame", "Trace", "Thread"}

\* A class is named by the strings read before it.
Insert(r) ==
    CASE r.tag = "String" ->
           [index EXCEPT !.strings = Put(@, r.id, r.text)]
      [] r.tag = "LoadClass" ->
           [index EXCEPT !.classes = Put(@, r.serial, r.class),
                         !.class_names_by_id =
                             Put(@, r.class, Get(index.strings, r.name, NoName))]
      [] r.tag = "Frame" ->
           [index EXCEPT !.stack_frames = Put(@, r.id, r.method)]
      [] r.tag = "Trace" ->
           [index EXCEPT !.stack_traces =
               Put(@, r.serial, [thread |-> r.thread, frames |-> r.frames])]
      [] r.tag = "Thread" ->
           [index EXCEPT !.threads =
               Put(@, r.serial, [object |-> r.object, trace |-> r.trace,
                                 name |-> r.name])]

-----------------------------------------------------------------------------
(* scan_records, one record a step                                         *)

InitScan ==
    /\ file \in Files
    /\ phase = "scan" /\ next = 1
    /\ index = EmptyIndex /\ ranges = <<>>
    /\ attempted = 0 /\ indexed = 0 /\ log = NoWarnings
    /\ position = 0 /\ shown = 0 /\ barDown = FALSE

Scanning == phase = "scan" /\ next <= Len(file.records)
Record   == file.records[next]

Advance == /\ next' = next + 1
           /\ position' = Record.at + Record.size
           /\ MaybeReport(Record.at + Record.size)
           /\ UNCHANGED <<file, phase>>

ScanHeap ==
    /\ Scanning /\ Record.tag = "Heap"
    /\ ranges' = Append(ranges, [start |-> Record.at, length |-> Record.size,
                                 subs |-> Record.subs])
    /\ Advance
    /\ UNCHANGED <<index, attempted, indexed, log>>

ScanOther ==
    /\ Scanning /\ Record.tag \notin Known \cup {"Heap"}
    /\ Advance
    /\ UNCHANGED <<index, ranges, attempted, indexed, log>>

ScanKnown ==
    /\ Scanning /\ Record.tag \in Known
    /\ attempted' = attempted + 1
    /\ IF Parses(Record)
       THEN /\ log' = IF LeftOver(Record) THEN Warn(log, 1) ELSE log
            /\ index' = Insert(Record)
            /\ indexed' = indexed + 1
       ELSE log' = Warn(log, 1) /\ UNCHANGED <<index, indexed>>
    /\ Advance
    /\ UNCHANGED ranges

\* Where the reader stands when it gives up on the tail: behind the header of a
\* record whose payload is cut off; in a header cut off, behind the tag or the time,
\* or where the failed read of a number leaves a cursor, at the end of the file.
TornAt ==
    CASE file.tail = "clean"   -> {position}
      [] file.tail = "payload" -> {position + HeaderSize}
      [] file.tail = "header"  ->
           {position + IF position + 5 <= file.length THEN 5 ELSE 1, file.length}

\* The scan ends at the end of the file or in the record that is cut off; the
\* bar is told the reader's position unless it already stands there.
ScanEnd ==
    /\ phase = "scan" /\ next > Len(file.records)
    /\ \E p \in TornAt : position' = p /\ Tell(p)
    /\ log' = IF file.tail = "clean" THEN log ELSE Warn(log, 1)
    /\ phase' = "extract"
    /\ UNCHANGED <<file, next, index, ranges, attempted, indexed>>

NextScan == ScanHeap \/ ScanOther \/ ScanKnown \/ ScanEnd
=============================================================================
