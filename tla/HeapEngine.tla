----------------------------- MODULE HeapEngine -----------------------------
(***************************************************************************)
(* The engine on an opened dump (hprof-engine: engine_impl/mod.rs): the    *)
(* thread cache is filled once, thread by thread in the order of a hash    *)
(* map; then threads, frames, locals, fields and static fields are read on *)
(* demand.  Every look at an object may add its place to the index, which  *)
(* later looks trust.                                                      *)
(***************************************************************************)
EXTENDS ThreadResolution

CONSTANT Unnamed    (* the name made up from a thread's serial              *)

VARIABLE threadCache    (* thread_cache: serial to [name, state]            *)

engineVars == <<scanVars, extractVars, resolveVars, threadCache>>

Open  == phase = "open" /\ UNCHANGED <<scanConst, phase, log, extractVars, resolveVars>>
Ready == DOMAIN threadCache = DOMAIN index.threads

-----------------------------------------------------------------------------
(* Reading objects                                                         *)

\* read_instance: at its known place, or else where a search finds it.
PlaceOf(id) ==
    IF id \in DOMAIN index.instance_offsets
       /\ InstancesAt(index.instance_offsets[id]) # {}
    THEN index.instance_offsets[id]
    ELSE FindIn(ranges, filters, "instance", id)

\* The instance with this id, as a set of one or none.
ReadInstance(id) == IF PlaceOf(id) = NotFound THEN {} ELSE InstancesAt(PlaceOf(id))

\* Mutant of Learnt: places are entered under the next id read.
LearntMixed(ids) ==
    LET found == {id \in ids : PlaceOf(id) # NotFound}
    IN  [index EXCEPT !.instance_offsets =
           Over([id \in found |-> PlaceOf(CHOOSE x \in found : TRUE)], @)]

\* insert_offset, for each id read.
Learnt(ids) ==
    LET found == {id \in ids : PlaceOf(id) # NotFound}
    IN  [index EXCEPT !.instance_offsets = Over([id \in found |-> PlaceOf(id)], @)]

\* read_prim_array: the text it decodes to, as a set of one or none.
ArraysAt(at) == {s \in SubAt(at) : s.kind = "primArray" /\ Yields(s)}
ReadText(id) ==
    LET known == IF id \in DOMAIN index.instance_offsets
                 THEN ArraysAt(index.instance_offsets[id]) ELSE {}
        at    == FindIn(ranges, filters, "primArray", id)
    IN  {s.text : s \in IF known # {} THEN known
                        ELSE IF at = NotFound THEN {} ELSE ArraysAt(at)}

FieldOf(instances, name, type) ==
    LET values == {FirstNamed(Decode(index.class_dumps, s), index.field_names, name, type)
                   : s \in instances}
    IN  IF values = {} THEN NotFound ELSE CHOOSE v \in values : TRUE

-----------------------------------------------------------------------------
(* build_thread_cache                                                      *)

\* thread_state_from_status
StateOf(status) ==
    LET bit(b) == (status \div b) % 2 = 1
    IN  CASE bit(4)              -> "Runnable"
          [] ~bit(4) /\ bit(1024) -> "Blocked"
          [] ~bit(4) /\ ~bit(1024) /\ (bit(16) \/ bit(32)) -> "Waiting"
          [] OTHER -> "Unknown"

ThreadObject(serial) ==
    IF serial \in DOMAIN index.thread_object_ids
    THEN ReadInstance(index.thread_object_ids[serial]) ELSE {}

Holder(object) == FieldOf(object, "holder", "ref")
NameRef(object) == FieldOf(object, "name", "ref")
Direct(object) == FieldOf(object, "threadStatus", "int")

\* extract_thread_status: in the thread object, or else in its holder.
ThreadState(object) ==
    LET held == IF Holder(object) = NotFound THEN NotFound
                ELSE FieldOf(ReadInstance(Holder(object)), "threadStatus", "int")
        status == IF Direct(object) # NotFound THEN Direct(object) ELSE held
    IN  IF status = NotFound THEN "Unknown" ELSE StateOf(status)

\* resolve_thread_name_from_fields: name, its value array, its text.
ThreadName(object) ==
    LET string == IF NameRef(object) = NotFound THEN {} ELSE ReadInstance(NameRef(object))
        value  == FieldOf(string, "value", "ref")
        text   == IF value = NotFound THEN {} ELSE ReadText(value)
    IN  IF text = {} THEN Unnamed ELSE CHOOSE t \in text : TRUE

RecordName(serial) == Get(index.strings, index.threads[serial].name, Unnamed)

\* resolve_thread_from_heap, or the name in the thread's record.
MetaOf(serial) ==
    LET object == ThreadObject(serial)
    IN  IF object = {} THEN [name |-> RecordName(serial), state |-> "Unknown"]
        ELSE [name |-> ThreadName(object), state |-> ThreadState(object)]

\* The instances read for it.
ReadFor(serial) ==
    LET object == ThreadObject(serial)
    IN  IF serial \notin DOMAIN index.thread_object_ids THEN {}
        ELSE {index.thread_object_ids[serial], NameRef(object)}
             \cup IF Direct(object) = NotFound THEN {Holder(object)} ELSE {}

ResolveThread ==
    /\ Open
    /\ \E serial \in DOMAIN index.threads \ DOMAIN threadCache :
         /\ threadCache' = Put(threadCache, serial, MetaOf(serial))
         /\ index' = Learnt(ReadFor(serial))

-----------------------------------------------------------------------------
(* The queries.  Each reads objects and leaves their places behind.        *)

RefsIn(id) ==
    {f.value : f \in {g \in UNION {Range(Decode(index.class_dumps, s)) : s \in ReadInstance(id)}
                        : IsRef(g)}}

\* get_local_variables
LocalVariables(frame) == Get(index.java_frame_roots, frame, <<>>)

GetLocals ==
    /\ Open /\ Ready
    /\ \E f \in DOMAIN index.java_frame_roots :
         index' = Learnt(Range(LocalVariables(f)))
    /\ UNCHANGED threadCache

\* expand_object, as far as the index goes: the object and what it refers to.
ExpandObject ==
    /\ Open /\ Ready
    /\ \E id \in DOMAIN index.instance_offsets :
         index' = Learnt({id} \cup RefsIn(id))
    /\ UNCHANGED threadCache

\* get_static_fields
GetStatics ==
    /\ Open /\ Ready
    /\ \E c \in DOMAIN index.class_dumps :
         index' = Learnt({f.value : f \in {g \in Range(index.class_dumps[c].statics) :
                                             IsRef(g)}})
    /\ UNCHANGED threadCache

\* list_threads, select_thread and get_stack_frames leave no trace.
ListThreads ==
    /\ Open /\ Ready
    /\ UNCHANGED <<index, threadCache>>

-----------------------------------------------------------------------------

Init == InitScan /\ InitExtraction /\ InitResolution /\ threadCache = <<>>

Next ==
    \/ NextScan /\ UNCHANGED <<extractVars, resolveVars, threadCache>>
    \/ NextExtraction /\ UNCHANGED <<resolveVars, threadCache>>
    \/ NextResolution /\ UNCHANGED threadCache
    \/ ResolveThread \/ GetLocals \/ ExpandObject \/ GetStatics \/ ListThreads

Spec == Init /\ [][Next]_engineVars
=============================================================================
