---------------------------- MODULE StackState ----------------------------
(***************************************************************************)
(* The stack panel of the TUI: which frames and objects are open, what of  *)
(* the heap is cached, and the rows this shows (hprof-tui:                 *)
(* views/stack_view/state.rs, expansion.rs, types.rs, format.rs).          *)
(*                                                                         *)
(* A value s is a StackState; the operators are its methods.  The heap is  *)
(* constant, so a cache is the set of the ids whose data it holds.  A path *)
(* is a sequence of segments: a frame, a variable, then fields, static     *)
(* fields and collection entries.  Order on the screen matters only for    *)
(* the first row and for Above, so the rows are a set.                     *)
(***************************************************************************)
EXTENDS Integers, Sequences, SequencesExt

CONSTANTS
    NoId,         (* the id of a null or a primitive                       *)
    Vars,         (* the variables of each frame                           *)
    Fields,       (* the instance fields of each object                    *)
    Statics,      (* the static fields of each object's class              *)
    Entries,      (* the entries of each collection                        *)
    ChunkSize,    (* 100: the eager page and the sections below SectionSize *)
    SectionSize   (* 1000: the sections above it                           *)

ASSUME ChunkAssumption ==
    /\ ChunkSize \in Nat \ {0}
    /\ SectionSize \in {k * ChunkSize : k \in 1..10}

Ids == DOMAIN Fields

\* A reference to an object, or to a collection of count entries.
Ref(o)     == [id |-> o, count |-> -1]
Coll(c, n) == [id |-> c, count |-> n]
NoRef      == Ref(NoId)
IsRef(v)   == v.id # NoId
IsColl(v)  == v.count >= 0

FrameSeg(f)    == <<"frame", f>>
VarSeg(i)      == <<"var", i>>
FieldSeg(i)    == <<"field", i>>
StaticSeg(i)   == <<"static", i>>
EntrySeg(c, i) == <<"entry", c, i>>
Kind(p)        == Last(p)[1]
Prefix(p, n)   == SubSeq(p, 1, n)

Row(k, p) == [kind |-> k, path |-> p]
At(p)     == Row("at", p)
NoFrames  == Row("noframes", <<>>)

Slot(seq, i) == IF i \in DOMAIN seq THEN seq[i] ELSE NoRef

-----------------------------------------------------------------------------
(* Collections: chunk sections, pages and entries.                         *)

ChunkOffsets(total) ==
    IF total <= ChunkSize THEN {}
    ELSE {o \in 1..(total - 1) :
            IF o < SectionSize THEN o % ChunkSize = 0 ELSE o % SectionSize = 0}

ChunkLimit(total, o) ==
    LET end == IF o < SectionSize THEN SectionSize ELSE total
        size == IF o < SectionSize THEN ChunkSize ELSE SectionSize
    IN  Min({size, Min({end, total}) - o})

Sections(total) == [o \in ChunkOffsets(total) |-> "Collapsed"]

\* An entry is found in the eager page or in a chunk that is loaded.
FindEntry(s, c, i) ==
    /\ c \in DOMAIN s.chunks
    /\ i + 1 \in DOMAIN Entries[c]
    /\ \/ s.chunks[c].eager /\ i < ChunkSize
       \/ \E o \in DOMAIN s.chunks[c].pages :
             /\ s.chunks[c].pages[o] = "Loaded"
             /\ i \in o..(o + ChunkLimit(Len(Entries[c]), o) - 1)

\* The entry, when its page is loaded.
EntryRef(s, c, i) == IF FindEntry(s, c, i) THEN Entries[c][i + 1] ELSE NoRef

-----------------------------------------------------------------------------
(* What a path leads to: in the heap, and as the caches resolve it.        *)

\* The i-th member of an object whose members are cached.
Member(cached, members, o, i) == IF o \in cached THEN Slot(members[o], i) ELSE NoRef

HeapStep(v, seg) ==
    CASE seg[1] = "field"  -> Slot(Fields[v.id], seg[2])
      [] seg[1] = "static" -> Slot(Statics[v.id], seg[2])
      [] seg[1] = "entry"  -> Slot(Entries[seg[2]], seg[3] + 1)

HeapAt(p) ==
    LET val[n \in 2..Len(p)] ==
            IF n = 2 THEN Slot(Vars[p[1][2]], p[2][2])
            ELSE HeapStep(val[n - 1], p[n])
    IN  IF Len(p) < 2 THEN NoRef ELSE val[Len(p)]

\* resolve_field_chain: fields and entries only, NoId for anything else.
ChainStep(s, o, seg) ==
    CASE seg[1] = "field" -> Member(s.fields, Fields, o, seg[2]).id
      [] seg[1] = "entry" -> EntryRef(s, seg[2], seg[3]).id
      [] OTHER            -> NoId

ResolveChain(s, root, segs) ==
    LET id[n \in 0..Len(segs)] ==
            IF n = 0 THEN root
            ELSE IF id[n - 1] = NoId THEN NoId
            ELSE ChainStep(s, id[n - 1], segs[n])
    IN  id[Len(segs)]

RootOf(s, p) ==
    IF Len(p) >= 2 /\ p[1][2] \in s.vars
    THEN Slot(Vars[p[1][2]], p[2][2]).id ELSE NoId

\* Mutant: every field is taken for one of the variable's object.
OwnerOfRoot(s, p) == RootOf(s, p)

\* The object that owns the field at the end of p, as the selected_* methods
\* find it: the root object of the variable when the chain does not resolve.
OwnerOf(s, p) ==
    LET owner == ResolveChain(s, RootOf(s, p), SubSeq(p, 3, Len(p) - 1))
    IN  IF owner = NoId THEN RootOf(s, p) ELSE owner

\* The object at the end of p as go-to-pin and the favorites resolve it.
PathStep(s, o, seg) ==
    CASE seg[1] = "field"  -> Member(s.fields, Fields, o, seg[2]).id
      [] seg[1] = "static" -> Member(s.statics, Statics, o, seg[2]).id
      [] seg[1] = "entry"  -> EntryRef(s, seg[2], seg[3]).id

PathEnd(s, p) ==
    LET id[n \in 2..Len(p)] ==
            IF n = 2 THEN RootOf(s, p) ELSE PathStep(s, id[n - 1], p[n])
    IN  IF Len(p) < 2 THEN NoId ELSE id[Len(p)]

\* snapshot_for_path: the rows that can be pinned.
Pinnable(s, p) ==
    CASE Len(p) = 1         -> TRUE
      [] Len(p) = 2         -> p[1][2] \in s.vars /\ p[2][2] \in DOMAIN Vars[p[1][2]]
      [] Kind(p) = "field"  -> PathEnd(s, Front(p)) \in s.fields
      [] Kind(p) = "static" -> PathEnd(s, Front(p)) \in s.statics
      [] Kind(p) = "entry"  -> FindEntry(s, Last(p)[2], Last(p)[3])

\* The reference the row At(p) stands for when a key is pressed on it.
SelectedRef(s, p) ==
    CASE RootOf(s, p) = NoId -> NoRef
      [] Len(p) = 2         -> Slot(Vars[p[1][2]], p[2][2])
      [] Kind(p) = "field"  -> Member(s.fields, Fields, OwnerOf(s, p), Last(p)[2])
      [] Kind(p) = "static" -> Member(s.statics, Statics, OwnerOf(s, p), Last(p)[2])
      [] Kind(p) = "entry"  -> EntryRef(s, Last(p)[2], Last(p)[3])

\* Keys open anything but an empty collection.
Expandable(v) == IsRef(v) /\ v.count # 0

\* object_id_from_last_segment: the root, or the owner of the last segment.
LoadingObject(s, p) ==
    IF Len(p) = 2 THEN RootOf(s, p)
    ELSE IF RootOf(s, p) = NoId THEN NoId
    ELSE ResolveChain(s, RootOf(s, p), SubSeq(p, 3, Len(p) - 1))

\* What `c` expands at p: like the heap, but never across a static field.
TargetStep(s, o, seg) ==
    CASE o # NoId /\ seg[1] = "field" -> Member(s.fields, Fields, o, seg[2])
      [] o # NoId /\ seg[1] = "entry" -> EntryRef(s, seg[2], seg[3])
      [] OTHER                        -> NoRef

\* An entry that is a collection is not crossed.
Crossed(v, seg) == IF seg[1] = "entry" /\ IsColl(v) THEN NoRef ELSE v

ExpandTarget(s, p) ==
    LET ref[n \in 2..Len(p)] ==
            IF n = 2 THEN IF RootOf(s, p) = NoId THEN NoRef
                          ELSE Slot(Vars[p[1][2]], p[2][2])
            ELSE TargetStep(s, Crossed(ref[n - 1], p[n - 1]).id, p[n])
    IN  IF Len(p) < 2 THEN NoRef ELSE ref[Len(p)]

-----------------------------------------------------------------------------
(* The rows on the screen.                                                 *)

Phase(s, p) == IF p \in DOMAIN s.phases THEN s.phases[p] ELSE "Collapsed"
Loaded(s, c) == {i \in 0..(Len(Entries[c]) - 1) : FindEntry(s, c, i)}

\* The objects on the way down to p from its nearest variable, static field
\* or entry: a field that refers to one of them is a cycle.
Root(p)        == Max({j \in 2..Len(p) : p[j][1] # "field"})
Ancestors(p)   == {HeapAt(Prefix(p, j)).id : j \in Root(p)..Len(p)}
IsCyclic(p, v) == Kind(p) = "field" /\ IsRef(v) /\ v.id \in Ancestors(Front(p))

\* An entry that refers to its own collection is shown as an object.
IsCollRow(p, v) == IsColl(v) /\ (Kind(p) = "entry" => v.id # Last(p)[2])

\* The rows below the row At(p), which stands for an object or a collection.
CollectionRows(s, p, cid) ==
    IF Phase(s, p) # "Expanded" \/ cid \notin DOMAIN s.chunks THEN {}
    ELSE {At(Append(p, EntrySeg(cid, i))) : i \in Loaded(s, cid)} \union
         {Row("chunk", Append(p, EntrySeg(cid, o))) :
             o \in ChunkOffsets(s.chunks[cid].total)}

\* Rows of static objects show no statics of their own; under an entry a
\* cyclic field keeps its row, elsewhere it is only a marker.
FieldRow(p, v) ==
    IF IsCyclic(p, v) /\ p[Root(p)][1] # "entry" THEN Row("cyclic", p) ELSE At(p)

FieldRows(p, o) ==
    {FieldRow(Append(p, FieldSeg(i)), Fields[o][i]) : i \in DOMAIN Fields[o]}

StaticRows(s, p, o) ==
    IF p[Root(p)][1] = "static" \/ o \notin s.statics THEN {}
    ELSE {Row("section", p)} \union
         IF p \notin s.sections THEN {}
         ELSE {At(Append(p, StaticSeg(i))) : i \in DOMAIN Statics[o]}

ObjectRows(s, p, o) ==
    CASE Phase(s, p) = "Loading" -> {Row("loading", p)}
      [] Phase(s, p) = "Expanded" ->
            StaticRows(s, p, o) \union
            IF o \in s.fields THEN FieldRows(p, o)
            ELSE IF p[Root(p)][1] = "var" THEN {} ELSE {Row("loading", p)}
      [] OTHER -> {}

ValueRows(s, p, v) ==
    IF ~IsRef(v) \/ IsCyclic(p, v) THEN {}
    ELSE IF IsCollRow(p, v) THEN CollectionRows(s, p, v.id) ELSE ObjectRows(s, p, v.id)

\* The rows right below the row At(p).
ChildRows(s, p) ==
    IF Len(p) > 1 THEN ValueRows(s, p, HeapAt(p))
    ELSE IF p[1][2] \notin s.expanded THEN {}
    ELSE {At(Append(p, VarSeg(i))) : i \in DOMAIN Vars[p[1][2]] \union {1}}

FramePaths(s) == {<<FrameSeg(s.frames[i])>> : i \in DOMAIN s.frames}

\* The rows reached from the frames, given the rows below each open path.
Reached(frames, below) ==
    LET shown == {p \in DOMAIN below :
                     /\ Prefix(p, 1) \in frames
                     /\ \A n \in 2..Len(p) : /\ Prefix(p, n - 1) \in DOMAIN below
                                            /\ At(Prefix(p, n)) \in below[Prefix(p, n - 1)]}
    IN  {At(p) : p \in frames} \union UNION {below[p] : p \in shown}

FlatItems(s) ==
    IF s.frames = <<>> THEN {NoFrames}
    ELSE Reached(FramePaths(s),
                 [p \in FramePaths(s) \union DOMAIN s.phases |-> ChildRows(s, p)])

FirstRow(s) == IF s.frames = <<>> THEN NoFrames ELSE At(<<FrameSeg(Head(s.frames))>>)

\* The order of two rows on the screen.
Rank(s, seg) ==
    CASE seg[1] = "frame"  -> CHOOSE i \in DOMAIN s.frames : s.frames[i] = seg[2]
      [] seg[1] = "entry"  -> seg[3]
      [] seg[1] = "static" -> 1000 + seg[2]
      [] OTHER             -> seg[2]

Above(s, p, q) ==
    \/ IsStrictPrefix(p, q)
    \/ \E n \in DOMAIN p \intersect DOMAIN q :
          /\ Prefix(p, n - 1) = Prefix(q, n - 1)
          /\ Rank(s, p[n]) < Rank(s, q[n])

-----------------------------------------------------------------------------
(* Changes of the state.                                                   *)

NewStack(frames) ==
    [frames   |-> frames,
     expanded |-> {},        (* frames                                     *)
     vars     |-> {},        (* frames whose variables are cached          *)
     phases   |-> << >>,     (* path -> Loading, Expanded or Failed        *)
     fields   |-> {},        (* objects whose instance fields are cached   *)
     statics  |-> {},        (* objects whose static fields are cached     *)
     chunks   |-> << >>,     (* collection -> total, eager page, sections  *)
     sections |-> {},        (* paths whose static section is open         *)
     home     |-> << >>,     (* object -> the path it was last expanded at *)
     cursor   |-> IF frames = <<>> THEN NoFrames ELSE At(<<FrameSeg(Head(frames))>>)]

Put(f, k, v)  == [x \in DOMAIN f \union {k} |-> IF x = k THEN v ELSE f[x]]
Without(f, S) == Restrict(f, DOMAIN f \ S)

SetPhase(s, p, ph) == [s EXCEPT !.phases = Put(@, p, ph)]
SetCursor(s, row)  == [s EXCEPT !.cursor = row]

ParentCursor(s) ==
    CASE s.cursor.kind = "section" -> {At(s.cursor.path)}
      [] s.cursor.kind # "section" /\ Len(s.cursor.path) > 1 -> {At(Front(s.cursor.path))}
      [] OTHER -> {}

\* collapse_at_path: the path and all that is below it.
CollapseAtPath(s, p) ==
    [s EXCEPT !.phases   = Without(@, {q \in DOMAIN @ : IsPrefix(p, q)}),
              !.sections = {q \in @ : ~IsPrefix(p, q)},
              !.home     = Without(@, {o \in DOMAIN @ : IsPrefix(p, @[o])})]

\* resync_cursor_after_collapse.
Resynced(s, flat) ==
    CASE s.cursor \in flat -> s
      [] s.cursor \notin flat /\ ParentCursor(s) \intersect flat # {} ->
            SetCursor(s, CHOOSE r \in ParentCursor(s) : TRUE)
      [] OTHER -> SetCursor(s, FirstRow(s))

Resync(s) == Resynced(s, FlatItems(s))

ToggleSection(s, p) ==
    [s EXCEPT !.sections = IF p \in @ THEN @ \ {p} ELSE @ \union {p},
              !.cursor   = Row("section", p)]

\* collapse_all_for_object, of every object of a set.
CollapseById(s, os) ==
    [s EXCEPT !.fields   = @ \ os,
              !.statics  = @ \ os,
              !.sections = @ \ {s.home[o] : o \in os \intersect DOMAIN s.home},
              !.home     = Without(@, os)]

\* collect_descendants: what the cached fields reach from a set of objects.
Descendants(s, os) ==
    LET reach[n \in 0..Cardinality(Ids)] ==
            IF n = 0 THEN os
            ELSE reach[n - 1] \union
                 UNION {{v.id : v \in {Fields[o][i] : i \in DOMAIN Fields[o]}} \ {NoId} :
                        o \in reach[n - 1] \intersect s.fields}
    IN  reach[Cardinality(Ids)]

ExpandFrame(s, f) ==
    [s EXCEPT !.expanded = @ \union {f}, !.vars = @ \union {f}]

CollapseFrame(s, f) ==
    LET roots == {v.id : v \in {Vars[f][i] : i \in DOMAIN Vars[f]}} \ {NoId}
        t     == CollapseById(s, Descendants(s, roots))
        under == {p \in DOMAIN t.phases \union t.sections : p[1] = FrameSeg(f)}
    IN  [t EXCEPT !.expanded = @ \ {f},
                  !.phases   = Without(@, under),
                  !.sections = @ \ under,
                  !.cursor   = IF @.path # <<>> /\ @.path[1] = FrameSeg(f)
                               THEN At(<<FrameSeg(f)>>) ELSE @]

\* set_expansion_done_at_path and set_static_fields.
ExpansionDone(s, p, o) ==
    [SetPhase(s, p, "Expanded") EXCEPT
        !.fields  = @ \union {o},
        !.home    = Put(@, o, p),
        !.statics = IF Statics[o] = <<>> THEN @ \ {o} ELSE @ \union {o}]

\* set_expansion_failed: a cursor whose row is gone moves to the row itself
\* or to its parent.
Reseated(s, flat) ==
    LET here == {At(s.cursor.path)} \intersect flat
        up   == ParentCursor(s) \intersect flat
    IN  IF s.cursor \in flat \/ here \union up = {} THEN s
        ELSE SetCursor(s, CHOOSE r \in IF here # {} THEN here ELSE up : TRUE)

WithFailure(s, p, o) == [SetPhase(s, p, "Failed") EXCEPT !.statics = @ \ {o}]

ExpansionFailed(s, p, o) ==
    Reseated(WithFailure(s, p, o), FlatItems(WithFailure(s, p, o)))

\* position_cursor_and_scroll: the row of p, or the first row.
PositionCursor(s, p) ==
    IF p = <<>> \/ s.frames = <<>> THEN s
    ELSE SetCursor(s, IF At(p) \in FlatItems(s) THEN At(p) ELSE FirstRow(s))

\* The paths `c` expands below p: p itself, or its visible descendants that
\* are collapsed objects, up to the next collection.
ExpandableBelow(s, p) ==
    {q \in {r.path : r \in {x \in FlatItems(s) : x.kind = "at"}} :
        /\ IsStrictPrefix(p, q)
        /\ \A n \in (Len(p) + 1)..Len(q) : q[n][1] # "entry"
        /\ Phase(s, q) = "Collapsed"
        /\ LET v == ExpandTarget(s, q) IN IsRef(v) /\ ~IsColl(v)}

CollapsedExpandableAt(s, p, v) ==
    IF Phase(s, p) = "Collapsed" /\ IsRef(v) THEN {p}
    ELSE IF IsColl(v) THEN {} ELSE ExpandableBelow(s, p)
=============================================================================
