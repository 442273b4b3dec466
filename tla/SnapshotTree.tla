---------------------------- MODULE SnapshotTree ----------------------------
(***************************************************************************)
(* A favorite: what is captured of the stack panel when a row is pinned    *)
(* (hprof-tui: favorites.rs), the rows the favorites panel draws of it     *)
(* (views/tree_render) and the rows the panel believes it draws, which its *)
(* keys act on (views/favorites_panel).  The last two are written twice in *)
(* the code, by two traversals of the same snapshot.                       *)
(***************************************************************************)
EXTENDS StackState, FiniteSets

CONSTANTS
    SnapshotLimit,  (* 500: objects captured in a snapshot                  *)
    MaxDepth,       (* 16: the recursion guard of both traversals           *)
    StackDepth      (* the length of path at which a thread's stack is full *)

HasCache(s, o) == o \in s.fields \union s.statics \union DOMAIN s.chunks

\* The indexes of the entries of a section, in order.
Indexes(from, count) == [k \in 1..count |-> from + k - 1]
EagerEntries(chunk, c) ==
    IF chunk.eager THEN Indexes(0, Min({ChunkSize, Len(Entries[c])})) ELSE <<>>
SectionEntries(c, o)   == Indexes(o, ChunkLimit(Len(Entries[c]), o))
LoadedSections(chunk)  == {o \in DOMAIN chunk.pages : chunk.pages[o] = "Loaded"}

-----------------------------------------------------------------------------
(* The capture.  A HashMap gives the loaded sections in any order; at the  *)
(* limit the order decides what is captured.                               *)

EntryIds(chunk, c, order) ==
    LET sections == SelectSeq(order, LAMBDA o : o \in LoadedSections(chunk))
        indexes  == EagerEntries(chunk, c)
                      \o FlattenSeq([k \in DOMAIN sections |-> SectionEntries(c, sections[k])])
    IN  [k \in DOMAIN indexes |-> Entries[c][indexes[k] + 1].id]

FieldIds(s, o) ==
    IF o \in s.fields THEN [i \in DOMAIN Fields[o] |-> Fields[o][i].id] ELSE <<>>

Referenced(ids) == SelectSeq(ids, LAMBDA id : id # NoId)

\* Mutant: the sections are not walked, the eager page alone is.
ChildIdsOfEager(s, o, order) ==
    Referenced(FieldIds(s, o)
                 \o IF o \in DOMAIN s.chunks THEN EntryIds(s.chunks[o], o, <<>>) ELSE <<>>)

\* The objects an object leads to, in the order they are walked.
ChildIds(s, o, order) ==
    Referenced(FieldIds(s, o)
                 \o IF o \in DOMAIN s.chunks THEN EntryIds(s.chunks[o], o, order) ELSE <<>>)

Full(visited) == Cardinality(visited) >= SnapshotLimit

RECURSIVE WalkObject(_, _, _, _), WalkChildren(_, _, _, _)

\* Depth first from o; a walk that meets the limit stops and says so.
WalkObject(s, order, o, visited) ==
    IF Full(visited) THEN [visited |-> visited, truncated |-> TRUE]
    ELSE IF o \in visited THEN [visited |-> visited, truncated |-> FALSE]
    ELSE WalkChildren(s, order, ChildIds(s, o, order), visited \union {o})

WalkChildren(s, order, ids, visited) ==
    IF ids = <<>> THEN [visited |-> visited, truncated |-> FALSE]
    ELSE LET child == WalkObject(s, order, Head(ids), visited)
         IN  IF child.truncated \/ Full(child.visited)
             THEN [child EXCEPT !.truncated = TRUE]
             ELSE WalkChildren(s, order, Tail(ids), child.visited)

\* A section that is loading is captured as one that is closed.
Frozen(chunk) ==
    [chunk EXCEPT !.pages = [o \in DOMAIN @ |-> IF @[o] = "Loaded" THEN "Loaded" ELSE "Collapsed"]]

\* Variables that were never listed are captured as none.
VarsIn(s, f) == IF f \in s.vars THEN Vars[f] ELSE <<>>

Captured(s, kind, root, walk) ==
    [kind      |-> kind,
     root      |-> root,
     vars      |-> IF kind = "Frame" THEN VarsIn(s, root) ELSE <<>>,
     fields    |-> s.fields \intersect walk.visited,
     statics   |-> s.statics \intersect walk.visited,
     chunks    |-> [c \in DOMAIN s.chunks \intersect walk.visited |-> Frozen(s.chunks[c])],
     truncated |-> walk.truncated \/ Full(walk.visited)]

Nothing == [visited |-> {}, truncated |-> FALSE]

OfValue(s, order, v) ==
    IF ~IsRef(v) THEN Captured(s, "Primitive", NoId, Nothing)
    ELSE IF HasCache(s, v.id) THEN Captured(s, "Subtree", v.id, WalkObject(s, order, v.id, {}))
    ELSE Captured(s, "UnexpandedRef", v.id, Nothing)

\* The variables of a frame share the limit.
FrameWalk(s, order, f) ==
    FoldLeft(LAMBDA walk, v :
                IF Full(walk.visited) THEN [walk EXCEPT !.truncated = TRUE]
                ELSE IF ~IsRef(v) THEN walk
                ELSE LET next == WalkObject(s, order, v.id, walk.visited)
                     IN  [next EXCEPT !.truncated = @ \/ walk.truncated \/ Full(next.visited)],
             Nothing, VarsIn(s, f))

OfFrame(s, order, f) == Captured(s, "Frame", f, FrameWalk(s, order, f))

\* The value of the row p, as the snapshot resolves it.
PinnedValue(s, p) ==
    CASE Len(p) = 2         -> Slot(Vars[p[1][2]], p[2][2])
      [] Kind(p) = "field"  -> Member(s.fields, Fields, PathEnd(s, Front(p)), Last(p)[2])
      [] Kind(p) = "static" -> Member(s.statics, Statics, PathEnd(s, Front(p)), Last(p)[2])
      [] Kind(p) = "entry"  -> EntryRef(s, Last(p)[2], Last(p)[3])

SnapshotAt(s, order, p) ==
    IF Len(p) = 1 THEN OfFrame(s, order, p[1][2]) ELSE OfValue(s, order, PinnedValue(s, p))

\* A new favorite: everything captured is open and nothing is hidden.
NewPin(s, order, p) ==
    [path |-> p, snapshot |-> SnapshotAt(s, order, p),
     collapsed |-> {}, hidden |-> {}, reveal |-> FALSE]

-----------------------------------------------------------------------------
(* What both traversals share.                                             *)

VarKey(i)      == <<"var", i>>
FieldKey(o, i) == <<"field", o, i>>
NoKey          == <<>>
NoPath         == <<>>

\* The paths of a snapshot start at a place of its own.
RootPath(snap) == <<FrameSeg(snap.root), VarSeg(0)>>
VarPath(i)     == <<FrameSeg(0), VarSeg(i)>>

\* Mutant: places are told apart by their last segment alone.
OpenByLastSegment(pin, o, p) ==
    (\A q \in pin.collapsed : Last(q) # Last(p)) /\ HasCache(pin.snapshot, o)

\* Open unless its place is closed: the places of one object are independent.
OpenAt(pin, o, p) == p \notin pin.collapsed /\ HasCache(pin.snapshot, o)

IsPaged(pin, v) == IsColl(v) /\ v.id \in DOMAIN pin.snapshot.chunks

FieldsOf(pin, o) == IF o \in pin.snapshot.fields THEN Fields[o] ELSE <<>>

\* The sections in the order they are drawn.
SectionsOf(chunk) == SetToSortSeq(LoadedSections(chunk), <)

-----------------------------------------------------------------------------
(* The rows drawn.  A row has its place in the tree, its sign ("+", "-",   *)
(* "?", none, or what it is instead of a node), the object and the field   *)
(* it shows.                                                               *)

Drawn(p, sign, o, key) == [place |-> p, sign |-> sign, id |-> o, key |-> key]
Text(p)                == Drawn(Append(p, <<"text">>), "text", NoId, NoKey)

\* object_ref_state: null, primitives and empty collections have no sign, what
\* was not captured has "?".
Sign(pin, v, p) ==
    IF ~IsRef(v) \/ v.count = 0 THEN " "
    ELSE IF ~HasCache(pin.snapshot, v.id) THEN "?"
    ELSE IF OpenAt(pin, v.id, p) THEN "-" ELSE "+"

RECURSIVE DrawFields(_, _, _, _, _), DrawCollection(_, _, _, _, _)

DrawField(pin, o, i, v, p, depth, visited) ==
    LET sign == Sign(pin, v, p)
    IN  IF FieldKey(o, i) \in pin.hidden
        THEN IF pin.reveal THEN <<Drawn(p, "hidden", NoId, FieldKey(o, i))>> ELSE <<>>
        ELSE IF IsRef(v) /\ v.id \in visited
        THEN <<Drawn(p, "cyclic", v.id, FieldKey(o, i))>>
        ELSE <<Drawn(p, sign, v.id, FieldKey(o, i))>>
             \o CASE sign = "?" \/ ~IsRef(v) -> <<>>
                  [] sign # "?" /\ IsPaged(pin, v) ->
                        IF sign = "-" THEN DrawCollection(pin, v.id, p, depth, {}) ELSE <<>>
                  [] OTHER -> DrawFields(pin, v.id, p, depth + 1, visited)

DrawFields(pin, o, p, depth, visited) ==
    IF depth >= MaxDepth \/ ~OpenAt(pin, o, p) THEN <<>>
    ELSE IF FieldsOf(pin, o) = <<>> THEN <<Text(p)>>
    ELSE FlattenSeq([i \in DOMAIN Fields[o] |->
            DrawField(pin, o, i, Fields[o][i], Append(p, FieldSeg(i)),
                      depth, visited \union {o})])

DrawEntry(pin, c, v, p, depth, colls) ==
    LET sign == Sign(pin, v, p)
    IN  <<Drawn(p, sign, v.id, NoKey)>>
        \o CASE sign = "?" \/ ~IsRef(v) -> <<>>
             [] sign # "?" /\ IsPaged(pin, v) /\ v.id # c ->
                   IF sign = "-" THEN DrawCollection(pin, v.id, p, depth, colls) ELSE <<>>
             [] OTHER -> DrawFields(pin, v.id, p, depth, {})

DrawEntries(pin, c, indexes, p, depth, colls) ==
    FlattenSeq([k \in DOMAIN indexes |->
        DrawEntry(pin, c, Entries[c][indexes[k] + 1], Append(p, EntrySeg(c, indexes[k])),
                  depth, colls)])

\* The eager page, then each section that is loaded under a row of its own.
DrawCollection(pin, c, p, depth, colls) ==
    IF depth >= MaxDepth \/ c \in colls THEN <<>>
    ELSE LET chunk == pin.snapshot.chunks[c]
             draw(indexes) == DrawEntries(pin, c, indexes, p, depth, colls \union {c})
         IN  draw(EagerEntries(chunk, c))
             \o FlattenSeq([k \in DOMAIN SectionsOf(chunk) |->
                    <<Text(p)>> \o draw(SectionEntries(c, SectionsOf(chunk)[k]))])

DrawVar(pin, i, v) ==
    LET p    == VarPath(i)
        sign == Sign(pin, v, p)
    IN  IF VarKey(i) \in pin.hidden
        THEN IF pin.reveal THEN <<Drawn(p, "hidden", NoId, VarKey(i))>> ELSE <<>>
        ELSE <<Drawn(p, sign, v.id, VarKey(i))>>
             \o CASE sign = "?" \/ ~IsRef(v) -> <<>>
                  [] sign # "?" /\ IsColl(v) ->
                        IF sign = "-" /\ IsPaged(pin, v)
                        THEN DrawCollection(pin, v.id, p, 0, {}) ELSE <<>>
                  [] OTHER -> DrawFields(pin, v.id, p, 0, {})

\* render_variable_tree
DrawTree(pin) ==
    LET snap == pin.snapshot
    IN  IF snap.kind = "Frame"
        THEN IF snap.vars = <<>> THEN <<Text(NoPath)>>
             ELSE FlattenSeq([i \in DOMAIN snap.vars |-> DrawVar(pin, i, snap.vars[i])])
        ELSE IF snap.root \in DOMAIN snap.chunks
        THEN DrawCollection(pin, snap.root, RootPath(snap), 0, {})
        ELSE DrawFields(pin, snap.root, RootPath(snap), 0, {})

\* A favorite on the screen: a header, a note when the snapshot is partial,
\* the tree or the label, and a blank row.
DrawPin(pin) ==
    <<Text(NoPath)>>
    \o CASE pin.snapshot.kind \in {"Frame", "Subtree"} ->
              (IF pin.snapshot.truncated THEN <<Text(NoPath)>> ELSE <<>>) \o DrawTree(pin)
         [] OTHER -> <<Text(NoPath)>>
    \o <<Text(NoPath)>>

-----------------------------------------------------------------------------
(* The rows the panel believes in: for each row the path, the object and   *)
(* whether it is closed when it can be opened and closed, and its key when *)
(* it can be hidden.                                                       *)

Believed(p, o, closed, key, hidden) ==
    [path |-> p, id |-> o, closed |-> closed, key |-> key, hidden |-> hidden]
Plain     == Believed(NoPath, NoId, FALSE, NoKey, FALSE)
Fixed(key) == Believed(NoPath, NoId, FALSE, key, FALSE)

\* Mutant: a hidden row is counted though it is not drawn.
HiddenRowsCounted(pin, key) == <<Believed(NoPath, NoId, FALSE, key, TRUE)>>

HiddenRows(pin, key) ==
    IF pin.reveal THEN <<Believed(NoPath, NoId, FALSE, key, TRUE)>> ELSE <<>>

\* resolve_at_path: what was captured of it can be opened and closed.
Toggleable(pin, v) ==
    IsRef(v) /\ (IsPaged(pin, v) \/ v.id \in pin.snapshot.fields \union pin.snapshot.statics)

\* The row of a value, then its entries or the rows below it.
CollectNode(pin, v, p, key, entries, below) ==
    IF ~Toggleable(pin, v) THEN <<Fixed(key)>>
    ELSE <<Believed(p, v.id, ~OpenAt(pin, v.id, p), key, FALSE)>>
         \o IF ~IsPaged(pin, v) THEN below
            ELSE IF OpenAt(pin, v.id, p) THEN entries ELSE <<>>

RECURSIVE CollectFields(_, _, _, _, _), CollectEntryFields(_, _, _, _, _),
          CollectCollection(_, _, _)

\* The fields of an object reached by fields.
CollectFields(pin, o, p, depth, visited) ==
    IF depth >= MaxDepth \/ ~OpenAt(pin, o, p) THEN <<>>
    ELSE IF FieldsOf(pin, o) = <<>> THEN <<Plain>>
    ELSE FlattenSeq([i \in DOMAIN Fields[o] |->
            LET v   == Fields[o][i]
                q   == Append(p, FieldSeg(i))
                key == FieldKey(o, i)
            IN  IF key \in pin.hidden THEN HiddenRows(pin, key)
                ELSE IF v.id \in visited \union {o} THEN <<Plain>>
                ELSE CollectNode(pin, v, q, key, CollectCollection(pin, v.id, q),
                        CollectFields(pin, v.id, q, depth + 1, visited \union {o}))])

\* The fields of an entry, and of what these lead to: never hidden, and with a
\* depth and a trail of their own.
CollectEntryFields(pin, o, p, depth, visited) ==
    IF depth >= MaxDepth \/ ~OpenAt(pin, o, p) THEN <<>>
    ELSE IF FieldsOf(pin, o) = <<>> THEN <<Plain>>
    ELSE FlattenSeq([i \in DOMAIN Fields[o] |->
            LET v == Fields[o][i]
                q == Append(p, FieldSeg(i))
            IN  IF v.id \in visited \union {o} THEN <<Plain>>
                ELSE CollectNode(pin, v, q, NoKey, CollectCollection(pin, v.id, q),
                        CollectEntryFields(pin, v.id, q, depth + 1, visited \union {o}))])

CollectEntry(pin, c, v, p) ==
    CollectNode(pin, v, p, NoKey,
                IF v.id # c THEN CollectCollection(pin, v.id, p) ELSE <<>>,
                CollectEntryFields(pin, v.id, p, 0, {}))

CollectEntries(pin, c, indexes, p) ==
    FlattenSeq([k \in DOMAIN indexes |->
        CollectEntry(pin, c, Entries[c][indexes[k] + 1], Append(p, EntrySeg(c, indexes[k])))])

\* No depth here: a collection that leads back to itself is entered for ever,
\* until the stack of the thread is full.
CollectCollection(pin, c, p) ==
    IF Len(p) > StackDepth THEN <<Plain>>
    ELSE LET chunk == pin.snapshot.chunks[c]
         IN  CollectEntries(pin, c, EagerEntries(chunk, c), p)
             \o FlattenSeq([k \in DOMAIN SectionsOf(chunk) |->
                    <<Plain>> \o CollectEntries(pin, c, SectionEntries(c, SectionsOf(chunk)[k]), p)])

CollectVar(pin, i, v) ==
    LET p == VarPath(i)
    IN  IF VarKey(i) \in pin.hidden THEN HiddenRows(pin, VarKey(i))
        ELSE CollectNode(pin, v, p, VarKey(i), CollectCollection(pin, v.id, p),
                         CollectFields(pin, v.id, p, 0, {}))

CollectTree(pin) ==
    LET snap == pin.snapshot
    IN  IF snap.kind = "Frame"
        THEN IF snap.vars = <<>> THEN <<Plain>>
             ELSE FlattenSeq([i \in DOMAIN snap.vars |-> CollectVar(pin, i, snap.vars[i])])
        ELSE IF snap.root \in DOMAIN snap.chunks
        THEN CollectCollection(pin, snap.root, RootPath(snap))
        ELSE CollectFields(pin, snap.root, RootPath(snap), 0, {})

\* collect_row_metadata
CollectPin(pin) ==
    <<Plain>>
    \o CASE pin.snapshot.kind \in {"Frame", "Subtree"} ->
              (IF pin.snapshot.truncated THEN <<Plain>> ELSE <<>>) \o CollectTree(pin)
         [] OTHER -> <<Plain>>
    \o <<Plain>>
=============================================================================
