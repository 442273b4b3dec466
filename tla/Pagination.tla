----------------------------- MODULE Pagination -----------------------------
(***************************************************************************)
(* Pages of a collection (hprof-engine: pagination/mod.rs, and get_page of *)
(* engine_impl/mod.rs).  A page of a chained collection is walked from the *)
(* nearest checkpoint of its skip-index, leaves new checkpoints behind,    *)
(* and caches the places of what it reads.  A request is one step, for the *)
(* mutex of the skip-indexes is held throughout; how requests and walkers  *)
(* interleave below that is WalkerEngine's matter.                         *)
(*                                                                         *)
(* Heap gives the object with an id: [kind: "instance", class, fields],    *)
(* [kind: "objArray", elements] or [kind: "primArray", size, bytes], where *)
(* size is that of an element, 0 for an unknown type.  A field is a record *)
(* [name, type, value]; the reference 0 is null.                           *)
(***************************************************************************)
EXTENDS Integers, FiniteSets, SequencesExt

CONSTANTS
    Heap,             (* the objects of the dump, as a function of their id *)
    Subjects,         (* the sets of collections one session pages through  *)
    Ranges,           (* the [offset, limit] asked for                      *)
    SkipInterval,     (* SKIP_INTERVAL                                      *)
    BatchThreshold    (* BATCH_THRESHOLD: table heads worth a batch look-up *)

ASSUME PagingAssumption ==
    /\ Ranges \subseteq [offset : Nat, limit : Nat \ {0}]
    /\ SkipInterval \in Nat \ {0} /\ BatchThreshold \in Nat

VARIABLES
    subject,    (* the collections of this session                          *)
    skip,       (* skip_indexes                                             *)
    cached,     (* the ids whose place is in the offset cache               *)
    served      (* the last page and what it was asked for                  *)

vars == <<subject, skip, cached, served>>

Chained    == {"HashMap", "LinkedHashMap", "ConcurrentHashMap"}
Sets       == {"HashSet", "LinkedHashSet"}
ArrayLists == {"ArrayList", "CopyOnWriteArrayList", "Vector"}
Counts     == {"size", "elementCount", "count"}
Counted    == Chained \cup Sets \cup ArrayLists \cup {"LinkedList"}
Null       == [type |-> "ref", value |-> 0]

SI == INSTANCE SkipIndex WITH Nodes <- Nat \X DOMAIN Heap

-----------------------------------------------------------------------------
(* Reading objects                                                         *)

Objects      == {id \in DOMAIN Heap : Heap[id].kind = "instance"}
ObjectArrays == {id \in DOMAIN Heap : Heap[id].kind = "objArray"}
PrimArrays   == {id \in DOMAIN Heap : Heap[id].kind = "primArray"}
Fields(id)   == ToSet(Heap[id].fields)
The(set)     == CHOOSE x \in set : TRUE
Lesser(x, y) == IF x < y THEN x ELSE y

\* find(|f| f.name == name): a missing field reads as null.
FieldCalled(id, name) ==
    LET named(f) == f.name = name
        at == SelectInSeq(Heap[id].fields, named)
    IN  IF at = 0 THEN Null
        ELSE [type |-> Heap[id].fields[at].type, value |-> Heap[id].fields[at].value]

IdOf(v)    == IF v.type = "ref" THEN v.value ELSE 0
NextOf(id) == IdOf(FieldCalled(id, "next"))

\* The last of the fields with such a name that is an int, cut off at zero.
IntCalled(id, names) ==
    LET fits(f) == f.name \in names /\ f.type = "int"
        at == SelectLastInSeq(Heap[id].fields, fits)
    IN  IF at = 0 THEN {}
        ELSE {IF Heap[id].fields[at].value < 0 THEN 0 ELSE Heap[id].fields[at].value}

\* The objects of a kind that a field leads to: one or none.
Behind(id, name, kind) ==
    kind \cap {f.value : f \in {g \in Fields(id) : g.name = name /\ g.type = "ref"}}

\* The collections, and what sets have behind them.
Holders ==
    {id \in Objects : Heap[id].class \in Counted}
      \cup UNION {Behind(id, "map", Objects) : id \in {o \in Objects : Heap[o].class \in Sets}}

\* A dump is finite, and no class shadows a field that leads from a collection to
\* what holds its entries: of two such fields the pages would follow the last and
\* the walkers the first.
ASSUME HeapAssumption ==
    /\ IsFiniteSet(DOMAIN Heap) /\ DOMAIN Heap \subseteq Nat \ {0}
    /\ \A id \in Objects : Heap[id].fields \in Seq([name : STRING, type : STRING, value : Int])
    /\ \A id \in ObjectArrays : Heap[id].elements \in Seq(Int)
    /\ \A id \in PrimArrays : Heap[id].size \in Nat /\ Heap[id].bytes \in Seq(0..255)
    /\ \A id \in Holders : \A f, g \in Fields(id) :
          f.name = g.name /\ f.name \in {"map", "table", "first", "elementData"} => f = g

\* collection_entry_count: the first count that is not negative.
EntryCount(id) ==
    LET fits(f) == f.name \in Counts /\ f.type \in {"int", "long"} /\ f.value >= 0
        at == SelectInSeq(Heap[id].fields, fits)
    IN  IF at = 0 \/ Heap[id].class \notin Counted THEN {} ELSE {Heap[id].fields[at].value}

Elements(array) ==
    IF Heap[array].size = 0 THEN 0 ELSE Len(Heap[array].bytes) \div Heap[array].size

Reference(id, class, count) ==
    [type |-> "ref", value |-> id, class |-> class, count |-> count]

\* id_to_field_value
Described(id) ==
    CASE id = 0                 -> Null
      [] id \in Objects         -> Reference(id, Heap[id].class, EntryCount(id))
      [] id \in ObjectArrays    -> Reference(id, "Object[]", {Len(Heap[id].elements)})
      [] id \in PrimArrays      -> Reference(id, "prim[]", {Elements(id)})
      [] OTHER                  -> Reference(id, "Object", {})

-----------------------------------------------------------------------------
(* A reply is [page, index, reads]: the page and the skip-index as sets of *)
(* one or none, and the ids whose places the request leaves in the cache.  *)

Single(v) == [key |-> Null, value |-> v]
Window(all, from, limit) == SubSeq(all, from + 1, Lesser(from + limit, Len(all)))

Page(visible, total, offset) ==
    [entries |-> [i \in DOMAIN visible |-> [index |-> offset + i - 1, entry |-> visible[i]]],
     total   |-> total,
     offset  |-> offset,
     more    |-> offset + Len(visible) < total]

NoPage(index) == [page |-> {}, index |-> index, reads |-> {}]

\* paginate_object_array: the first `total` elements of an array.
PageOfArray(array, total, r, index) ==
    LET ids     == SubSeq(Heap[array].elements, 1, total)
        from    == Lesser(r.offset, total)
        visible == Window(ids, from, r.limit)
    IN  [page  |-> {Page([i \in DOMAIN visible |-> Single(Described(visible[i]))],
                         total, from)},
         index |-> index,
         reads |-> Objects \cap ToSet(visible)]

\* The value of an element, by its bytes.
Primitive(array, i) ==
    LET size == Heap[array].size
    IN  [type |-> "prim", value |-> SubSeq(Heap[array].bytes, (i - 1) * size + 1, i * size)]

\* try_prim_array: no element of an unknown type is shown.
PageOfBytes(array, r, index) ==
    LET total == Elements(array)
        all   == [i \in 1..total |-> Single(Primitive(array, i))]
        from  == Lesser(r.offset, total)
    IN  [page  |-> {Page(Window(all, from, r.limit), total, from)},
         index |-> index, reads |-> {}]

\* extract_array_list: the declared size, cut off at the array's length.
PageOfArrayList(list, r, index) ==
    LET size == IntCalled(list, {"size", "elementCount"})
        data == Behind(list, "elementData", ObjectArrays)
    IN  IF size = {} \/ data = {} THEN NoPage(index)
        ELSE PageOfArray(The(data), Lesser(The(size), Len(Heap[The(data)].elements)), r, index)

-----------------------------------------------------------------------------
(* Chains.  A walk [from, slot, node, marks, seen] stands at a node of a   *)
(* slot; marks are the places it took an entry from, as <<slot, node>>.    *)

Unbounded == Cardinality(DOMAIN Heap)   \* no walk takes as many entries

StartAt(table, slot) ==
    [from |-> slot, slot |-> slot, node |-> IF slot > Len(table) THEN 0 ELSE table[slot],
     marks |-> <<>>, seen |-> {}]

\* Mutant of Mark: the slot counted from where the walk started.
MarkRelative(w) == <<w.slot - w.from + 1, w.node>>
Mark(w) == <<w.slot, w.node>>

Take(w) == [w EXCEPT !.marks = Append(@, Mark(w)), !.seen = @ \cup {w.node},
                     !.node = NextOf(w.node)]

\* A chain ends at a null, at a node seen before or at one that cannot be read.
Ends(w) == w.node = 0 \/ w.node \in w.seen \/ w.node \notin Objects

NextSlot(table, w) ==
    [StartAt(table, w.slot + 1) EXCEPT !.from = w.from, !.marks = w.marks, !.seen = w.seen]

\* A walk goes on until it comes to rest, which it does within as many steps
\* as there are slots and objects: each step leaves a slot or sees an object.
MapStep(table, w, target) ==
    IF Len(w.marks) >= target \/ w.slot > Len(table) THEN w
    ELSE IF Ends(w) THEN NextSlot(table, w) ELSE Take(w)

MapWalk(table, w, target) ==
    LET walk[n \in 0..(Len(table) + Unbounded)] ==
          IF n = 0 THEN w ELSE MapStep(table, walk[n - 1], target)
    IN  walk[Len(table) + Unbounded]

ListStep(w, target) == IF Len(w.marks) >= target \/ Ends(w) THEN w ELSE Take(w)

ListWalk(w, target) ==
    LET walk[n \in 0..Unbounded] == IF n = 0 THEN w ELSE ListStep(walk[n - 1], target)
    IN  walk[Unbounded]

\* From the head of a checkpoint's slot to the checkpoint's node.
ResumeStep(w, node) ==
    IF w.node \in {0, node} \cup w.seen THEN w
    ELSE [w EXCEPT !.seen = @ \cup {w.node},
                   !.node = IF @ \in Objects THEN NextOf(@) ELSE 0]

Resume(w, node) ==
    LET walk[n \in 0..(Unbounded + 1)] == IF n = 0 THEN w ELSE ResumeStep(walk[n - 1], node)
    IN  walk[Unbounded + 1]

\* The checkpoint to start from, as a set of one or none.
Nearest(index, r) ==
    {SI!NearestBefore(si, r.offset) :
       si \in {s \in index : r.offset > 0 /\ s.checkpoints # <<>>}}

\* The marks of a walk, of which the first is entry `base`, recorded in turn.
RecordAll(si, base, marks) ==
    LET after[n \in 0..Len(marks)] ==
          IF n = 0 THEN si ELSE SI!Record(after[n - 1], base + n - 1, marks[n])
    IN  after[Len(marks)]

Recorded(index, base, marks) == {RecordAll(si, base, marks) : si \in index}

\* Mutant of Exhausted: a walk that took the last entry asked for was at the end.
ExhaustedEarly(w, target) == Len(w.marks) <= target
Exhausted(w, target) == Len(w.marks) < target

Finished(index, done) == IF done THEN {SI!MarkComplete(si) : si \in index} ELSE index

Refs(entries) == {IdOf(e.key) : e \in ToSet(entries)} \cup {IdOf(e.value) : e \in ToSet(entries)}

\* Mutant of Prefetched: the window taken at the offset in the collection.
PrefetchedAfar(all, base, r) == Objects \cap Refs(Window(all, r.offset, r.limit))
Prefetched(all, base, r) == Objects \cap Refs(Window(all, r.offset - base, r.limit))

\* Mutant of Reply: the entries numbered from the checkpoint.
ReplyRenumbered(walk, all, base, from, total, r, index, done, batched) ==
    [page  |-> {Page(Window(all, from, r.limit), total, from)},
     index |-> Finished(Recorded(index, base, walk.marks), done),
     reads |-> batched \cup (Objects \cap walk.seen) \cup Prefetched(all, base, r)]

\* What a walk from entry `base` on makes of a request: the page, the
\* checkpoints, and the places of the nodes and of what is shown.
Reply(walk, all, base, from, total, r, index, done, batched) ==
    [page  |-> {Page(Window(all, from, r.limit), total, base + from)},
     index |-> Finished(Recorded(index, base, walk.marks), done),
     reads |-> batched \cup (Objects \cap walk.seen) \cup Prefetched(all, base, r)]

Pair(mark, valueName) == [key   |-> FieldCalled(mark[2], "key"),
                          value |-> FieldCalled(mark[2], valueName)]

\* The body of extract_hash_map; valueName is the field that holds a value.
PageOfWalk(walk, base, target, total, valueName, r, index, batched) ==
    Reply(walk, [i \in DOMAIN walk.marks |-> Pair(walk.marks[i], valueName)], base,
          Lesser(r.offset - base, Len(walk.marks)), total, r, index,
          Exhausted(walk, target), batched)

PageFrom(start, base, target, table, total, valueName, r, index, batched) ==
    PageOfWalk(MapWalk(table, start, target), base, target, total, valueName, r, index, batched)

\* The uncached table heads, where they are many enough for a batch.
Heads(table, from, known) ==
    LET uncached(id) == id # 0 /\ id \notin known
        heads == SelectSeq(SubSeq(table, from, Len(table)), uncached)
    IN  IF Len(heads) >= BatchThreshold THEN Objects \cap ToSet(heads) ELSE {}

\* extract_hash_map_full, and extract_hash_map without a checkpoint.
PageFromHead(table, total, valueName, r, index, known, batched) ==
    PageFrom(StartAt(table, 1), 0, r.offset + r.limit, table, total, valueName, r, index,
             batched \cup Heads(table, 1, known \cup batched))

\* extract_hash_map from where it found the checkpoint's node, or did not.
PageResumed(cp, start, heads, table, total, valueName, r, index, known) ==
    IF start.node = 0
    THEN PageFromHead(table, total, valueName, r, index, known,
                      heads \cup (Objects \cap start.seen))
    ELSE PageFrom(start, cp.index, r.offset - cp.index + r.limit, table, total, valueName,
                  r, index, heads)

PageOfTable(nearest, table, total, valueName, r, index, known) ==
    IF nearest = {} THEN PageFromHead(table, total, valueName, r, index, known, {})
    ELSE LET cp == The(nearest)
         IN  PageResumed(cp, Resume(StartAt(table, cp.node[1]), cp.node[2]),
                         Heads(table, cp.node[1], known),
                         table, total, valueName, r, index, known)

PageOfMap(map, valueName, r, index, known) ==
    LET size  == IntCalled(map, Counts)
        table == Behind(map, "table", ObjectArrays)
    IN  IF size = {} \/ table = {} THEN NoPage(index)
        ELSE PageOfTable(Nearest(index, r), Heap[The(table)].elements, The(size),
                         valueName, r, index, known)

\* extract_hash_set: the keys of the map behind the set.
KeyOnly(e) == [e EXCEPT !.entry = Single(@.key)]
Keys(page) == [page EXCEPT !.entries = [i \in DOMAIN @ |-> KeyOnly(@[i])]]
PageOfSet(set, r, index, known) ==
    LET maps == Behind(set, "map", Objects)
    IN  IF maps = {} THEN NoPage(index)
        ELSE [PageOfMap(The(maps), "value", r, index, known) EXCEPT
                !.page = {Keys(p) : p \in @}, !.reads = @ \cup maps]

\* extract_linked_list: no walk goes beyond the declared size.
PageOfItems(walk, cp, total, r, index) ==
    Reply(walk, [i \in DOMAIN walk.marks |-> Single(FieldCalled(walk.marks[i][2], "item"))],
          cp.index, Lesser(r.offset - cp.index, total), total, r, index, walk.node = 0, {})

PageOfChain(cp, total, r, index) ==
    PageOfItems(ListWalk([StartAt(<<>>, 1) EXCEPT !.node = cp.node[2]],
                         Lesser(r.offset - cp.index + r.limit,
                                IF total > cp.index THEN total - cp.index ELSE 0)),
                cp, total, r, index)

PageOfLinkedList(list, r, index) ==
    LET size    == IntCalled(list, {"size"})
        first   == [index |-> 0, node |-> <<1, IdOf(FieldCalled(list, "first"))>>]
        nearest == Nearest(index, r)
    IN  IF size = {} THEN NoPage(index)
        ELSE PageOfChain(IF nearest = {} THEN first ELSE The(nearest), The(size), r, index)

\* match_extractor
PageOfInstance(c, class, r, index, known) ==
    CASE class \in ArrayLists         -> PageOfArrayList(c, r, index)
      [] class = "ConcurrentHashMap"  -> PageOfMap(c, "val", r, index, known)
      [] class \in {"HashMap", "LinkedHashMap"} -> PageOfMap(c, "value", r, index, known)
      [] class \in Sets               -> PageOfSet(c, r, index, known)
      [] class = "LinkedList"         -> PageOfLinkedList(c, r, index)
      [] OTHER                        -> NoPage(index)

\* pagination::get_page
Extract(c, r, index, known) ==
    CASE c \in ObjectArrays -> PageOfArray(c, Len(Heap[c].elements), r, index)
      [] c \in PrimArrays   -> PageOfBytes(c, r, index)
      [] c \in Objects      -> PageOfInstance(c, Heap[c].class, r, index, known)
      [] OTHER              -> NoPage(index)

-----------------------------------------------------------------------------
(* The session                                                             *)

IndexOf(c) == IF c \in DOMAIN skip THEN {skip[c]} ELSE {}
Store(c, index) ==
    IF index = {} THEN skip
    ELSE [d \in DOMAIN skip \cup {c} |-> IF d = c THEN The(index) ELSE skip[d]]

\* Engine::get_page: a request beyond the first entry makes the skip-index.
Answer(c, r, reply) ==
    /\ served' = [collection |-> c, range |-> r, page |-> reply.page]
    /\ skip'   = Store(c, reply.index)
    /\ cached' = cached \cup (Objects \cap {c}) \cup reply.reads
    /\ UNCHANGED subject

GetPage(c, r) ==
    LET index == IF IndexOf(c) = {} /\ r.offset > 0 THEN {SI!NewIndex} ELSE IndexOf(c)
    IN  Answer(c, r, Extract(c, r, index, cached \cup (Objects \cap {c})))

\* What a background walker of a collection takes its checkpoints from.
MapBehind(c) ==
    IF c \in Objects /\ Heap[c].class \in Sets THEN Behind(c, "map", Objects) ELSE {c}
TablesOf(c) ==
    IF c \in Objects /\ Heap[c].class \in Chained \cup Sets
    THEN {Heap[t].elements : t \in UNION {Behind(m, "table", ObjectArrays) : m \in MapBehind(c)}}
    ELSE {}

\* walk_linked_list, walk_hash_map, walk_hash_set: whatever the declared size.
Walked(c) ==
    IF c \in Objects /\ Heap[c].class = "LinkedList"
    THEN ListWalk([StartAt(<<>>, 1) EXCEPT !.node = IdOf(FieldCalled(c, "first"))], Unbounded).marks
    ELSE IF TablesOf(c) = {} THEN <<>>
    ELSE MapWalk(The(TablesOf(c)), StartAt(The(TablesOf(c)), 1), Unbounded).marks

\* The places a walker looks up first: the collection, the map behind it, the
\* table's heads and their successors.
LookedAhead(c) ==
    LET heads == Objects \cap UNION {ToSet(table) : table \in TablesOf(c)}
        deep  == IF heads = {} \/ \E m \in MapBehind(c) : Heap[m].class = "ConcurrentHashMap" THEN {}
                 ELSE Objects \cap {NextOf(n) : n \in heads}
    IN  heads \cup deep \cup (Objects \cap {c}) \cup (MapBehind(c) \cap Objects)

\* spawn_walker and drain_walker, for a collection not yet complete: a walk that
\* is cancelled after n entries or comes to the end, and its messages applied.
Walk(c, marks, done) ==
    LET index == IF marks # <<>> /\ IndexOf(c) = {} THEN {SI!NewIndex} ELSE IndexOf(c)
    IN  /\ \A si \in IndexOf(c) : ~si.complete
        /\ skip'   = Store(c, Finished(Recorded(index, 0, marks), done))
        /\ cached' = cached \cup LookedAhead(c) \cup {marks[i][2] : i \in DOMAIN marks}
        /\ UNCHANGED <<subject, served>>

WalkSome(c, marks) ==
    \/ \E n \in 0..Len(marks) : Walk(c, SubSeq(marks, 1, n), FALSE)
    \/ Walk(c, marks, TRUE)

Nothing == [collection |-> 0, range |-> [offset |-> 0, limit |-> 0], page |-> {}]

Init == subject \in Subjects /\ skip = <<>> /\ cached = {} /\ served = Nothing

Next == \E c \in subject :
            \/ \E r \in Ranges : GetPage(c, r)
            \/ WalkSome(c, Walked(c))

Spec == Init /\ [][Next]_vars

-----------------------------------------------------------------------------
(* The contents of a collection, with no index, cache or range.            *)

\* The readable nodes from a node on, and whether they end without a repeat.
PathStep(p) ==
    IF Last(p) \notin Objects \/ Last(p) \in ToSet(Front(p)) THEN p
    ELSE Append(p, NextOf(Last(p)))
Path(n) ==
    LET path[k \in 0..Unbounded] == IF k = 0 THEN <<n>> ELSE PathStep(path[k - 1])
    IN  path[Unbounded]
Chain(n) == Front(Path(n))
Ended(n) == Last(Path(n)) \notin Objects

HeadsOf(c) == IF Heap[c].class = "LinkedList" THEN <<IdOf(FieldCalled(c, "first"))>>
              ELSE The(TablesOf(c))
NodesOf(c) == LET heads == HeadsOf(c)
              IN  FlattenSeq([i \in DOMAIN heads |-> Chain(heads[i])])

\* The size a collection declares, as a set of one or none.
Declared(c) ==
    IntCalled(The(MapBehind(c)),
              IF Heap[c].class = "LinkedList" THEN {"size"}
              ELSE IF Heap[c].class \in ArrayLists THEN {"size", "elementCount"}
              ELSE Counts)

\* A collection whose chains end and share no node.
Tidy(c) ==
    /\ c \in Objects
    /\ Heap[c].class = "LinkedList" \/ TablesOf(c) # {}
    /\ Declared(c) # {}
    /\ \A n \in ToSet(HeadsOf(c)) : Ended(n)
    /\ IsInjective(NodesOf(c))

EntryOf(c, n) ==
    CASE Heap[c].class = "LinkedList"        -> Single(FieldCalled(n, "item"))
      [] Heap[c].class \in Sets              -> Single(FieldCalled(n, "key"))
      [] Heap[c].class = "ConcurrentHashMap" -> [key   |-> FieldCalled(n, "key"),
                                                 value |-> FieldCalled(n, "val")]
      [] OTHER                               -> [key   |-> FieldCalled(n, "key"),
                                                 value |-> FieldCalled(n, "value")]

Listed(c, nodes) ==
    [i \in 1..(IF Heap[c].class = "LinkedList" THEN Lesser(The(Declared(c)), Len(nodes))
               ELSE Len(nodes)) |-> EntryOf(c, nodes[i])]
EntriesOf(c) == Listed(c, NodesOf(c))

Backed(c) ==
    /\ c \in Objects /\ Heap[c].class \in ArrayLists
    /\ Behind(c, "elementData", ObjectArrays) # {} /\ Declared(c) # {}
IsArray(c) == c \in ObjectArrays \cup PrimArrays \/ Backed(c)

First(elements, count) ==
    [i \in 1..Lesser(count, Len(elements)) |-> Single(Described(elements[i]))]
ElementsOf(c) ==
    IF c \in PrimArrays THEN [i \in 1..Elements(c) |-> Single(Primitive(c, i))]
    ELSE IF c \in ObjectArrays THEN First(Heap[c].elements, Len(Heap[c].elements))
    ELSE First(Heap[The(Behind(c, "elementData", ObjectArrays))].elements, The(Declared(c)))

\* The collections with contents and a total: arrays, and what is tidy.
Arrays   == {c \in UNION Subjects : IsArray(c)}
Chains   == {c \in UNION Subjects : Tidy(c)} \ Arrays
Contents == [c \in Arrays \cup Chains |-> IF c \in Arrays THEN ElementsOf(c) ELSE EntriesOf(c)]
Total(c) == IF c \in Arrays THEN Len(Contents[c]) ELSE The(Declared(c))
Sound(c) == c \in DOMAIN Contents
ContentsOf(c) == Contents[c]

Shown == [served EXCEPT !.page =
            IF @ = {} THEN [entries |-> <<>>, total |-> 0, more |-> FALSE]
            ELSE [entries |-> The(@).entries, total |-> The(@).total, more |-> The(@).more]]

Server == INSTANCE PageServer WITH Contents <- ContentsOf, served <- Shown

\* A page is the range of the collection that was asked for, whatever pages and
\* walks came before and whatever they left in the skip-index: the entries in
\* order under their own numbers, none twice or left out, and the announcement
\* of more (pagination/mod.rs, extract_* with and without a checkpoint).
ServesRanges == Server!Spec

\* A checkpoint of a map leads back to its node, also where chains share nodes,
\* run in circles or break off: the walk from the head of its slot finds it, and
\* the fallback to a walk of the whole map, which would count the entries from
\* another start, is never taken (extract_hash_map, mod.rs:290-330).
ResumeFindsNode ==
    \A c \in DOMAIN skip : \A i \in DOMAIN skip[c].checkpoints :
        TablesOf(c) # {} =>
          LET place == skip[c].checkpoints[i]
          IN  /\ place[1] \in DOMAIN The(TablesOf(c))
              /\ Resume(StartAt(The(TablesOf(c)), place[1]), place[2]).node = place[2]

\* A skip-index marked complete has a checkpoint for every SKIP_INTERVAL-th entry
\* a walk from the head comes to; no background walk is started for it again
\* (mark_complete, spawn_walker).
CompleteHasAll ==
    \A c \in DOMAIN skip :
        skip[c].complete /\ TablesOf(c) # {} =>
          SkipInterval * Len(skip[c].checkpoints) >= Len(Walked(c))

\* Every object a page shows is found without a search afterwards: its place is
\* in the cache, also where the page began at a checkpoint (the batch look-up of
\* the visible window, mod.rs:400-421, 684-705, 780-786).
VisibleIsCached ==
    \A page \in served.page :
        Objects \cap Refs([i \in DOMAIN page.entries |-> page.entries[i].entry])
          \subseteq cached
=============================================================================
