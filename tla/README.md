# Verification of hprof-visualizer

TLA+ models of the program, from the first pass over a dump to the favorites
panel, the TLC runs that check them on small instances, and theorems about the
engine's concurrent core, its pages, the first pass and the application loop that
TLAPS proves for every value of the constants.
Source lines below are relative to the repository root; `engine_impl` is
`crates/hprof-engine/src/engine_impl/mod.rs`, `app` is
`crates/hprof-tui/src/app/mod.rs`, `first_pass` is
`crates/hprof-parser/src/indexer/first_pass`.

## The system

hprof-visualizer opens a JVM heap dump, indexes it in one pass, and lets a user
browse threads, stack frames and objects in a terminal. Four crates of `crates/`
carry the logic: the parser (`hprof-parser`), the engine (`hprof-engine`), the
terminal UI (`hprof-tui`) and the command line (`hprof-cli`).

| Component | State it keeps | Operations | Talks to |
|---|---|---|---|
| Background walkers and skip-indexes (`engine_impl` 670-840, 1107-1136; `pagination/background_walker.rs`, `pagination/skip_index.rs`) | `walkers`: handle per collection (mutex), `skip_indexes`: per collection (mutex), one channel and cancel flag per walker thread | spawn_walker, cancel_walker, drain_walker(s), walker_progress, Drop | UI thread (every tick), page workers (every request), walker threads (channel) |
| Pagination (`pagination/mod.rs`) | none of its own: reads and extends a skip-index, and fills the offset cache | get_page, extract_linked_list, extract_hash_map (+ the full-walk fallback), extract_array_list, Object[] and primitive arrays | skip-index, dump file |
| Object cache and memory counter (`cache/lru.rs`, `cache/budget.rs`, `engine_impl` 960-1000) | LRU map (mutex), atomic byte counter | expand_object: get, insert, evict_lru, add, subtract | one expansion thread per expanded path |
| Engine construction and resolution (`engine_impl` 240-660, `resolver.rs`) | the thread cache, filled once; the offset cache, which every look-up adds to | list_threads, stack frames, locals, static fields, decode_object_fields | parser |
| Application loop (`app`) | focus, stack view, pending expansions, pending pages, pending navigation, spinner | key events, poll_expansions, poll_pages, navigate_to_path, resume_pending_navigation | engine, one worker thread and channel per request |
| Stack view, cursor, thread list (`views/stack_view`, `views/thread_list`) | expanded sets, collection chunks, cursor | flatten, collapse, move, filter | application loop |
| Favorites (`favorites.rs`, `views/favorites_panel`, `views/tree_render`) | pinned items, each a snapshot with closed places and hidden fields; the rows of each as the panel counted them | pin, unpin, render, collect_row_metadata, move, open, close, hide | application loop, stack view |
| Record scan (`indexer/first_pass/mod.rs`, `record_scan.rs`) | the index being built, capped warnings, counts | one pass over the records, tolerant of truncation | heap extraction |
| Heap extraction and thread resolution (`heap_extraction.rs`, `thread_resolution.rs`) | per-batch results merged into the index | parallel extraction of segments, merge, back-references of thread objects | segment filters |
| Segment filters, offset cache, look-up (`segment.rs`, `precise.rs`, `resolution.rs`) | filters per segment, offset cache (RwLock) | find_instance, batch_find_instances | every decode |
| Record, header and memory-map reading; sizes, progress; configuration and command line | none | decode bytes, print | - |

### What is hard, and what makes each part correct

* **Walkers.** A walker sends batches of checkpoints; the UI's tick and every
  page request drain the same channel. A drain takes messages under one lock and
  applies them under another, then removes whichever handle is registered *by
  then*. Correct means: a checkpoint names the node at its entry whatever order
  batches are applied in; indexes only grow; a collection has one walker; the
  cap bounds threads and not only handles; ended walkers are reaped even when
  they panicked; nobody waits for ever on the two mutexes or on a join made
  under one of them; dropping the engine ends every walker.
* **Pages.** A page is resumed from a checkpoint recorded by some other thread.
  Correct means: it is the page a walk from the head would return, its offset
  and `has_more` included, also for a list whose `size` field disagrees with its
  chain.
* **Cache.** Look-up, insertion, accounting and eviction are separate critical
  sections, and the same object may be expanded at several paths at once.
  Correct means: at rest the counter covers what is cached and is under the
  eviction trigger (or nothing is left to evict); it does not underflow; eviction
  ends.
* **Application loop.** A result may arrive after its request was cancelled,
  collapsed or forgotten; a go-to-pin walk awaits results that may never come;
  Escape drops what the walk awaits; objects are pending by path and dropped by
  id; the list's cursor and the opened stack may be of different threads. Correct
  means: a row that says it is loading has a worker; an open collection has
  its pages or a worker that fetches them; a worker expands the object of the row it
  was asked for; no result of one thread reaches another's stack; a cancelled
  row stays closed; a walk always waits for something, ends, and ends on the
  pinned row unless it reports a failure.
* **First pass.** Dumps are cut short, hold records nobody knows and class
  hierarchies in cycles; the heap is read by parallel tasks in chunks and
  batches; warnings are capped in each phase and again when phases are merged;
  ids are found through filters of fixed segments that cut objects in two.
  Correct means: what comes out of the parallel extraction is what an ordered
  reading gives; a dump shown as fully indexed was read to its end; a place in
  the index is the place of that object; the three look-ups find what is there;
  locals, thread names and thread states are those the dump means.
* **Pages of every type.** Maps, sets, lists and arrays are paged by four
  algorithms, three of which resume from checkpoints that walks and other pages
  have left. Correct means: a page depends on its range and on nothing asked
  before, unless the chain is damaged.
* **Favorites.** The panel draws a snapshot by one recursive traversal and counts
  its rows by another; keys act on the counted rows. Correct means: the two
  agree row by row through every key; closing acts on the row under the cursor
  and on no other; a snapshot holds all the row led to, or says it does not.

`PROJECT.json` lists the hazards with the line each one bites at and the
properties that would catch it.

## Modules

| Module | Models | Builds on |
|---|---|---|
| `SkipIndex` | `skip_index.rs`: Record, NearestBefore, MarkComplete as operators on `[checkpoints, complete]` | - |
| `WalkerEngine` | the engine's `walkers` and `skip_indexes` maps, the walker threads, drain_walker, spawn_walker, cancel_walker, Drop, and get_page's chain walk | instantiates `SkipIndex` |
| `WalkerEngine_proofs` | theorems about it, the bound on running threads and what a complete index covers among them | `WalkerEngine`, TLAPS |
| `ObjectCache` | expand_object over the LRU cache and the counter | - |
| `ObjectCache_proofs` | theorems about it | `ObjectCache`, `Induction`, TLAPS |
| `StackState` | the stack panel as a value: paths, what the selected_* methods resolve, rows, phases, chunks, collapse, cursor | - |
| `App` | run_loop: keys, poll_expansions, poll_pages, go-to-pin, spinner, focus, pins | `StackState` |
| `App_proofs` | theorems about it | `App`, `Induction`, `LeftFold`, TLAPS |
| `HeapDump` | a heap record's bytes as sub-records, and the three readers that walk them: find_*, batch_find_instances, the look-up from entry points | - |
| `RecordScan` | phase 1 of the first pass: every top-level record, warnings, counts, the progress bar | `HeapDump` |
| `HeapExtraction` | phase 2: batches, tasks, chunks, merge, the filters and entry points as they are built | `RecordScan`, implements `OrderedHeap` |
| `OrderedHeap` | abstract: heap records taken up one by one in file order | `HeapDump` |
| `FieldDecoding` | the class hierarchy and the decoding of an instance's bytes | `HeapDump` |
| `ThreadResolution` | the rest of the first pass: assembly, thread synthesis, root correlation, three rounds of look-ups, the cycle check | `HeapExtraction`, `FieldDecoding` |
| `HeapEngine` | the engine on the opened dump: the thread cache, the queries that fill the offset cache | `ThreadResolution` |
| `DumpProperties` | what opening a dump must get right, stated against the dump | `HeapEngine` |
| `FirstPass_proofs` | theorems about the first pass, its look-ups and the engine's queries | `DumpProperties`, `Induction`, `LeftFold`, TLAPS |
| `DumpProperties_proofs` | theorems about the warnings of the first pass and the class check | `FirstPass_proofs` |
| `Pagination` | get_page for every type of collection, with skip-index and offset cache | `SkipIndex`, implements `PageServer` |
| `PageServer` | abstract: a page is the range of an immutable sequence | - |
| `Pagination_proofs` | theorems about `Pagination`, that it implements `PageServer` among them | `Pagination`, `Induction`, `SequenceTheorems` |
| `SnapshotTree` | pure: the capture of a favorite, the rows drawn, the rows counted | `StackState` |
| `Favorites` | the favorites panel: pins, keys, drawing, focus | `SnapshotTree` |
| `Induction`, `LeftFold` | nothing of the code: lemmas on natural numbers, finite sets and sums, and on what a fold over a sequence computes | TLAPS |
| `MCWalkerEngine`, `MCObjectCache`, `MCApp`, `MCFirstPass`, `MCPagination`, `MCFavorites` | the small dumps, requests, sizes and heaps the runs use | the module of that name (`MCFirstPass`: `DumpProperties`) |

### WalkerEngine and the code

The granularity is what another thread can see: a mutex taken or released, a
join, a message sent. `walkersLock` and `skipLock` hold the owner of a mutex that
stays locked across steps; a critical section that touches nothing else is one
step whose guard is that the mutex is free.

* `walk[w]` and `channel[w]` are a walker thread and the messages it has sent.
  `WalkNode` is one turn of the loop of walk_linked_list or walk_hash_map
  (checkpoint every `SkipInterval`, batch every `BatchSendInterval`);
  `WalkFlush`, `WalkComplete`, `WalkExit` are the flush after the loop, the
  Complete message unless cancelled, and the end of the thread; `WalkPanic` is a
  panic of the walk, which the engine reports and survives.
* `DrainTake`, `DrainRemove`, `DrainJoin`, `DrainApply`, `ApplyBatch`,
  `ApplyComplete`, `DrainDone` are drain_walker (engine_impl 670-757) for the UI
  and for page workers alike; `messages[t]` is the vector taken in phase 1.
* `SpawnLock`/`SpawnWalker`, `Cancel`/`CancelJoin`, `TickStart`/`TickDrain`/
  `TickEnd`, `Quit`/`DropCancel`/`DropJoin`/`DropEnd` are the UI thread.
* `GetPage`, `ExtractBegin`, `ExtractNode`, `ExtractEnd`, `Return` are a page
  worker: the offset clamp, the resume from `NearestBefore`, the chain walk that
  records checkpoints as it goes, `PageOf` the slicing.

A dump is `Chain`, the readable nodes of each collection in walk order, and
`Size`, the value of its `size` field; both are arbitrary, so a chain may be
shorter or longer than declared and may end on a null (`NullEnded`) or on an
unreadable node. Abstracted: the table slots of a hash map (its resume state
is a slot and a node; the node alone is kept) and the entries' content, both of
which `Pagination` has.

### ObjectCache and the code

`cache` is the LRU map's ids in order, `counter` the atomic, counted modulo
`Word`. One action per shared operation of expand_object: `Lookup` (first
get), `Recheck` (decode without a lock, second get), `Insert`, `Add`,
`CheckTrigger`, `Evict`, `ReadCurrent`, `Subtract`, `CheckTarget`. The build
is a release build: the debug_assert in `ObjectCache::insert` is compiled out.

### StackState, App and the code

`StackState` is the data, `App` the steps. A heap is constant: `Vars` of a frame,
`Fields` and `Statics` of an object, `Entries` of a collection; a cache is the
set of ids it holds. A path is the code's NavigationPath, a row the code's
RenderCursor. The operators on a state `s` are the methods of StackState and
ExpansionRegistry. What a row *is* is read from the heap (`HeapAt`); what a key
does on it goes through the code's own resolution, which differs:

* `SelectedRef`/`OwnerOf` (the selected_* methods) cross fields and entries and
  fall back to the variable's object;
* `PathEnd` (object_id_at_path_end, snapshot_for_path) crosses static fields too;
* `ExpandTarget` (expand_target_at_path, the `c` key) never does;
* `LoadingObject` (object_id_from_last_segment, Escape) yields the *owner* of the
  last segment.

`App` is one thread. `pc` is the place in run_loop: "input" (one key or `Tick`),
"expansions" (poll_expansions looks at each pending entry once, in any order:
`todo`), "pages" (poll_pages, then the resumption and the fallback in
`PagesPolled`), "resume" (a walk that yielded), "spinner" (update_spinner_state).
A poll of one entry is one of four actions, as try_recv has four outcomes:
answered, refused (None), not ready (with or without passing the loading
threshold), lost (the worker died). The handlers compose values of `Ui`, the
part of the App struct they write, so that one key is one action with all
its calls: `NavigateWalk` is navigate_walk with open_stack, each step
(`WalkFrame`, `WalkMember`, `WalkEntry`), the deferral and the cursor.

`ThreadAssumption` names what the application takes for granted of the engine's
answers: the list shows each thread once, a frame is listed once in its stack,
and a filter of the list shows some of its threads.

A turn ends with `UpdateSpinner` and the drawing: `Render` gives the focus back where
the favorites panel is not shown, because it is empty or the terminal is too narrow.
The width is not kept: it is a choice wherever the code looks at it
(`FavoritesVisible`), as the user may resize the terminal between any two turns.

Enter and Right, Enter and Left share actions where they do the same. Left on
a collection under an entry does not drop its chunks (`ClosesPages`), as in
the code.

Abstracted: `ChunkSize`, `SectionSize` and `StepCap` stand for 100, 1000 and 10;
elapsed times are choices (the threshold may or may not have passed, the spinner's
timer may or may not have run out); Up, Down, Home, End and page moves are one
move to any row; loading text, scrolling, the overflow row after 20 static
fields and the depth limit of 18 are left out; a collection's `count` in
its reference may differ from its entries, as the two come from different
places of the dump.

### The first pass and the code

One specification, `HeapEngine!Spec`, runs from the first record to the queries;
its variable `phase` is the place in run_first_pass and Engine::from_file:
"scan", "extract", "assemble", "correlate", "round0" to "round2", "validate",
"open". A `file` is chosen at the start among `Files` and a `setup` among
`Setups`: what a run of the program cannot choose, that is the threads of the
pool, the memory budget, the segments whose filter the library fails to build,
and the pairs of a segment and an id its filters answer wrongly. A binary-fuse
filter itself is external: a set of ids with false positives.

* `HeapDump`. A heap record is a range of bytes and the sub-records its bytes read
  as, each with its position and size; a sub-record is whole, partial (a class
  dump cut in its static fields, kept without fields) or broken (a tag nobody
  knows, a body cut off). `Extracted` is what reading gives, `FindIn`,
  `BatchOffsets` and `LookedUp` are the three readers with their filters and
  their stops at a segment's border.
* `RecordScan`. One action per kind of turn of scan_records: a heap record noted, a
  record of a known tag (`ScanKnown`: parsed, parsed short of its end, or not), any
  other tag, and the end, clean or inside a header or a payload. `TornAt` is where the
  reader stands then, which the progress bar is told: behind the header of a payload
  cut off, and behind the last number it could read of a header cut off, or at the
  end of the file, by what the library's cursor does when a read fails.
* `HeapExtraction`. `taken`, `running`, `arrived`, `merged` are the tasks of rayon
  and the channel they send on; a task may end at any time, the merge sorts by
  place. Below `ParallelThreshold` or with one thread the sequential path. The
  chunks of a task, the entry-point tracker and the builder of filters are
  operators of what a task read.
* `ThreadResolution`. `Assemble`, `Correlate` (synthesize_threads,
  correlate_frame_roots), the three rounds of resolve_all, one action per class
  the cycle check starts from, as a hash map gives them in any order.
* `FieldDecoding`. A field's bytes are written as [value, nth, of], so that a
  reader out of step by one byte reads garbage and not a neighbour's value.
* `HeapEngine`. `ResolveThread` per thread, in any order; then the queries. A look
  trusts a cached place only if an instance lies there, as read_instance does.

`FilesAssumption` says how a dump is laid out: records follow each other, what is
behind the last whole one is less than a header or holds one, and the sub-records of a heap record lie in it, one after the other, up to the one where
reading breaks off (`Placed`). A sub-record is whole, or broken off at the end, or it
is a class dump kept in part. A trace lists its frames, and a frame root that is read
has a number.

The values of bytes and the texts of names are abstracted to small numbers;
sizes and positions are kept in bytes, as segment borders, chunk sizes, budget
and progress depend on them. The numbers of `Sound`, `KnownLayout` and
`truth` in `DumpProperties` belong to the dump and not to the program: they
are what the VM wrote the bytes from.

### Pagination and the code

A heap is a constant: objects with fields, arrays with elements. `GetPage` is one
atomic request: get_page holds the mutex of the skip-indexes while it extracts
(engine_impl 1052-1064), so requests do not overlap; how drains and requests
interleave is `WalkerEngine`'s part. `Walk` is a background walk that was
cancelled after any number of its entries or came to its end, with its messages
applied. `Extract` dispatches as match_extractor does; `MapWalk` and `ListWalk` are
the loops with their limits, visited sets and slots, `Resume` finds a checkpoint's
node in its slot, `PageResumed` falls back to `PageFromHead` when it does not, and
`Reply` makes page and checkpoints of a walk; `cached` is the offset cache. A loop is
a step applied until it rests: each turn leaves a slot or sees an object it has not
seen, so as many turns as there are slots and objects are enough.

### Favorites and the code

`SnapshotTree` has the capture (subtree_snapshot and its collectors, in the order a
HashMap may give the sections in) and both traversals: `DrawPin` (tree_render) and
`CollectPin` (collect_row_metadata). A row drawn is its sign, place and field; a
row counted is its place, id, closed flag, hide key. `StackDepth` is the depth at
which a thread's stack is full: a traversal that gets there gives up, and its
rows differ from those drawn.

A step of `Favorites` is a turn of the loop: a key or a resize, and the drawing
that ends it. The stack panel is the environment, `Stacks`: what it holds grows
while the user browses, and the row its cursor is on is any of `PinPaths`. `MaxMarks`
bounds favorites, closed places, hidden rows and reveals together. Static
sections of a favorite cannot be opened and are left out, as are failed objects.

## Runs

| Run | Question | Bounds |
|---|---|---|
| `walker_pages` | Does the skip-index stay sound and grow, is every page right, and do dedup and cap hold, while walkers are spawned, drained by two threads, cancelled and dropped? | a map of 5 nodes and 6 declared entries, a list with a chain longer than its size that ends on an unreadable node; intervals of 2, cap 1, 2 walker identities (symmetric), 1 page worker |
| `walker_drains` | As long as no drain gets in another's way, does complete mean covered, and is only a panic reported as one? | a map of 5 nodes, 2 page workers beside the UI, cap 2, 2 walker identities (symmetric); constraint `Undisturbed` |
| `walker_live` | Do requests, ticks and the drop return, and are walkers reaped that panicked or were cancelled? | one list of 3 nodes |
| `walker_covered` | finding, below | one map |
| `cache_shared` | Counter and budget at rest with sharing threads; does an eviction loop end unless others keep adding? | 3 threads, objects of 2, 3 and 3 bytes and one unreadable, static index 9, trigger at 17 and target below 13 of 21 bytes; any number of expansions, no more of which miss the cache after 2 re-insertions |
| `app_rows` | Opening, batch expansion, cancelling and closing against late answers: does what says it is loading have a worker, on the right object, and does a cancelled row stay closed? | heap Rich: an object that refers to an object that refers to a collection of two pages, and a static field; one thread |
| `app_failures` | Pages that cannot be had and workers that die; the focus | heap Loss: one collection of two pages, `WorkersDie`; the list filtered to all or nothing, 1 pin |
| `app_pins` | Go-to-pin over objects and pages with two threads: does pending work belong to the open thread, does the walk wait for something, end, and land on its row? | heap Pin: an object that refers to itself and to a collection of two pages; walks of 2 steps a round, 1 pin |
| `first_pass` | Opening and querying: is what is shown in the dump, is what was not read reported, do look-ups find, and is the parallel extraction an ordered one? | 7 dumps, 5 setups; ids of 4 bytes, segments of 64, one warning kept, 2 of validation, parallel from 150 bytes, chunks from 50, batches from 150 |
| `pagination` | Does a page depend on its range alone, do checkpoints lead back to their nodes, does complete mean all? | 15 collections (one pair shares its table), 5 ranges, checkpoints every 2 entries, batch look-ups from 2 objects |
| `favorites` | Are the rows the keys act on the rows drawn, through pins, moves, opening, closing, hiding and unpinning? | a frame, a variable of it and an entry pinned over two states of the stack, 6 captured objects, depth 2, 3 marks |
| `favorites_tree` | finding, below | an object in a collection it refers to |

Why these bounds are enough: intervals of 2 on chains of 4 and 5 nodes give two
checkpoints, a batch boundary, a partial last batch and a page that starts
before, on and after a checkpoint. Two drainers and one channel of up to four
messages give every order of taking and applying. `walker_drains` leaves out,
by the state constraint `Undisturbed`, what `walker_covered` and the findings are about,
and nothing else: two page workers and the UI drain the walkers of one map, whose
handles come and go under a cap of two. Two walker identities under
a cap of one let a collection be walked, reaped and walked again while the
other asks for a place. Three cache threads give an insertion between another
thread's two look-ups and an eviction between another's insertion and its
accounting; all three objects reach the trigger, and getting under the target
takes two evictions and leaves one of them. Expansions are not bounded: a
behaviour may insert and evict for ever. Only what the code counts twice is,
as each re-insertion raises the counter for good: after `MaxReinserted` of them
a look-up may hit but not miss (CHECK_DEADLOCK FALSE, as the cache may be empty
then). `WalkerEngine` needs no such bound, and stops only after the engine is
dropped.

The application's runs bound the user by `Keys`, the kinds of key each run
allows, and by `MaxPins`, the favorites kept at a time, and by nothing else:
their state is finite because paths are as deep as the heap's rows, and
behaviours of any length are covered. `app_rows` and `app_failures` compare
states by the `VIEW` `ButSpinner`: spinner and timer are written and displayed and decide
nothing but their own next value, and no property of these runs reads them.
Two threads are what a walk needs to find its collection forgotten: opening a
thread drops everything.

What the passing application runs leave out is what the code does not satisfy
the properties with (the reason is under Findings). `app_pins` has no key that
closes a row, no Escape during a page, no Tab, search or favorites from the list,
no static field on a pin's path and no page that cannot be had. `app_rows` has no
object shown twice, none below a static field and no collection below its own entries.

The dumps of `first_pass`: *Sound*, two threads of the old layout over three heap
records and four segments, names far from threads and class dumps last;
*Synthetic*, no thread record, the new layout, two traces and two roots for a
thread; *Damaged*, records too short and too long, a partial class dump, a tag
nobody knows, ending cleanly or inside a record; *Torn*, a heap record that
breaks off; *Cyclic*, class hierarchies in cycles and a thread without an object;
*Bare*, no heap at all and a file that ends in a header. Each is read in a single
thread, in three with and without a budget, with filters that could not be
built, and with filters that answer wrongly at ids that lie elsewhere. Segments
of 64 bytes put objects before, across and after borders; a cap of one warning
is reached in the scan, the extraction and the rounds; the budgets give one
chunk, several chunks and several batches. State is finite by itself: nothing
but the finite dump bounds it, and no constraint is used.

In `pagination` every collection type has a tidy instance that takes several
checkpoints and pages that begin before, on and after one; the damaged ones have
slots that share a node, chains in a circle, chains broken off, sizes too large,
too small and negative, and what has no page at all. `ServesRanges` demands contents of
arrays, of primitives too, and of the tidy collections; `ResumeFindsNode`,
`CompleteHasAll` and `VisibleIsCached` hold for all. In `favorites` the chain of objects
is longer than the depth guard,
an object refers to itself, two variables share an object, one collection lies
in another, a section is missing first and loaded later, and the capture meets
its limit.

### Fairness

`WalkerEngine!Fairness` gives walker threads weak fairness (the OS schedules
them; they never wait) and strong fairness to the steps of the UI and of page
workers that may wait for a mutex. Strong fairness is justified because no
thread holds a mutex at rest: between two ticks the UI sleeps up to 16 ms in
`event::poll` (app 2680-2697) with no lock held, so a waiter finds it free.
`TickStart` is fair because the loop runs it every turn; key events and page
requests are not fair. `ObjectCache!FairSpec` only schedules the expansion
threads.

`first_pass`, `pagination` and `favorites` check no liveness and assume no
fairness. A dump that is open can be queried for ever, a collection can be
paged for ever, and the panel waits for keys.

`App!FairSpec`: the loop goes round for ever (`WF` on the change of `pc`; draws and
input polling return), and every worker ends, so that a poll that looks at its
channel again and again finally takes its answer or finds it closed (`SF` per
object and per page: `WorkersEnd`). "Not ready" may happen any finite number of
times, before and after the loading threshold. Keys are not fair.

### Findings

Shown by a run:

* `walker_covered`: the tick and a page request may apply two drains of one
  walker in the opposite order. `record` then ignores the later batch (a gap) and
  `mark_complete` is recorded all the same: the index is complete for ever
  without covering its collection, and spawn_walker refuses to walk it again.
  The comment at engine_impl 1048-1050 calls the interleaving safe.
* `favorites_tree`: the renderer stops at 16 levels and at a collection it has met
  (`tree_render/collection.rs` 57-59); the traversal that counts rows starts depth
  and trail anew at each entry of a collection (`favorites_panel/mod.rs` 517-672).
  A captured parent with its list of children has rows without end, and drawing
  the panel overflows the UI thread's stack.

Met while modelling; no run repeats them. Those of the engine's cache and of the
application are why the passing runs are bounded as they are, and what is in
brackets is what to add to a run to see them:

* Two threads that expand one object both pass the second look-up before either
  inserts (engine_impl 982): the contract of `ObjectCache::insert` ("Panics in
  debug builds if `id` is already cached", `cache/lru.rs` 50-56) is broken. A debug
  build panics, a release build counts the entry twice for ever.
* With a small static index the counter underflows for a while: an entry evicted
  before it is added is subtracted first, and the clamp `min(freed, current)` can be
  overtaken by another thread's subtraction (`CounterCoversCache` without
  `Outweighed`, with `Base` = 2). A thread that looks then evicts all there is; once
  the additions are made the counter is right again.
* Other threads can keep an expansion from returning: as long as they add as fast as
  it evicts, the counter stays over the target and it evicts what they insert
  (`pc[w] # "idle" ~> pc[w] = "idle"` in `cache_shared`). `ExpansionReturns` says that
  nothing else can.
* Closing the frame while the awaited row is loading makes the answer count as
  cancelled and skips the resumption of the walk (app 2265): the navigation and its
  spinner stay (`app_pins` with "Close").
* navigate_walk compares the pin's thread with the list's selection and not with
  the opened stack (app 443), and walks in the wrong stack (`app_pins` with "Tab").
* A field below a static field opens the object of another field
  (`stack_view/state.rs` 333; `app_rows` with a static field that has fields).
* Between a drain that took Complete and its removal of the handle, another drain
  sees the channel disconnected without Complete and reports a walker that ended
  normally as "terminated unexpectedly" (`UnexpectedTerminations` in
  `walker_pages`).
* Escape drops the expansion a walk awaits and leaves its row Loading, with no
  answer to come (`NoRowStuck` in `app_pins` with "Close").
* Escape during a first page leaves a placeholder of zero entries that the next
  go-to-pin takes for a page on its way (`app_pins` with "EscapePage").
* A pin is filed under the list's selection and not under the thread of the stack
  it is in (`app_pins` with "Tab": WalkLands excepts such pins by `Filed`).
* Go-to-pin to a static field does not open its section, so the cursor ends on
  another row (`app_pins` with a static field in the heap).
* Closing a collection at a row below one of its own entries takes that row away, as the
  chunks are kept by id (app 1569-1575), and the cursor stays on it. Right then looks for
  its field in the variable's object (`unwrap_or(root_id)`, `stack_view/state.rs` 333) and
  expands what that holds at the lost row's path (`ExpandsWhatItShows` in `app_rows` with
  a variable whose second field is a list of objects that refer back to the list).
* Closing an object drops the pending work of the same object at another path
  (`NoRowStuck` in `app_rows` with an object that two variables refer to).
* A collection without pages is expanded as an object at the row the cursor is on by
  then; a walk whose next object has that path finds it pending, starts nothing
  and waits for ever (`app_pins` with nothing pageable).
* A navigation writes the spinner's state before update_spinner_state can see it
  change, so the spinner's minimum time is never armed for it.

Of the first pass and the engine:

* A sub-record whose bytes were all read before it broke off (its payload ends
  within it, or it is a lone unknown tag) raises no warning
  (`heap_extraction.rs` 176), so a dump can be shown as fully indexed although its
  last sub-record is lost, against `hprof_file.rs` 32-35; `Whole` excepts it.
* The look-up from entry points does not find an object whose id lies across the
  end of its segment (`offset_lookup.rs` 98). The first pass then warns, and the
  engine's own search finds it; `LookupsFind` and `FullyIndexedMeansWhole` say so.
* A class dump kept as partial leaves the iterator out of step, so what follows it
  in its segment may not be found by the same look-up (`WithinReach`).
* java_frame_roots is keyed by frame id alone: a frame id in two threads' traces
  shares its locals (`LocalsInFileOrder` is stated per frame id).
* A LOAD_CLASS before the STRING it names leaves the class without a name; a thread
  with two ROOT_THREAD_OBJs gets the last in one path and the first in another; a
  record that yields no chunk loses its entry points.
* The comment at `resolver.rs` 16-26 says that fields come superclass first; they are
  decoded leaf first. A subclass of Thread with a `name` of its own hides the
  thread's name. Decoding does not look at the mark of a partial class dump.

Of pagination:

* On cyclic and shared chains a page does depend on what was asked before, as the
  visited set begins at the checkpoint. A map's pages are not bounded by its size
  field as a list's are. An index is complete also when the walk ended on an
  unreadable node.
* A ConcurrentHashMap whose size is only in `baseCount` has no page; the extractor's
  match of class names ignores case and the walker's does not.

Of the favorites:

* Fields of a collection's entries that are hidden are counted and not drawn, a local
  collection without pages that was expanded as an object is one row drawn and
  several counted, and a list that contains itself is drawn with a line that is not
  counted: three more ways for the rows to disagree, which `PanelStacks` leaves out.
* A snapshot of exactly 500 objects is called truncated; pinning a frame that was
  not opened shows "(no locals)"; a collapsed object whose fields are still held is
  pinned with them; unpinning from the stack panel moves the panel's cursor to
  another favorite; Tab into the panel does not remember where the focus was.

## Proofs

`WalkerEngine_proofs`. `Invariant` proves `IInv`, the conjunction of

* `TypeOK`;
* `HandlesInv`: a live walker is registered for its collection or is being
  joined under the lock; nobody else joins. `OneWalkerPerCollection` needs it
  because the handle leaves the map before the thread is gone;
* `CheckpointsInv`: every checkpoint is sound wherever it is - in a walker's
  buffer, in a channel, in the messages a drain has taken, in the index. The
  property `SkipIndexSound` speaks of the last place only and is not inductive
  without the others. That each checkpoint is sound by itself is why the
  order of application does not matter;
* `ExtractInv`: a page in the making holds the nodes from its base on, and no
  more than were asked for;
* `PagesMatchChain`.

From it follow `TypeCorrect`, `IndexSound`, `PagesCorrect`, `OneWalker` and the
action property `IndexGrows`. They hold for every dump, interval, cap, number of
threads and set of requests that satisfies the module's assumptions.

`WalkersCapped` proves `RunningWalkersBounded` from `CapInv`:
the live threads are finitely many and at most `MaxWalkers`. The code compares
the cap with the number of handles, which is less than that of threads while a
handle is out of the map and its thread is being joined; but the joiner holds
the lock that `spawn_walker` counts under. So whenever a spawn counts, nobody
joins, every live thread is registered for the collection it walks, and the
handles it counts are as many as the threads.

Its second part is about drains that meet, with any page workers beside the UI.
`CompleteIsCovered` proves `CompleteMeansCovered` of every behaviour in which
what one drain has taken of a collection is applied before another takes more
(`TakenApart`); `UnexpectedMeansPanic` proves `UnexpectedTerminations` of every
behaviour in which the handle that a drain found at its end is there when it locks
again to remove it (`HandleKept`). The code ensures neither, and each is needed:
without the first `walker_covered` shows a complete index with a gap, without the
second a drain reports a walk that ended well (see Findings). So the theorems say
that these two meetings are all that can go wrong, whatever else page workers and
the UI do at the same time. Three invariants carry them, on top of `IInv`:

* `AnnounceInv`, of every behaviour: a walk that is over, was not cancelled and did not
  panic has come to the end of its chain, and `Complete` is in a channel only then;
* `ReapInv`, under `HandleKept`: the `Complete` of such a walk is in its channel or in
  the hands of a drain that is about to reap it; so a drain that reaps without one
  has met a panic;
* `CoverInv`, under `TakenApart`: the entries in the index, in a drain's hands, in the
  channel and in the walker's buffer are in ascending order and together hold
  every boundary that the walk has passed, whoever drains. `record_checkpoint`
  ignores what is not the next boundary, and the crux (`RecordReaches`) is that the
  least pending entry either is the next boundary or is already stored, so that
  nothing it ignores is lost. What a drain holds may come from an earlier walker
  than the one that runs: the entries then need not join on to the channel's, and
  `Follows` has a form for each case.

`PageInv` says of the pages that record checkpoints themselves: a page marks an index
complete only after it has recorded up to the end of the chain.

`ObjectCache_proofs`. `TypeCorrect` (no id twice in the cache), and `BudgetKept`
from `BudgetInv`: over the trigger with something to evict, some thread is
still between its insertion and the end of its eviction loop. The crux is
that a thread leaves the loop only below the target, below the trigger or
on an empty cache, and that after any other thread's addition that thread
is itself still to look.

`CounterCorrect` is `CounterCoversCache`, for every size of the objects and of the
static index, from `CounterInv`. It reads the counter as a number that may be negative
(`Level`) and compares it with what it would be if every thread were done
(`Settled`: the index, the cache, what was evicted and is not yet subtracted, less
what was inserted and is not yet added). The counter is never under that; at rest
nothing is owed, so that it covers the cache, whatever it went through before. It is
over it by no more than what re-insertions and clamped subtractions leave, which is
what keeps `Level` within its range: the clamps of all threads together are bounded
because a thread that reads a counter smaller than what it freed bounds, by that very
reading, all that has been left before. `Room(m)` asks for nothing but finitely many
threads and readable objects, and a counter with room for them: with `m` the largest
size, for each object once, each thread four times and each of the `MaxReinserted`
re-insertions. The no-underflow half is stated under `Outweighed`, which the code
does not enforce, in the property itself.

`Induction` and `LeftFold` are what the modules below need of data. An induction
over natural numbers, sequences or finite sets is made *for a set*: the numbers the
claim holds of are a set, and one without a least element is empty. A fold is
reasoned about by instantiating `LeftFold` with its operator, which yields the
recursive function behind it. So what a fold or a recursive function computes can
be proved for every input, one operator at a time.

`Pagination_proofs`, from `PagingAssumption` and `HeapAssumption`. The second says that
a dump is finite, and leaves one case out: a collection whose class declares again
a field `map`, `table`, `first` or `elementData` that it inherits, where pages would
follow the last of the two fields and walkers the first.

* `PagesSound` proves `PagesInv`, whatever state the chains are in. An index `Fits`:
  the node of checkpoint i is reached in the slot it names, behind heads of earlier
  slots and their chains, which hold at most `(i - 1) * SkipInterval` nodes together.
  It is `Full`: if it is complete, a walk from the head comes to no boundary that it
  lacks. The invariant is about a walk and not about an index: `Stands` says where a
  walk stands, of a page or of a walker, from the head or resumed, and that each of its
  marks is such a checkpoint; `MapStep` and `ListStep` keep it, and slots left and
  objects seen measure that the loops end.
* `CheckpointsLeadBack` is `ResumeFindsNode`, from `Fits`: the node is on the chain
  of its slot, behind nodes that differ from it and from each other, so `Resume` meets
  it. `CompleteMeansAll` is `CompleteHasAll`, from `Full`; the crux
  (`WalkWithin`) is that when a resumed walk ends, what it saw and what lies before its
  checkpoint together hold all that a walk from the head sees, and are no more than its
  count tells. `ShownIsCached` is `VisibleIsCached`, reply by reply.
* `PagesServed` is the refinement `ServesRanges`: every `GetPage` is a `Serve` of
  `PageServer`, every `Walk` a stutter. Where chains end and share no node, the nodes of
  a table have one order (`Neat`), which `PathIs` and `FlattenIs` show to be the one that
  `Contents` lists. `At` says of a
  walk that it has come past k nodes of it, `MapWalkTook` and `ListWalkTook` that it
  takes the nodes from there on, `ResumeAt` that a resumed walk begins at the node of its
  checkpoint and has seen what lies before it in its slot. That this node is the one of
  the checkpoint's number needs `CheckpointsPlaced`, which holds of tidy collections
  only and strengthens `PagesInv` to `ServeInv`. What is left is that a page counts
  what it skipped: `ReplyServes` compares offset, number of entries and `has_more` with
  the range, also for a list whose declared size is not its length, and `KeysServe`
  carries the pages of a map over to the set that has it behind it.

`FirstPass_proofs`, from `FilesAssumption` alone:

* `FirstPassOrder` proves `FirstInv`: what was scanned lies before what is next
  (`ScanInv`); the heap records taken and not yet merged are exactly those in a
  task or in the channel, each once (`OrderInv`); the bytes told are those of the
  records merged (`BytesInv`). `ProgressCorrect` is `ProgressIsTrue` from it.
* `ExtractionCorrect` is the refinement `ExtractionIsOrdered`: every step of the
  parallel extraction is, to `OrderedHeap`, a record taken up in file order or a
  stutter. `OutInv` says of the output that every entry point comes from its place
  in the records merged, first sub-record of its segment first. The crux is that
  cuts do not show: a record read in chunks gives what it gives in one piece
  (`ChunksAre`), the filters built of the chunks and merged are those of the
  whole (`MergeHeap`), and a batch leaves what its records would have left one
  after the other (`TakenUp`).
* `OffsetsCorrect` is `OffsetsAreTrue` from `OffsetsInv`, through every place an
  offset is entered: thread objects, the three rounds, thread resolution, queries.
* `LookupsCorrect` is `LookupsFind`, from `FiledInv`: every object of a segment whose
  filter was built is in that filter, and at or behind the segment's entry point.
  That follows the filters and entry points from the chunk they are
  made of to the merged index (`BuilderOK`, `MergeHeap`), with the cuts between
  tasks and batches in between; `BySegmentIs` says that sorting the entry points
  loses none. False positives only add segments to
  scan. Two hypotheses: the property asks it of dumps in which an id names one object
  (`OneObjectPerId`), as each look-up ends at the first it meets, and
  `FilesAssumption` gives an object that is read room for its id.
* `LocalsCorrect` is `LocalsInFileOrder`. By `RootsInv` the roots found so far are those
  of the heap records merged, in file order; that cuts do not show is again
  `MergeHeap`. `LocalsFiled` says of the correlation that it keeps for each frame the
  roots that name it, in their order, and `ThreadsKeepFrames` that what it does to
  threads before leaves their traces alone.

`DumpProperties_proofs`, on the same invariants:

* `WarningsCounted` is `WarningsAccounted`, from `LogsInv`: the list of each phase holds
  the first `MaxWarnings` that were raised and counts the others, `LogOK`. A list that
  joins another (`AbsorbOK`) keeps it so, because what the shorter list lacks is what
  it counted. Most of the proof is that the numbers of warnings are numbers: the
  classes, names, references and failed filters that are counted are finitely many,
  which goes through what the decoding of fields and the super-class chain compute
  (`FieldDefsAre`, `ChainIs`, `WantedFinite`).
* `NothingUnreported` is `UnreportedIsWhole`, the half of `FullyIndexedMeansWhole` that
  the user relies on: a dump shown as fully indexed is whole. `UnreportedInv` follows
  each loss to the list: a record too short or too long, the end of the file, a
  sub-record cut off or a class dump read in part. The crux is `ReportedWarns`: such
  a sub-record is in a chunk that warns, wherever the record is cut, and the chunk's
  warning survives the merge. It needs `MaxWarnings` to be positive: with room for
  none, the list would be empty of a dump full of warnings.
* `CyclesCorrect` is `CyclesExact`. A class is on a cycle (`OnCycle`) if it is in every
  set that holds its super-class and goes up to the root; for finitely many class
  dumps that is to be its own ancestor (`OwnAncestor`, by counting: of more ancestors
  than dumps two are the same). `PathIs` says what a walk of the check is, and
  `WalkEnds` that it stops where it tells its classes apart: those from the one it
  came back to are on a cycle, and the rest, like the walk itself when it met an
  earlier one, are not. `CyclesInv` keeps that from walk to walk: what earlier walks
  passed leads up to what they passed.

`App_proofs` rests on a classification. `Base` says that the stack, pending
requests and walk are of the shape the code keeps them in (rows are rows of frames
on the stack, a chunk's pages start at one, a walk is within its path). `Steps`
proves that every step of the loop is one of six kinds: `Quietly` (pending work and
chunks are untouched, or change together), `Escaping`, `Resuming` and `Jumping` (a
walk goes on, a walk starts), `Entering` (a thread is opened, everything is
dropped), `Refocusing`. Each property is then proved of six kinds and not of some
fifty actions.

* `FocusVisible` is `FocusIsVisible`, without any hypothesis: at any time and not only
  when it is drawn, as the keys move the focus away before `Render` would.
* `WorkIsOfOpenThread` is `WorkOfOpenThread`, from `OpenInv`: pending paths are in
  the opened stack, and a walk is of its thread. It asks that `Keys` has none of
  "Tab", "Search" and "ListFavorites": each takes the list's selection away
  from the opened stack, and breaks the property in the code (see Findings).
* `ChunksSourced` is `ChunksHaveSource`, without "EscapePage", which leaves a
  placeholder nobody fills (see Findings).
* `CancelledRowsClosed` is the action property `CancelledStaysClosed`, without
  "GoToPin": a walk opens the rows on its way, as it must. That walks do not
  reopen what was cancelled is checked by TLC in `app_pins`, within its keys.

Model-checked only:

* liveness (`CallsReturn`, `WalkersEnd`, `ExpansionReturns`, `NavigationEnds`),
  which is beyond the prover;
* `RowsAgree` and `HiddenBelongs` of `Favorites`: `SnapshotTree` traverses trees with
  RECURSIVE operators, which the prover cannot be given, and the two traversals agree by
  an induction over the snapshot;
* of `App`: `NoRowStuck`, `ExpandsWhatItShows`, `NavHasSource` and `WalkLands`. They tie
  paths to the heap, and hold only of the heaps and keys their runs allow: a theorem
  would have to exclude each case under Findings by a hypothesis on all heaps;
* of `DumpProperties`: `ThreadsAreTrue`, and the other half of `FullyIndexedMeansWhole`,
  that a healthy dump opens without a warning (`HealthyIsIndexed`). Both compare what was
  read with what the VM meant (`truth`, `Sound`), which a run gives for each dump. For
  all dumps it would take assumptions that tie every byte to that meaning, which is a
  model of the VM and not of this program.

## Not modelled

* A page worker's own panic, and the process ending while page workers run
  (the OS ends them).
* In the engine: inline values and the wording of values and class names,
  resolve_string's text, the budget read from the system's memory.
* In the parser: the values of bytes and texts, the file header and its version,
  the file mapping, the bits of a filter.
* In the application: quitting, help, object ids, the preview stack,
  pending_pinned_pages (nothing outside tests inserts into it), scrolling, the
  overflow row and the depth limit of the stack view, static rows and failed
  objects in a favorite.
* The command line and its configuration, progress bars on the screen, the traits of
  `hprof-api`, the Java tools: no state that interleaves, or pure I/O.

## Plan

Every run asks one question of one module at the smallest instance that can
answer it, and the project keeps them to a dozen: a new question goes to a run
whose instance can answer it, and a finding keeps a run of its own only while it
is the clearest of its component. What is left, in order:

1. `NavHasSource` and `NoRowStuck` for every heap, from an invariant that ties
   pending paths to objects.
2. Refinements of the two concurrent modules, as properties of their runs: the cache
   as a map of bounded cost, implemented by `ObjectCache`; the application's requests
   as a set of workers that each answer once.
3. The overflow row and the depth limit in `StackState`, once a property is found
   that they could break.
