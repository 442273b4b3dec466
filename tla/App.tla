------------------------------- MODULE App -------------------------------
(***************************************************************************)
(* The application loop of the TUI (hprof-tui: app/mod.rs).                *)
(*                                                                         *)
(* One round of run_loop: at most one key, then the answers of the workers *)
(* that expand objects and load pages, then a go-to-pin walk that had      *)
(* yielded, then the spinner.  A worker is a thread that computes one      *)
(* answer; a poll finds its channel empty, answered or disconnected.       *)
(***************************************************************************)
EXTENDS StackState

CONSTANTS
    NoThread,
    ThreadList,   (* the threads of the dump, in the order they are listed *)
    Frames,       (* the stack of each thread                              *)
    Resolvable,   (* the objects that expand_object resolves               *)
    Pageable,     (* the collections that get_page knows                   *)
    WorkersDie,   (* may a worker end without an answer?                   *)
    StepCap,      (* 10: the steps a walk takes in one round               *)
    Filters,      (* what a search in the thread list may leave            *)
    MaxPins,      (* bound: the favorites kept at a time                   *)
    Keys          (* what the user does                                    *)

ASSUME StepCapAssumption == StepCap \in Nat \ {0}

\* The list may be empty, no thread is no thread of it, a search only leaves
\* threads of it, and each of them has a stack, which may be empty.
ASSUME ThreadAssumption ==
    /\ ThreadList \in Seq(Range(ThreadList))
    /\ NoThread \notin Range(ThreadList)
    /\ \A ts \in Filters : ts \subseteq Range(ThreadList)
    /\ \A t \in Range(ThreadList) : Frames[t] \in Seq(Range(Frames[t]))

VARIABLES
    pc,           (* where the loop stands                                 *)
    todo,         (* the pending entries this poll has still to look at    *)
    ready,        (* the object or collection that resumes the walk        *)
    fallback,     (* the collections to expand as objects instead          *)
    focus, prevFocus,
    listed,       (* the threads that pass the filter                      *)
    highlighted,  (* the thread under the list's cursor                    *)
    opened,       (* stack_thread_serial                                   *)
    stack,        (* stack_state of the opened thread                      *)
    expansions,   (* pending_expansions: path -> object, loading shown     *)
    pages,        (* pending_pages: (collection, offset) -> shown, parent  *)
    nav,          (* pending_navigation                                    *)
    spinner,
    timer,        (* loading_until                                         *)
    pins          (* the favorites: thread and path                        *)

vars == <<pc, todo, ready, fallback, focus, prevFocus, listed, highlighted,
          opened, stack, expansions, pages, nav, spinner, timer, pins>>

Threads == Range(ThreadList)
NoNav   == [thread |-> NoThread]
NoPath  == <<>>

\* What a handler may change; the handlers compose such values.
Ui == [highlighted |-> highlighted, focus |-> focus, opened |-> opened,
       stack |-> stack, expansions |-> expansions, pages |-> pages,
       nav |-> nav, spinner |-> spinner]

Becomes(u) ==
    /\ highlighted' = u.highlighted
    /\ focus'       = u.focus
    /\ opened'      = u.opened
    /\ stack'       = u.stack
    /\ expansions'  = u.expansions
    /\ pages'       = u.pages
    /\ nav'         = u.nav
    /\ spinner'     = u.spinner

SelectedThread(u) == IF listed = {} THEN NoThread ELSE u.highlighted
FirstOf(ts)       == ThreadList[Min({i \in DOMAIN ThreadList : ThreadList[i] \in ts})]

-----------------------------------------------------------------------------
(* Opening a thread, and handing work to the workers.                      *)

\* Mutant: the work of the old thread is kept.
OpenStackKeepingWork(u, t) ==
    LET v == [u EXCEPT !.highlighted = IF t \in listed THEN t ELSE @, !.focus = "stack"]
    IN  IF u.opened = t THEN v
        ELSE [v EXCEPT !.opened = t, !.stack = NewStack(Frames[t])]

OpenStack(u, t) ==
    LET v == [u EXCEPT !.highlighted = IF t \in listed THEN t ELSE @,
                       !.focus       = "stack"]
    IN  IF u.opened = t THEN v
        ELSE [v EXCEPT !.opened     = t,
                       !.stack      = NewStack(Frames[t]),
                       !.expansions = <<>>,
                       !.pages      = <<>>]

StartExpansion(u, o, p) ==
    IF p \in DOMAIN u.expansions THEN u
    ELSE [u EXCEPT !.expansions = Put(@, p, [id |-> o, shown |-> FALSE])]

LoadPage(u, c, o) ==
    IF <<c, o>> \in DOMAIN u.pages THEN u
    ELSE [u EXCEPT !.pages = Put(@, <<c, o>>, [shown |-> FALSE, parent |-> NoPath])]

OpenCollection(u, p, v) ==
    LET chunks == [total |-> v.count, eager |-> FALSE, pages |-> Sections(v.count)]
        s      == [SetPhase(u.stack, p, "Expanded") EXCEPT !.chunks = Put(@, v.id, chunks)]
    IN  [LoadPage([u EXCEPT !.stack = s], v.id, 0) EXCEPT !.pages[<<v.id, 0>>].parent = p]

ForgetChunks(s, c)   == [s EXCEPT !.chunks = Without(@, {c})]
SetChunk(s, c, o, x) == [s EXCEPT !.chunks[c].pages = Put(@, o, x)]

Dropping(u, o)      == [u EXCEPT !.expansions = Without(@, {p \in DOMAIN @ : @[p].id = o})]
DroppingPages(u, c) == [u EXCEPT !.pages = Without(@, {k \in DOMAIN @ : k[1] = c})]

LoadingShown(u) ==
    \/ \E p \in DOMAIN u.expansions : u.expansions[p].shown
    \/ \E k \in DOMAIN u.pages : u.pages[k].shown

-----------------------------------------------------------------------------
(* Go to pin: the walk along a path, as far as the caches reach.           *)

\* Mutant: it is always the first page that is asked for.
EnsureFirstPage(u, c, i) ==
    LET fresh == [total |-> 0, eager |-> FALSE, pages |-> <<>>]
    IN  LoadPage(IF c \in DOMAIN u.stack.chunks THEN u
                 ELSE [u EXCEPT !.stack.chunks = Put(@, c, fresh)], c, 0)

\* ensure_collection_initialized_async.
EnsureEntry(u, c, i) ==
    LET fresh  == [total |-> 0, eager |-> FALSE, pages |-> <<>>]
        total  == u.stack.chunks[c].total
        holder == {o \in ChunkOffsets(total) : i \in o..(o + ChunkLimit(total, o) - 1)}
    IN  IF c \notin DOMAIN u.stack.chunks
        THEN LoadPage([u EXCEPT !.stack.chunks = Put(@, c, fresh)], c, 0)
        ELSE IF total = 0 THEN u
        ELSE IF i < ChunkSize /\ ~u.stack.chunks[c].eager THEN LoadPage(u, c, 0)
        ELSE IF holder = {} THEN u
        ELSE LoadPage(u, c, CHOOSE o \in holder : TRUE)

\* A walk w: the path, how much of it is done, the object reached.
Done(w)   == Prefix(w.path, w.done)
Placed(w) == [w EXCEPT !.ui.stack = PositionCursor(@, Done(w))]
Broken(w) == [w EXCEPT !.over = TRUE]

Advanced(w, o) ==
    Placed([w EXCEPT !.done = @ + 1, !.steps = @ + 1, !.object = o])

Deferred(w, awaited) ==
    [w EXCEPT !.over       = TRUE,
              !.ui.nav     = [orig |-> w.path, thread |-> w.thread, done |-> w.done,
                              awaited |-> awaited, prereq |-> w.prereq],
              !.ui.spinner = "NavigatingToPin"]

\* Mutant: the walk steps into the frame and leaves it closed.
WalkClosedFrame(w, f) ==
    IF f \notin Range(w.ui.stack.frames) THEN Broken(w)
    ELSE Advanced([w EXCEPT !.ui.stack.vars = @ \union {f}], NoId)

WalkFrame(w, f) ==
    IF f \notin Range(w.ui.stack.frames) THEN Broken(w)
    ELSE Advanced([w EXCEPT !.ui.stack = IF f \in @.expanded THEN @ ELSE ExpandFrame(@, f)],
                  NoId)

\* An instance or static field of the object reached.
WalkMember(w, seg) ==
    IF w.object = NoId THEN Broken(w)
    ELSE IF Phase(w.ui.stack, Done(w)) # "Expanded"
    THEN Placed(Deferred([w EXCEPT !.ui = StartExpansion(@, w.object, Done(w))],
                         <<"object", w.object>>))
    ELSE IF seg[1] = "static" /\ w.object \notin w.ui.stack.statics THEN Broken(w)
    ELSE Advanced([w EXCEPT !.prereq = @ \union {Done(w)}],
                  PathStep(w.ui.stack, w.object, seg))

WalkEntry(w, seg) ==
    LET v == [w EXCEPT !.ui.stack = SetPhase(@, Done(w), "Expanded")]
    IN  IF FindEntry(v.ui.stack, seg[2], seg[3])
        THEN Advanced(v, PathStep(v.ui.stack, v.object, seg))
        ELSE Placed(Deferred([v EXCEPT !.ui = EnsureEntry(@, seg[2], seg[3])],
                             <<"page", seg[2]>>))

WalkStep(w, seg) ==
    IF w.over THEN w
    ELSE IF w.steps >= StepCap THEN Deferred(w, <<"continue">>)
    ELSE CASE seg[1] = "frame" -> WalkFrame(w, seg[2])
           [] seg[1] = "var"   -> Advanced(w, RootOf(w.ui.stack, w.path))
           [] seg[1] \in {"field", "static"} -> WalkMember(w, seg)
           [] seg[1] = "entry" -> WalkEntry(w, seg)

Arrived(w) == IF w.ui.nav # NoNav THEN w.ui ELSE [Placed(w).ui EXCEPT !.spinner = "Idle"]

\* The thread is opened when it is not the one the list selects.
NavigateWalk(u, t, path, done) ==
    LET v == IF SelectedThread(u) # t \/ u.opened = NoThread THEN OpenStack(u, t) ELSE u
        w == [ui |-> v, path |-> path, thread |-> t, done |-> done, steps |-> 0,
              prereq |-> {}, object |-> PathEnd(v.stack, Prefix(path, done)), over |-> FALSE]
    IN  Arrived(FoldLeft(WalkStep, w, SubSeq(path, done + 1, Len(path))))

\* A walk some of whose objects were collapsed meanwhile starts again.
Resume(u) ==
    LET stale == \E p \in u.nav.prereq : Phase(u.stack, p) # "Expanded"
    IN  NavigateWalk([u EXCEPT !.nav = NoNav], u.nav.thread, u.nav.orig,
                     IF stale THEN 0 ELSE u.nav.done)

Awaits(u, r) == u.nav # NoNav /\ u.nav.awaited = r
Failed(u, r) == IF Awaits(u, r) THEN [u EXCEPT !.nav = NoNav, !.spinner = "Idle"] ELSE u

-----------------------------------------------------------------------------
(* The loop.                                                               *)

Init ==
    /\ pc = "input" /\ todo = {} /\ ready = NoId /\ fallback = {}
    /\ focus = "list" /\ prevFocus = "list"
    /\ listed = Threads /\ highlighted = Head(ThreadList)
    /\ opened = NoThread /\ stack = NewStack(<<>>)
    /\ expansions = <<>> /\ pages = <<>>
    /\ nav = NoNav /\ spinner = "Idle" /\ timer = "off"
    /\ pins = {}

StartPolls ==
    /\ pc' = "expansions"
    /\ todo' = DOMAIN expansions'
    /\ UNCHANGED <<ready, fallback>>

\* No key came in, or one without effect.
Tick ==
    /\ pc = "input"
    /\ UNCHANGED <<focus, prevFocus, listed, highlighted, opened, stack,
                   expansions, pages, nav, spinner, timer, pins>>
    /\ StartPolls

PollStep(k) ==
    /\ todo' = todo \ {k}
    /\ UNCHANGED <<pc, prevFocus, listed, timer, pins>>

\* Mutant: a cancelled result is shown.
ExpansionAnsweredLate(p) ==
    LET e == expansions[p]
        u == [Ui EXCEPT !.expansions = Without(@, {p})]
    IN  /\ pc = "expansions" /\ p \in todo /\ e.id \in Resolvable
        /\ Becomes([u EXCEPT !.stack = ExpansionDone(@, p, e.id)])
        /\ ready' = IF Awaits(Ui, <<"object", e.id>>) THEN e.id ELSE ready
        /\ PollStep(p) /\ UNCHANGED fallback

\* The worker found the fields: they are shown unless the row was cancelled.
ExpansionAnswered(p) ==
    LET e == expansions[p]
        u == [Ui EXCEPT !.expansions = Without(@, {p})]
        cancelled == e.shown /\ Phase(stack, p) # "Loading"
    IN  /\ pc = "expansions" /\ p \in todo /\ e.id \in Resolvable
        /\ Becomes(IF cancelled THEN u
                   ELSE [u EXCEPT !.stack = ExpansionDone(@, p, e.id)])
        /\ ready' = IF ~cancelled /\ Awaits(Ui, <<"object", e.id>>) THEN e.id ELSE ready
        /\ PollStep(p) /\ UNCHANGED fallback

ExpansionRefused(p) ==
    LET e == expansions[p]
        u == [Ui EXCEPT !.expansions = Without(@, {p}),
                        !.stack      = ExpansionFailed(@, p, e.id)]
    IN  /\ pc = "expansions" /\ p \in todo /\ e.id \notin Resolvable
        /\ Becomes(Failed(u, <<"object", e.id>>))
        /\ PollStep(p) /\ UNCHANGED <<ready, fallback>>

\* The channel is empty; after EXPANSION_LOADING_THRESHOLD the row says so.
ExpansionNotReady(p) ==
    /\ pc = "expansions" /\ p \in todo
    /\ \/ Becomes(Ui)
       \/ /\ ~expansions[p].shown
          /\ Becomes([Ui EXCEPT !.stack = SetPhase(@, p, "Loading"),
                                !.expansions[p].shown = TRUE])
    /\ PollStep(p) /\ UNCHANGED <<ready, fallback>>

ExpansionLost(p) ==
    /\ pc = "expansions" /\ p \in todo /\ WorkersDie
    /\ Becomes([Ui EXCEPT !.expansions = Without(@, {p}),
                          !.stack      = ExpansionFailed(@, p, expansions[p].id)])
    /\ PollStep(p) /\ UNCHANGED <<ready, fallback>>

ExpansionsPolled ==
    /\ pc = "expansions" /\ todo = {}
    /\ Becomes(IF ready # NoId /\ Awaits(Ui, <<"object", ready>>) THEN Resume(Ui) ELSE Ui)
    /\ pc' = "pages" /\ todo' = DOMAIN pages' /\ ready' = NoId
    /\ UNCHANGED <<fallback, prevFocus, listed, timer, pins>>

PageArrived(s, c, o) ==
    IF c \notin DOMAIN s.chunks THEN s
    ELSE IF o # 0 THEN SetChunk(s, c, o, "Loaded")
    ELSE LET total == Len(Entries[c])
             first == [total |-> total, eager |-> TRUE, pages |-> Sections(total)]
         IN  CollapseById([s EXCEPT !.chunks[c] = IF @.total = 0 THEN first
                                                  ELSE [@ EXCEPT !.eager = TRUE]], {c})

PageAnswered(k) ==
    LET cid == k[1]  o == k[2]  parent == pages[k].parent
        s == IF o = 0 /\ parent # NoPath THEN SetPhase(stack, parent, "Expanded") ELSE stack
    IN  /\ pc = "pages" /\ k \in todo /\ cid \in Pageable
        /\ Becomes([Ui EXCEPT !.pages = Without(@, {k}), !.stack = PageArrived(s, cid, o)])
        /\ ready' = IF Awaits(Ui, <<"page", cid>>) THEN cid ELSE ready
        /\ PollStep(k) /\ UNCHANGED fallback

\* Mutant: the collection stays open without its page.
PageGoneQuietly(u, k) == [u EXCEPT !.pages = Without(@, {k})]

\* No page: the collection is forgotten.
PageGone(u, k) ==
    LET s == ForgetChunks(u.stack, k[1])
    IN  [u EXCEPT !.pages = Without(@, {k}),
                  !.stack = IF k[2] = 0 THEN CollapseById(s, {k[1]}) ELSE s]

PageRefused(k) ==
    /\ pc = "pages" /\ k \in todo /\ k[1] \notin Pageable
    /\ Becomes(Failed(PageGone(Ui, k), <<"page", k[1]>>))
    /\ fallback' = fallback \union {k[1]}
    /\ PollStep(k) /\ UNCHANGED ready

PageNotReady(k) ==
    LET cid == k[1]  o == k[2]  parent == pages[k].parent IN
    /\ pc = "pages" /\ k \in todo
    /\ \/ Becomes(Ui)
       \/ /\ ~pages[k].shown
          /\ Becomes([Ui EXCEPT
                !.pages[k].shown = TRUE,
                !.stack = CASE o = 0 /\ parent # NoPath -> SetPhase(@, parent, "Loading")
                            [] o # 0 /\ cid \in DOMAIN @.chunks -> SetChunk(@, cid, o, "Loading")
                            [] OTHER -> @])
    /\ PollStep(k) /\ UNCHANGED <<ready, fallback>>

PageLost(k) ==
    /\ pc = "pages" /\ k \in todo /\ WorkersDie
    /\ Becomes(PageGone(Ui, k))
    /\ PollStep(k) /\ UNCHANGED <<ready, fallback>>

\* A collection that has no pages is expanded as an object, at the cursor.
FallBack(u) ==
    \/ /\ fallback = {} \/ u.stack.cursor.kind # "at"
       /\ Becomes(u)
    \/ /\ u.stack.cursor.kind = "at"
       /\ \E c \in fallback : Becomes(StartExpansion(u, c, u.stack.cursor.path))

PagesPolled ==
    /\ pc = "pages" /\ todo = {}
    /\ FallBack(IF ready # NoId /\ Awaits(Ui, <<"page", ready>>) THEN Resume(Ui) ELSE Ui)
    /\ pc' = "resume" /\ ready' = NoId /\ fallback' = {}
    /\ UNCHANGED <<todo, prevFocus, listed, timer, pins>>

ResumeYielded ==
    /\ pc = "resume" /\ pc' = "spinner"
    /\ Becomes(IF Awaits(Ui, <<"continue">>) THEN Resume(Ui) ELSE Ui)
    /\ UNCHANGED <<todo, ready, fallback, prevFocus, listed, timer, pins>>

\* What favorites_visible may answer: the panel needs a favorite and a terminal wide
\* enough, and the user may resize the terminal at any time.
FavoritesVisible == {v \in BOOLEAN : v => pins # {}}

\* Drawing: a favorites panel that is not shown gives the focus back.
Render ==
    \E visible \in FavoritesVisible :
       focus' = IF focus = "favorites" /\ ~visible THEN prevFocus ELSE focus

\* The end of a turn: the spinner, which is kept for MINIMUM_SPINNER_DURATION after
\* it came up, and the drawing.
UpdateSpinner ==
    LET needed == IF nav # NoNav THEN "NavigatingToPin"
                  ELSE IF LoadingShown(Ui) THEN "Resolving" ELSE "Idle"
    IN  /\ pc = "spinner" /\ pc' = "input"
        /\ \E t \in IF timer = "running" THEN {"running", "over"} ELSE {timer} :
              CASE needed # "Idle" ->
                     /\ spinner' = needed
                     /\ timer' = IF spinner = "Idle" THEN "running" ELSE t
                [] needed = "Idle" /\ t = "running" -> UNCHANGED spinner /\ timer' = t
                [] OTHER -> spinner' = "Idle" /\ timer' = "off"
        /\ Render
        /\ UNCHANGED <<todo, ready, fallback, prevFocus, listed, highlighted, opened,
                       stack, expansions, pages, nav, pins>>

-----------------------------------------------------------------------------
(* Keys in the stack panel: Up and Down, Right and Enter, Left and Enter,  *)
(* c, Escape, f.                                                           *)

Press(k, panel) == pc = "input" /\ k \in Keys /\ focus = panel

OnStack(k, u) ==
    /\ Press(k, "stack") /\ Becomes(u) /\ StartPolls
    /\ UNCHANGED <<prevFocus, listed, timer, pins>>

Here == stack.cursor.path
OnRow(kind)   == pc = "input" /\ stack.cursor.kind = kind
OnFrame       == OnRow("at") /\ Len(Here) = 1
OnValue       == OnRow("at") /\ Len(Here) > 1
Value         == SelectedRef(stack, Here)
ChunksOpen(v) == v.id \in DOMAIN stack.chunks
OnStackState(k, s) == OnStack(k, [Ui EXCEPT !.stack = s])

Move(r) == OnStackState("Move", SetCursor(stack, r))

OpenFrame ==
    /\ OnFrame /\ Here[1][2] \notin stack.expanded
    /\ OnStackState("Open", ExpandFrame(stack, Here[1][2]))

CloseFrame ==
    /\ OnFrame /\ Here[1][2] \in stack.expanded
    /\ OnStackState("Close", CollapseFrame(stack, Here[1][2]))

SwitchSection ==
    /\ OnRow("section")
    /\ OnStackState(IF Here \in stack.sections THEN "Close" ELSE "Open",
                    ToggleSection(stack, Here))

OpenObject ==
    /\ OnValue /\ IsRef(Value) /\ ~IsColl(Value)
    /\ Phase(stack, Here) = "Collapsed"
    /\ OnStack("Open", StartExpansion(Ui, Value.id, Here))

OpenPages ==
    /\ OnValue /\ IsColl(Value) /\ Expandable(Value) /\ ~ChunksOpen(Value)
    /\ OnStack("Open", OpenCollection(Ui, Here, Value))

\* Left leaves the chunks of an entry alone.
ClosesPages ==
    /\ ChunksOpen(Value)
    /\ Kind(Here) = "var" \/ (Expandable(Value) /\ IsColl(Value))

ClosePages ==
    /\ OnValue /\ ClosesPages
    /\ OnStack("ClosePages",
               DroppingPages([Ui EXCEPT !.stack = ForgetChunks(CollapseAtPath(@, Here), Value.id)],
                             Value.id))

ClosesObject ==
    /\ Expandable(Value) /\ Phase(stack, Here) = "Expanded"
    /\ ClosesPages => Kind(Here) = "entry"

CloseObject ==
    LET s == CollapseAtPath(stack, Here) IN
    /\ OnValue /\ ClosesObject
    /\ OnStack("Close",
               Dropping([Ui EXCEPT !.stack = IF Kind(Here) \in {"var", "entry"}
                                             THEN Resync(s) ELSE s], Value.id))

GoToParent ==
    /\ pc = "input" /\ ParentCursor(stack) # {}
    /\ OnValue => ~ClosesObject /\ ~(ClosesPages /\ Kind(Here) # "entry")
    /\ OnRow("section") => Here \notin stack.sections
    /\ \E r \in ParentCursor(stack) : OnStackState("Close", SetCursor(stack, r))

\* The row of a chunk that is not, or is, loaded.
OnChunk(state) ==
    /\ OnRow("chunk")
    /\ LET cid == Last(Here)[2]  o == Last(Here)[3]
       IN  /\ cid \in DOMAIN stack.chunks
           /\ o \in ChunkOffsets(stack.chunks[cid].total) \intersect DOMAIN stack.chunks[cid].pages
           /\ stack.chunks[cid].pages[o] = state

OpenChunk ==
    /\ OnChunk("Collapsed")
    /\ OnStack("Open", LoadPage(Ui, Last(Here)[2], Last(Here)[3]))

CloseChunk ==
    /\ OnChunk("Loaded")
    /\ OnStackState("Close", SetChunk(stack, Last(Here)[2], Last(Here)[3], "Collapsed"))

\* The first row of each object that is not already on its way.
BatchTargets(paths) ==
    LET id   == [p \in paths |-> ExpandTarget(stack, p).id]
        free == {p \in paths : \A q \in DOMAIN expansions : expansions[q].id # id[p]}
    IN  {p \in free : \A q \in free \ {p} : id[q] = id[p] => Above(stack, p, q)}

BatchExpandRows(targets) ==
    LET request(p) == [id |-> ExpandTarget(stack, p).id, shown |-> FALSE]
    IN  OnStack("BatchExpand",
                [Ui EXCEPT !.expansions =
                    [p \in DOMAIN @ \union targets |->
                        IF p \in DOMAIN @ THEN @[p] ELSE request(p)]])

\* A collection that is a row by itself is opened if it fits one page.
BatchExpandValue(v, targets) ==
    IF targets = {Here} /\ IsColl(v)
    THEN OnValue /\ v.count <= ChunkSize /\ OnStack("BatchExpand", OpenCollection(Ui, Here, v))
    ELSE BatchExpandRows(targets)

BatchExpand ==
    LET v == ExpandTarget(stack, Here) IN
    /\ OnRow("at") \/ OnRow("loading")
    /\ IF Here[1][2] \notin stack.expanded
       THEN OnStackState("BatchExpand", ExpandFrame(stack, Here[1][2]))
       ELSE /\ Len(Here) > 1
            /\ BatchExpandValue(v, BatchTargets(CollapsedExpandableAt(stack, Here, v)))

EscapeKey == IF nav.awaited[1] = "page" THEN "EscapePage" ELSE "EscapeWalk"

\* Mutant: the work is dropped and the walk goes on.
EscapeWork ==
    LET r == nav.awaited
        v == CASE r[1] = "object" -> Dropping(Ui, r[2])
               [] r[1] = "page"   -> DroppingPages(Ui, r[2])
               [] OTHER           -> Ui
    IN  /\ pc = "input" /\ nav # NoNav /\ Press(EscapeKey, "stack")
        /\ Becomes(v) /\ timer' = "off" /\ StartPolls
        /\ UNCHANGED <<prevFocus, listed, pins>>

\* Escape gives up a walk, then a row that loads, then the panel.
EscapeWalk ==
    LET r == nav.awaited
        u == [Ui EXCEPT !.nav = NoNav]
        v == CASE r[1] = "object" -> Dropping(u, r[2])
               [] r[1] = "page"   -> DroppingPages(u, r[2])
               [] OTHER           -> u
    IN  /\ pc = "input" /\ nav # NoNav /\ Press(EscapeKey, "stack")
        /\ Becomes([v EXCEPT !.spinner = IF LoadingShown(v) THEN "Resolving" ELSE "Idle"])
        /\ timer' = IF LoadingShown(v) THEN timer ELSE "off"
        /\ StartPolls
        /\ UNCHANGED <<prevFocus, listed, pins>>

OnLoading == OnRow("loading") /\ LoadingObject(stack, Here) # NoId

\* Mutant: the row goes on saying that it loads.
EscapeLoadingWork ==
    /\ nav = NoNav /\ OnLoading
    /\ OnStack("EscapeLoading", Dropping(Ui, LoadingObject(stack, Here)))

EscapeLoading ==
    /\ nav = NoNav /\ OnLoading
    /\ OnStack("EscapeLoading", Dropping([Ui EXCEPT !.stack = CollapseAtPath(@, Here)],
                                         LoadingObject(stack, Here)))

LeaveStack ==
    /\ nav = NoNav /\ ~OnLoading
    /\ OnStack("LeaveStack", [Ui EXCEPT !.focus = "list"])

Pin ==
    LET pin == [thread |-> SelectedThread(Ui), path |-> Here] IN
    /\ OnRow("at") /\ opened # NoThread /\ Press("Pin", "stack")
    /\ Pinnable(stack, Here)
    /\ pin \in pins \/ Cardinality(pins) < MaxPins
    /\ pins' = IF pin \in pins THEN pins \ {pin} ELSE pins \union {pin}
    /\ Becomes(Ui) /\ StartPolls
    /\ UNCHANGED <<prevFocus, listed, timer>>

-----------------------------------------------------------------------------
(* Keys in the thread list and in the favorites panel.                     *)

SelectThread(t) ==
    /\ Press("Select", "list") /\ t \in listed
    /\ Becomes([Ui EXCEPT !.highlighted = t]) /\ StartPolls
    /\ UNCHANGED <<prevFocus, listed, timer, pins>>

Search(ts) ==
    /\ Press("Search", "list")
    /\ listed' = ts
    /\ Becomes([Ui EXCEPT !.highlighted =
                   IF ts = {} \/ @ \in ts THEN @ ELSE FirstOf(ts)])
    /\ StartPolls
    /\ UNCHANGED <<prevFocus, timer, pins>>

EnterThread ==
    /\ Press("Enter", "list") /\ SelectedThread(Ui) # NoThread
    /\ Becomes(OpenStack(Ui, SelectedThread(Ui))) /\ StartPolls
    /\ UNCHANGED <<prevFocus, listed, timer, pins>>

FocusFavorites(panel) ==
    /\ Press(IF panel = "list" THEN "ListFavorites" ELSE "Favorites", panel)
    /\ pins # {}
    /\ Becomes([Ui EXCEPT !.focus = "favorites"]) /\ prevFocus' = panel
    /\ StartPolls
    /\ UNCHANGED <<listed, timer, pins>>

LeaveFavorites ==
    /\ Press("Leave", "favorites")
    /\ Becomes([Ui EXCEPT !.focus = prevFocus]) /\ StartPolls
    /\ UNCHANGED <<prevFocus, listed, timer, pins>>

\* Mutant of NextPanel: the focus goes to a stack that nobody opened.
NextPanelUnopened(visible) ==
    CASE focus = "list"      -> "stack"
      [] focus = "stack"     -> IF visible THEN "favorites" ELSE "list"
      [] focus = "favorites" -> "list"

NextPanel(visible) ==
    CASE focus = "list"      -> IF opened # NoThread THEN "stack" ELSE "list"
      [] focus = "stack"     -> IF visible THEN "favorites" ELSE "list"
      [] focus = "favorites" -> "list"

CycleFocus ==
    /\ Press("Tab", focus)
    /\ \E visible \in FavoritesVisible :
          Becomes([Ui EXCEPT !.focus = NextPanel(visible)])
    /\ StartPolls
    /\ UNCHANGED <<prevFocus, listed, timer, pins>>

Unpin(pin) ==
    /\ Press("Unpin", "favorites") /\ pin \in pins
    /\ pins' = pins \ {pin}
    /\ Becomes([Ui EXCEPT !.focus = CASE pins # {pin} -> @
                                      [] pins = {pin} /\ opened # NoThread -> "stack"
                                      [] OTHER -> "list"])
    /\ StartPolls
    /\ UNCHANGED <<prevFocus, listed, timer>>

GoToPin(pin) ==
    /\ Press("GoToPin", "favorites") /\ pin \in pins /\ pin.thread \in Threads
    /\ Becomes([NavigateWalk([Ui EXCEPT !.nav = NoNav, !.spinner = "Idle"],
                             pin.thread, pin.path, 0) EXCEPT !.focus = "stack"])
    /\ StartPolls
    /\ UNCHANGED <<prevFocus, listed, timer, pins>>

-----------------------------------------------------------------------------

StackKey ==
    \/ Press("Move", "stack") /\ \E r \in FlatItems(stack) : Move(r)
    \/ OpenFrame \/ OpenObject \/ OpenPages \/ OpenChunk
    \/ CloseFrame \/ CloseObject \/ ClosePages \/ CloseChunk
    \/ SwitchSection \/ GoToParent \/ BatchExpand
    \/ EscapeWalk \/ EscapeLoading \/ LeaveStack \/ Pin

ListKey ==
    \/ \E t \in Threads : SelectThread(t)
    \/ \E ts \in Filters : Search(ts)
    \/ EnterThread

FavoritesKey ==
    \/ \E pin \in pins : Unpin(pin) \/ GoToPin(pin)
    \/ \E panel \in {"list", "stack"} : FocusFavorites(panel)
    \/ LeaveFavorites \/ CycleFocus

PollExpansions ==
    \/ \E p \in DOMAIN expansions :
          \/ ExpansionAnswered(p) \/ ExpansionRefused(p)
          \/ ExpansionNotReady(p) \/ ExpansionLost(p)
    \/ ExpansionsPolled

PollPages ==
    \/ \E k \in DOMAIN pages :
          PageAnswered(k) \/ PageRefused(k) \/ PageNotReady(k) \/ PageLost(k)
    \/ PagesPolled

Next ==
    \/ Tick \/ StackKey \/ ListKey \/ FavoritesKey
    \/ PollExpansions \/ PollPages \/ ResumeYielded \/ UpdateSpinner

Spec == Init /\ [][Next]_vars

\* The loop goes round for ever: each of its phases ends.  And every worker
\* ends: its channel does not stay empty for ever, so that in the end a poll
\* takes the answer, or finds that there is none.
Phases    == {"input", "expansions", "pages", "resume", "spinner"}
PhaseEnds == \E q \in Phases \ {pc} : pc' = q

Taken(p) ==
    /\ pc = "expansions" /\ p \in todo
    /\ expansions' = Without(expansions, {p})

TakenPage(k) ==
    /\ pc = "pages" /\ k \in todo
    /\ pages' = Without(pages, {k})

WorkersEnd ==
    /\ \A o \in Ids \union DOMAIN Entries :
          SF_expansions(\E p \in DOMAIN expansions : expansions[p].id = o /\ Taken(p))
    /\ \A c \in DOMAIN Entries : \A o \in {0} \union ChunkOffsets(Len(Entries[c])) :
          SF_pages(<<c, o>> \in DOMAIN pages /\ TakenPage(<<c, o>>))

FairSpec == Spec /\ WF_pc(PhaseEnds) /\ WorkersEnd

-----------------------------------------------------------------------------
(* Properties.                                                             *)

\* A row that says it is loading has a worker that will end the loading, or
\* is a collection without pages, which Enter opens anew: Enter does nothing on
\* another row that loads (handle_stack_frames_input, app/mod.rs:1590-1780).
NoRowStuck ==
    \A p \in DOMAIN stack.phases :
        stack.phases[p] = "Loading" =>
            \/ p \in DOMAIN expansions
            \/ \E k \in DOMAIN pages : k[2] = 0 /\ pages[k].parent = p
            \/ IsColl(HeapAt(p)) /\ HeapAt(p).id \notin DOMAIN stack.chunks

\* An open collection has its first page or a worker that fetches it, and a
\* chunk that says it is loading has a worker: Enter does nothing on either.
ChunksHaveSource ==
    \A c \in DOMAIN stack.chunks :
        /\ ~stack.chunks[c].eager => <<c, 0>> \in DOMAIN pages
        /\ \A o \in DOMAIN stack.chunks[c].pages :
              stack.chunks[c].pages[o] = "Loading" => <<c, o>> \in DOMAIN pages

\* The panel that has the focus has something to show: in an empty favorites
\* panel, which is not drawn, most keys would do nothing.
FocusIsVisible ==
    /\ focus = "stack" => opened # NoThread
    /\ focus = "favorites" => pins # {}

\* No work is pending for the stack of a thread that is no longer opened, so
\* no answer can reach the rows of another, and a walk works on the stack of the
\* thread that owns its pin (open_stack_for_selected_thread, navigate_walk).
WorkOfOpenThread ==
    /\ nav # NoNav => opened = nav.thread
    /\ \A p \in DOMAIN expansions
               \union ({pages[k].parent : k \in DOMAIN pages} \ {NoPath}) :
          p[1] \in {FrameSeg(f) : f \in Range(stack.frames)}

\* The object a worker expands is the one the row it expands stands for.  (A
\* collection that has no pages is expanded wherever the cursor is by then.)
ExpandsWhatItShows ==
    \A p \in DOMAIN expansions :
        expansions[p].id \in Ids => expansions[p].id = HeapAt(p).id

\* A walk that waits has something to wait for.
NavHasSource ==
    nav # NoNav =>
        \/ nav.awaited = <<"continue">>
        \/ nav.awaited[1] = "object" /\ nav.awaited[2] = ready
        \/ nav.awaited[1] = "object" /\
           \E p \in DOMAIN expansions : expansions[p].id = nav.awaited[2]
        \/ nav.awaited[1] = "page" /\ nav.awaited[2] = ready
        \/ nav.awaited[1] = "page" /\ \E k \in DOMAIN pages : k[1] = nav.awaited[2]

\* The pin's path starts in the stack of the thread it is filed under.
Filed(pin) == /\ pin.thread \in Threads
              /\ pin.path[1] \in {FrameSeg(f) : f \in Range(Frames[pin.thread])}

\* When go-to-pin ends without a failure the cursor is on the pinned row, if
\* the favorite is filed under its thread.
WalkLands ==
    [][/\ \A pin \in pins :
             GoToPin(pin) /\ Filed(pin) => nav' # NoNav \/ stack'.cursor = At(pin.path)
       /\ nav # NoNav /\ nav' = NoNav /\ todo = {} /\ pc # "input" =>
             stack'.cursor = At(nav.orig)]_vars

\* The result of an expansion the user cancelled is thrown away: a row that
\* was shown loading and was collapsed does not open by itself.
CancelledStaysClosed ==
    [][\A p \in DOMAIN expansions :
          expansions[p].shown /\ Phase(stack, p) = "Collapsed" /\ pc = "expansions" =>
             Phase(stack', p) # "Expanded"]_vars

\* A walk ends: on the pinned row, or because something cannot be resolved.
NavigationEnds == [](nav # NoNav => <>(nav = NoNav))
=============================================================================
