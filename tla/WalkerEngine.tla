---------------------------- MODULE WalkerEngine ----------------------------
(***************************************************************************)
(* Background walkers, the skip-indexes they feed and the pages served     *)
(* from them (hprof-engine: engine_impl/mod.rs, pagination/).              *)
(*                                                                         *)
(* Threads: the UI thread, which spawns and cancels walkers and drains all *)
(* of them on every tick; one pager thread per page request in flight; and *)
(* the walkers, which only send.  Two mutexes guard the shared maps:       *)
(* walkersLock the map of handles and skipLock the map of skip-indexes.  A *)
(* step of a thread is what it does between two points where another       *)
(* thread can be seen: a lock taken, a join, or a message sent.            *)
(***************************************************************************)
EXTENDS Integers, Sequences, FiniteSets

CONSTANTS
    SkipInterval,       (* SKIP_INTERVAL                                    *)
    BatchSendInterval,  (* BATCH_SEND_INTERVAL: entries between two sends   *)
    MaxWalkers,         (* MAX_WALKERS                                      *)
    Collections,        (* ids of the chained collections in the dump       *)
    LinkedLists,        (* those walked by `first`/`next`; others are maps  *)
    NullEnded,          (* lists whose walk ends on a null, not a bad node  *)
    Nodes,              (* ids of the chain nodes                           *)
    Chain,              (* the readable nodes of a collection in walk order *)
    Size,               (* its declared entry count (the `size` field)      *)
    UI, Pagers,         (* the UI thread, the page worker threads           *)
    Walkers,            (* identities of walker threads, reused after join  *)
    Requests,           (* the (offset, limit) pairs pages are asked for    *)
    NoWalker, NoThread, End

Threads == Pagers \union {UI}

ASSUME IntervalsAssumption ==
    /\ SkipInterval \in Nat \ {0}
    /\ BatchSendInterval \in Nat \ {0}
    /\ MaxWalkers \in Nat \ {0}

\* A walk stops before it visits a node twice, so a chain has no repeats.
ASSUME HeapAssumption ==
    /\ Collections # {}
    /\ Chain \in [Collections -> Seq(Nodes)]
    /\ \A c \in Collections : \A i, j \in 1..Len(Chain[c]) :
          Chain[c][i] = Chain[c][j] => i = j
    /\ Size \in [Collections -> Nat]
    /\ LinkedLists \subseteq Collections
    /\ NullEnded \subseteq LinkedLists
    /\ End \notin Nodes

ASSUME ThreadsAssumption ==
    /\ UI \notin Pagers
    /\ NoThread \notin Threads
    /\ NoWalker \notin Walkers

ASSUME RequestsAssumption ==
    Requests \subseteq [offset : Nat, limit : Nat \ {0}]

VARIABLES
    walkersLock,  (* the thread holding the mutex of `walkers`             *)
    skipLock,     (* the thread holding the mutex of `skip_indexes`        *)
    walkers,      (* the handle registered for each collection             *)
    walk,         (* the state of each walker thread                       *)
    channel,      (* its messages not yet received                         *)
    indexed,      (* the collections with an entry in `skip_indexes`       *)
    skip,         (* their skip-indexes                                    *)
    pc,           (* what each thread is about to do                       *)
    serving,      (* the collection a thread works on                      *)
    messages,     (* the messages a drain has taken and not yet applied    *)
    joining,      (* the walker a thread has removed and waits for         *)
    todo,         (* the collections the UI's tick has still to drain      *)
    request,      (* the page a pager was asked for                        *)
    extract,      (* its walk: base checkpoint, next node, nodes collected *)
    page          (* the page it returned last                             *)

locks     == <<walkersLock, skipLock>>
walkVars  == <<walkers, walk, channel>>
indexVars == <<indexed, skip>>
pageVars  == <<request, extract, page>>
vars == <<locks, walkVars, indexVars, pc, serving, messages, joining, todo,
          pageVars>>

SI == INSTANCE SkipIndex

-----------------------------------------------------------------------------
(* The dump.                                                               *)

Head1(c) == IF Chain[c] = << >> THEN End ELSE Chain[c][1]

\* What following `next` (or the next table slot) from a node leads to.
Successor(c, n) ==
    LET after == {i \in 2..Len(Chain[c]) : Chain[c][i - 1] = n}
    IN  IF after = {} THEN End ELSE Chain[c][CHOOSE i \in after : TRUE]

-----------------------------------------------------------------------------
(* Walker threads.                                                         *)

Checkpoints == Seq(Nat \X Nodes)
Messages == [type : {"Batch"}, checkpoints : Checkpoints]
            \union [type : {"Complete"}]

Batch(checkpoints) == [type |-> "Batch", checkpoints |-> checkpoints]
Complete == [type |-> "Complete"]

HasComplete(msgs) == \E i \in 1..Len(msgs) : msgs[i] = Complete

\* The value of a field or a local not yet set.
AnyCollection == CHOOSE c \in Collections : TRUE

Idle == [state |-> "free", collection |-> AnyCollection,
         at |-> End, count |-> 0, buffer |-> << >>, cancel |-> FALSE]

Send(w, m) == channel' = [channel EXCEPT ![w] = Append(@, m)]

\* One node of the chain: checkpoint it, move on, send a batch when due.
WalkNode(w) ==
    LET here  == walk[w]
        count == here.count + 1
        buffer == IF here.count % SkipInterval = 0
                  THEN Append(here.buffer, <<here.count, here.at>>)
                  ELSE here.buffer
        due   == count % BatchSendInterval = 0
    IN  /\ here.state = "walking"
        /\ ~here.cancel
        /\ here.at # End
        /\ walk' = [walk EXCEPT
                      ![w].at = Successor(here.collection, here.at),
                      ![w].count = count,
                      ![w].buffer = IF due THEN << >> ELSE buffer]
        /\ IF due THEN Send(w, Batch(buffer)) ELSE UNCHANGED channel
        /\ UNCHANGED <<locks, walkers, indexVars, pc, serving, messages,
                       joining, todo, pageVars>>

\* Mutant: the tail of the walk, less than a batch, is not sent.
WalkFlushForgetting(w) ==
    /\ walk[w].state = "walking"
    /\ walk[w].cancel \/ walk[w].at = End
    /\ walk' = [walk EXCEPT ![w].state = "flushed", ![w].buffer = << >>]
    /\ UNCHANGED <<locks, walkers, channel, indexVars, pc, serving, messages,
                   joining, todo, pageVars>>

\* Out of the loop, at the chain's end or cancelled: flush what is buffered.
WalkFlush(w) ==
    /\ walk[w].state = "walking"
    /\ walk[w].cancel \/ walk[w].at = End
    /\ walk' = [walk EXCEPT ![w].state = "flushed", ![w].buffer = << >>]
    /\ IF walk[w].buffer # << >>
       THEN Send(w, Batch(walk[w].buffer))
       ELSE UNCHANGED channel
    /\ UNCHANGED <<locks, walkers, indexVars, pc, serving, messages,
                   joining, todo, pageVars>>

\* Mutant: the end of the walk is not announced.
WalkCompleteSilently(w) ==
    /\ walk[w].state = "flushed"
    /\ walk' = [walk EXCEPT ![w].state = "returning"]
    /\ UNCHANGED <<locks, walkers, channel, indexVars, pc, serving, messages,
                   joining, todo, pageVars>>

\* Complete is announced unless the walk was cancelled.
WalkComplete(w) ==
    /\ walk[w].state = "flushed"
    /\ walk' = [walk EXCEPT ![w].state = "returning"]
    /\ IF walk[w].cancel THEN UNCHANGED channel ELSE Send(w, Complete)
    /\ UNCHANGED <<locks, walkers, indexVars, pc, serving, messages,
                   joining, todo, pageVars>>

\* The thread ends and its sender is dropped; a panic ends it anywhere.
WalkExit(w) ==
    /\ walk[w].state = "returning"
    /\ walk' = [walk EXCEPT ![w].state = "exited"]
    /\ UNCHANGED <<locks, walkers, channel, indexVars, pc, serving, messages,
                   joining, todo, pageVars>>

WalkPanic(w) ==
    /\ walk[w].state = "walking"
    /\ walk' = [walk EXCEPT ![w].state = "panicked", ![w].buffer = << >>]
    /\ UNCHANGED <<locks, walkers, channel, indexVars, pc, serving, messages,
                   joining, todo, pageVars>>

\* The thread is over: receiving finds its channel disconnected, joining
\* returns at once.
Ended(w) == walk[w].state \in {"exited", "panicked"}

Walking(w) == WalkNode(w) \/ WalkFlush(w) \/ WalkComplete(w) \/ WalkExit(w)

-----------------------------------------------------------------------------
(* drain_walker, run by the UI's tick and by every page request.           *)

\* Where a thread goes once its drain is over.
Resume(t) == IF t = UI THEN "tick" ELSE "extract"
Goto(t, label) == pc' = [pc EXCEPT ![t] = label]

\* Mutants of DrainTake: a disconnected channel does not remove the handle; a
\* page request waits until a walker is registered.
DrainTakeIgnoringDisconnect(t) ==
    LET w == walkers[serving[t]]
    IN  /\ pc[t] = "drain"
        /\ walkersLock = NoThread
        /\ IF w = NoWalker
           THEN Goto(t, Resume(t)) /\ UNCHANGED <<messages, channel>>
           ELSE /\ messages' = [messages EXCEPT ![t] = channel[w]]
                /\ channel' = [channel EXCEPT ![w] = << >>]
                /\ Goto(t, IF HasComplete(channel[w]) THEN "remove"
                           ELSE IF channel[w] = << >> THEN Resume(t)
                           ELSE "apply")
        /\ UNCHANGED <<locks, walkers, walk, indexVars, serving, joining, todo,
                       pageVars>>
DrainTakeAwaitingWalker(t) ==
    LET w == walkers[serving[t]]
    IN  /\ pc[t] = "drain"
        /\ walkersLock = NoThread
        /\ IF w = NoWalker
           THEN /\ Goto(t, IF t = UI THEN Resume(t) ELSE "drain")
                /\ UNCHANGED <<messages, channel>>
           ELSE /\ messages' = [messages EXCEPT ![t] = channel[w]]
                /\ channel' = [channel EXCEPT ![w] = << >>]
                /\ Goto(t, IF HasComplete(channel[w]) \/ Ended(w) THEN "remove"
                           ELSE IF channel[w] = << >> THEN Resume(t)
                           ELSE "apply")
        /\ UNCHANGED <<locks, walkers, walk, indexVars, serving, joining, todo,
                       pageVars>>

\* Phase 1: take everything the channel holds, then release the lock.
DrainTake(t) ==
    LET w      == walkers[serving[t]]
        remove == HasComplete(channel[w]) \/ Ended(w)
    IN  /\ pc[t] = "drain"
        /\ walkersLock = NoThread
        /\ IF w = NoWalker
           THEN Goto(t, Resume(t)) /\ UNCHANGED <<messages, channel>>
           ELSE /\ messages' = [messages EXCEPT ![t] = channel[w]]
                /\ channel' = [channel EXCEPT ![w] = << >>]
                /\ Goto(t, IF remove THEN "remove"
                           ELSE IF channel[w] = << >> THEN Resume(t)
                           ELSE "apply")
        /\ UNCHANGED <<locks, walkers, walk, indexVars, serving, joining, todo,
                       pageVars>>

\* Mutant: the removed walker is not joined.
DrainRemoveDetaching(t) ==
    LET w == walkers[serving[t]]
    IN  /\ pc[t] = "remove"
        /\ walkersLock = NoThread
        /\ Goto(t, "apply")
        /\ walkers' = IF w = NoWalker THEN walkers
                      ELSE [walkers EXCEPT ![serving[t]] = NoWalker]
        /\ UNCHANGED <<locks, walk, channel, indexVars, serving, messages,
                       joining, todo, pageVars>>

\* The lock is taken again: whatever handle is there by now is removed.
DrainRemove(t) ==
    LET w == walkers[serving[t]]
    IN  /\ pc[t] = "remove"
        /\ walkersLock = NoThread
        /\ IF w = NoWalker
           THEN Goto(t, "apply") /\ UNCHANGED <<walkers, walkersLock, joining>>
           ELSE /\ walkers' = [walkers EXCEPT ![serving[t]] = NoWalker]
                /\ joining' = [joining EXCEPT ![t] = w]
                /\ walkersLock' = t
                /\ Goto(t, "join")
        /\ UNCHANGED <<skipLock, walk, channel, indexVars, serving, messages,
                       todo, pageVars>>

\* The removed walker's thread has ended: its handle and channel are dropped.
Joined(t) ==
    /\ walkersLock = t
    /\ Ended(joining[t])
    /\ walk' = [walk EXCEPT ![joining[t]] = Idle]
    /\ channel' = [channel EXCEPT ![joining[t]] = << >>]
    /\ joining' = [joining EXCEPT ![t] = NoWalker]

DrainJoin(t) ==
    /\ pc[t] = "join"
    /\ Joined(t)
    /\ walkersLock' = NoThread
    /\ Goto(t, "apply")
    /\ UNCHANGED <<skipLock, walkers, indexVars, serving, messages, todo,
                   pageVars>>

\* Phase 2: apply the messages in order, all under the skip-index lock.
DrainApply(t) ==
    /\ pc[t] = "apply"
    /\ skipLock = NoThread
    /\ skipLock' = t
    /\ Goto(t, "applying")
    /\ UNCHANGED <<walkersLock, walkVars, indexVars, serving, messages,
                   joining, todo, pageVars>>

\* One checkpoint of the batch in front, or its end.  A batch creates the
\* collection's entry.
ApplyBatch(t) ==
    LET c    == serving[t]
        rest == Head(messages[t]).checkpoints
    IN  /\ pc[t] = "applying"
        /\ messages[t] # << >>
        /\ Head(messages[t]).type = "Batch"
        /\ indexed' = indexed \union {c}
        /\ IF rest = << >>
           THEN /\ messages' = [messages EXCEPT ![t] = Tail(@)]
                /\ UNCHANGED skip
           ELSE /\ skip' = [skip EXCEPT
                              ![c] = SI!Record(@, Head(rest)[1], Head(rest)[2])]
                /\ messages' = [messages EXCEPT
                              ![t] = <<Batch(Tail(rest))>> \o Tail(@)]
        /\ UNCHANGED <<locks, walkVars, pc, serving, joining, todo, pageVars>>

\* Complete is recorded only if the collection has an entry.
ApplyComplete(t) ==
    LET c == serving[t]
    IN  /\ pc[t] = "applying"
        /\ messages[t] # << >>
        /\ Head(messages[t]).type = "Complete"
        /\ messages' = [messages EXCEPT ![t] = Tail(@)]
        /\ skip' = IF c \in indexed
                   THEN [skip EXCEPT ![c] = SI!MarkComplete(@)]
                   ELSE skip
        /\ UNCHANGED <<locks, walkVars, indexed, pc, serving, joining, todo,
                       pageVars>>

DrainDone(t) ==
    /\ pc[t] = "applying"
    /\ messages[t] = << >>
    /\ skipLock' = NoThread
    /\ Goto(t, Resume(t))
    /\ UNCHANGED <<walkersLock, walkVars, indexVars, serving, messages,
                   joining, todo, pageVars>>

DrainWalker(t) ==
    \/ DrainTake(t) \/ DrainRemove(t) \/ DrainJoin(t) \/ DrainApply(t)
    \/ ApplyBatch(t) \/ ApplyComplete(t) \/ DrainDone(t)

-----------------------------------------------------------------------------
(* The UI thread: key events, then one tick that drains every walker.      *)

HandleCount == Cardinality({c \in Collections : walkers[c] # NoWalker})

\* spawn_walker holds `walkers` while it reads `skip_indexes`.
SpawnLock(c) ==
    /\ pc[UI] = "input"
    /\ walkersLock = NoThread
    /\ IF walkers[c] # NoWalker
       THEN UNCHANGED <<walkersLock, pc, serving>>
       ELSE /\ walkersLock' = UI
            /\ serving' = [serving EXCEPT ![UI] = c]
            /\ Goto(UI, "spawn")
    /\ UNCHANGED <<skipLock, walkVars, indexVars, messages, joining, todo,
                   pageVars>>

\* Mutant: one walker over the cap is let in.
SpawnWalkerOverCap ==
    LET c == serving[UI]
        refused == \/ c \in indexed /\ skip[c].complete
                   \/ HandleCount > MaxWalkers
    IN  /\ pc[UI] = "spawn"
        /\ skipLock = NoThread
        /\ IF refused
           THEN UNCHANGED walkVars
           ELSE \E w \in Walkers :
                  /\ walk[w].state = "free"
                  /\ walk' = [walk EXCEPT ![w] =
                                [Idle EXCEPT !.state = "walking",
                                             !.collection = c,
                                             !.at = Head1(c)]]
                  /\ walkers' = [walkers EXCEPT ![c] = w]
                  /\ UNCHANGED channel
        /\ walkersLock' = NoThread
        /\ Goto(UI, "input")
        /\ UNCHANGED <<skipLock, indexVars, serving, messages, joining, todo,
                       pageVars>>

SpawnWalker ==
    LET c == serving[UI]
        refused == \/ c \in indexed /\ skip[c].complete
                   \/ HandleCount >= MaxWalkers
    IN  /\ pc[UI] = "spawn"
        /\ skipLock = NoThread
        /\ IF refused
           THEN UNCHANGED walkVars
           ELSE \E w \in Walkers :
                  /\ walk[w].state = "free"
                  /\ walk' = [walk EXCEPT ![w] =
                                [Idle EXCEPT !.state = "walking",
                                             !.collection = c,
                                             !.at = Head1(c)]]
                  /\ walkers' = [walkers EXCEPT ![c] = w]
                  /\ UNCHANGED channel
        /\ walkersLock' = NoThread
        /\ Goto(UI, "input")
        /\ UNCHANGED <<skipLock, indexVars, serving, messages, joining, todo,
                       pageVars>>

\* cancel_walker, and each turn of the loop in Engine::drop: take a handle
\* out, raise its flag and wait for the thread under the lock.
CancelWalker(c, label) ==
    /\ walkers[c] # NoWalker
    /\ walk' = [walk EXCEPT ![walkers[c]].cancel = TRUE]
    /\ joining' = [joining EXCEPT ![UI] = walkers[c]]
    /\ walkers' = [walkers EXCEPT ![c] = NoWalker]
    /\ walkersLock' = UI
    /\ Goto(UI, label)
    /\ UNCHANGED <<skipLock, channel, indexVars, serving, messages, todo,
                   pageVars>>

Cancel(c) ==
    /\ pc[UI] = "input"
    /\ walkersLock = NoThread
    /\ CancelWalker(c, "cancelling")

CancelJoin ==
    /\ pc[UI] = "cancelling"
    /\ Joined(UI)
    /\ walkersLock' = NoThread
    /\ Goto(UI, "input")
    /\ UNCHANGED <<skipLock, walkers, indexVars, serving, messages, todo,
                   pageVars>>

\* drain_walkers: the collections to drain are read once per tick.
TickStart ==
    /\ pc[UI] = "input"
    /\ walkersLock = NoThread
    /\ todo' = {c \in Collections : walkers[c] # NoWalker}
    /\ Goto(UI, "tick")
    /\ UNCHANGED <<locks, walkVars, indexVars, serving, messages, joining,
                   pageVars>>

TickDrain(c) ==
    /\ pc[UI] = "tick"
    /\ c \in todo
    /\ todo' = todo \ {c}
    /\ serving' = [serving EXCEPT ![UI] = c]
    /\ Goto(UI, "drain")
    /\ UNCHANGED <<locks, walkVars, indexVars, messages, joining, pageVars>>

TickEnd ==
    /\ pc[UI] = "tick"
    /\ todo = {}
    /\ Goto(UI, "input")
    /\ UNCHANGED <<locks, walkVars, indexVars, serving, messages, joining,
                   todo, pageVars>>

\* The last owner of the engine drops it: no page worker is left.
Quit ==
    /\ pc[UI] = "input"
    /\ \A p \in Pagers : pc[p] = "idle"
    /\ walkersLock = NoThread
    /\ walkersLock' = UI
    /\ Goto(UI, "drop")
    /\ UNCHANGED <<skipLock, walkVars, indexVars, serving, messages, joining,
                   todo, pageVars>>

DropCancel(c) ==
    /\ pc[UI] = "drop"
    /\ CancelWalker(c, "dropping")

DropJoin ==
    /\ pc[UI] = "dropping"
    /\ Joined(UI)
    /\ Goto(UI, "drop")
    /\ UNCHANGED <<locks, walkers, indexVars, serving, messages, todo,
                   pageVars>>

DropEnd ==
    /\ pc[UI] = "drop"
    /\ HandleCount = 0
    /\ walkersLock' = NoThread
    /\ Goto(UI, "stopped")
    /\ UNCHANGED <<skipLock, walkVars, indexVars, serving, messages, joining,
                   todo, pageVars>>

-----------------------------------------------------------------------------
(* A page request: drain, then walk under the skip-index lock.             *)

NoRequest == [offset |-> 0, limit |-> 1]
NoExtract == [base |-> 0, at |-> End, items |-> << >>]
NoPage    == [entries |-> << >>, offset |-> 0, hasMore |-> FALSE]

\* The UI starts a worker for a chunk that lies inside the declared size.
GetPage(p, c, r) ==
    /\ pc[p] = "idle"
    /\ pc[UI] = "input"
    /\ r.offset < Size[c]
    /\ serving' = [serving EXCEPT ![p] = c]
    /\ request' = [request EXCEPT ![p] = r]
    /\ Goto(p, "drain")
    /\ UNCHANGED <<locks, walkVars, indexVars, messages, joining, todo,
                   extract, page>>

\* A page past the head creates the entry; it resumes from a checkpoint.
ExtractBegin(p) ==
    LET c == serving[p]
        offset == request[p].offset
        near == SI!NearestBefore(skip[c], offset)
    IN  /\ pc[p] = "extract"
        /\ skipLock = NoThread
        /\ skipLock' = p
        /\ indexed' = IF offset > 0 THEN indexed \union {c} ELSE indexed
        /\ extract' = [extract EXCEPT ![p] =
              IF offset > 0 /\ skip[c].checkpoints # << >>
              THEN [base |-> near.index, at |-> near.node, items |-> << >>]
              ELSE [base |-> 0, at |-> Head1(c), items |-> << >>]]
        /\ Goto(p, "extracting")
        /\ UNCHANGED <<walkersLock, walkVars, skip, serving, messages, joining,
                       todo, request, page>>

\* The walk collects up to the end of the page; a list also stops at its
\* declared size.
WantsMore(p) ==
    LET c == serving[p]
        e == extract[p]
    IN  /\ e.at # End
        /\ e.base + Len(e.items) < request[p].offset + request[p].limit
        /\ c \in LinkedLists => e.base + Len(e.items) < Size[c]

ExtractNode(p) ==
    LET c == serving[p]
        e == extract[p]
    IN  /\ pc[p] = "extracting"
        /\ WantsMore(p)
        /\ skip' = IF c \in indexed
                   THEN [skip EXCEPT
                          ![c] = SI!Record(@, e.base + Len(e.items), e.at)]
                   ELSE skip
        /\ extract' = [extract EXCEPT ![p].at = Successor(c, e.at),
                                      ![p].items = Append(@, e.at)]
        /\ UNCHANGED <<locks, walkVars, indexed, pc, serving, messages, joining,
                       todo, request, page>>

\* A list is traversed once the walk meets a null `next`, a map once it runs
\* out of entries before the end of the page.
Traversed(p) ==
    LET c == serving[p]
        e == extract[p]
    IN  IF c \in LinkedLists
        THEN e.at = End /\ c \in NullEnded
        ELSE e.base + Len(e.items) < request[p].offset + request[p].limit

\* Mutant: the offset is not taken relative to the checkpoint.
SkippedFromHead(p) ==
    LET c == serving[p]
        ahead == request[p].offset
        bound == IF c \in LinkedLists THEN Size[c] ELSE Len(extract[p].items)
    IN  IF ahead <= bound THEN ahead ELSE bound

\* How many collected entries precede the page.
Skipped(p) ==
    LET c == serving[p]
        ahead == request[p].offset - extract[p].base
        bound == IF c \in LinkedLists THEN Size[c] ELSE Len(extract[p].items)
    IN  IF ahead <= bound THEN ahead ELSE bound

\* Mutant: the page's offset is taken relative to the checkpoint twice.
PageOfRelative(items, base, skipped, limit, total) ==
    LET last    == IF skipped + limit <= Len(items)
                   THEN skipped + limit ELSE Len(items)
        entries == SubSeq(items, skipped + 1, last)
    IN  [entries |-> entries, offset |-> skipped - base,
         hasMore |-> base + skipped + Len(entries) < total]

PageOf(items, base, skipped, limit, total) ==
    LET last    == IF skipped + limit <= Len(items)
                   THEN skipped + limit ELSE Len(items)
        entries == SubSeq(items, skipped + 1, last)
    IN  [entries |-> entries, offset |-> base + skipped,
         hasMore |-> base + skipped + Len(entries) < total]

ExtractEnd(p) ==
    LET c == serving[p]
    IN  /\ pc[p] = "extracting"
        /\ ~WantsMore(p)
        /\ skip' = IF c \in indexed /\ Traversed(p)
                   THEN [skip EXCEPT ![c] = SI!MarkComplete(@)]
                   ELSE skip
        /\ page' = [page EXCEPT ![p] =
                      PageOf(extract[p].items, extract[p].base, Skipped(p),
                             request[p].limit, Size[c])]
        /\ extract' = [extract EXCEPT ![p] = NoExtract]
        /\ skipLock' = NoThread
        /\ Goto(p, "returned")
        /\ UNCHANGED <<walkersLock, walkVars, indexed, serving, messages,
                       joining, todo, request>>

\* The worker hands its page over and ends.
Return(p) ==
    /\ pc[p] = "returned"
    /\ page' = [page EXCEPT ![p] = NoPage]
    /\ request' = [request EXCEPT ![p] = NoRequest]
    /\ serving' = [serving EXCEPT ![p] = AnyCollection]
    /\ Goto(p, "idle")
    /\ UNCHANGED <<locks, walkVars, indexVars, messages, joining, todo, extract>>

-----------------------------------------------------------------------------
(* The specification.                                                      *)

Init ==
    /\ walkersLock = NoThread
    /\ skipLock = NoThread
    /\ walkers = [c \in Collections |-> NoWalker]
    /\ walk = [w \in Walkers |-> Idle]
    /\ channel = [w \in Walkers |-> << >>]
    /\ indexed = {}
    /\ skip = [c \in Collections |-> SI!NewIndex]
    /\ pc = [t \in Threads |-> IF t = UI THEN "input" ELSE "idle"]
    /\ serving = [t \in Threads |-> AnyCollection]
    /\ messages = [t \in Threads |-> << >>]
    /\ joining = [t \in Threads |-> NoWalker]
    /\ todo = {}
    /\ request = [p \in Pagers |-> NoRequest]
    /\ extract = [p \in Pagers |-> NoExtract]
    /\ page = [p \in Pagers |-> NoPage]

Events == \/ \E c \in Collections : SpawnLock(c) \/ Cancel(c)
          \/ Quit

Ticking == \/ SpawnWalker \/ CancelJoin
           \/ \E c \in Collections : TickDrain(c) \/ DropCancel(c)
           \/ DrainWalker(UI) \/ TickEnd \/ DropJoin \/ DropEnd

Paging(p) == \/ DrainWalker(p)
             \/ ExtractBegin(p) \/ ExtractNode(p) \/ ExtractEnd(p) \/ Return(p)

\* The process is gone.
Stopped == pc[UI] = "stopped" /\ UNCHANGED vars

Next ==
    \/ \E w \in Walkers : Walking(w) \/ WalkPanic(w)
    \/ Events \/ TickStart \/ Ticking
    \/ \E p \in Pagers : \/ Paging(p)
                         \/ \E c \in Collections, r \in Requests : GetPage(p, c, r)
    \/ Stopped

Spec == Init /\ [][Next]_vars

\* Every thread is scheduled, and one that waits for a mutex gets it in the
\* end: the UI sleeps up to 16 ms in event::poll between two ticks, holding
\* nothing, so a lock it competes for is free for a waiter to take.
Fairness ==
    /\ \A w \in Walkers : WF_vars(Walking(w))
    /\ SF_vars(TickStart)
    /\ SF_vars(Ticking)
    /\ \A p \in Pagers : SF_vars(Paging(p))

FairSpec == Spec /\ Fairness

-----------------------------------------------------------------------------
(* Properties.                                                             *)

Labels == {"input", "spawn", "cancelling", "tick", "drop", "dropping",
           "stopped", "idle", "drain", "remove", "join", "apply", "applying",
           "extract", "extracting", "returned"}
States == {"free", "walking", "flushed", "returning", "exited",
           "panicked"}

WalkType == [state : States, collection : Collections,
             at : Nodes \union {End}, count : Nat, buffer : Checkpoints,
             cancel : BOOLEAN]

\* Every variable stays in its domain.
TypeOK ==
    /\ walkersLock \in Threads \union {NoThread}
    /\ skipLock \in Threads \union {NoThread}
    /\ walkers \in [Collections -> Walkers \union {NoWalker}]
    /\ walk \in [Walkers -> WalkType]
    /\ channel \in [Walkers -> Seq(Messages)]
    /\ indexed \in SUBSET Collections
    /\ skip \in [Collections -> SI!Indexes]
    /\ pc \in [Threads -> Labels]
    /\ serving \in [Threads -> Collections]
    /\ messages \in [Threads -> Seq(Messages)]
    /\ joining \in [Threads -> Walkers \union {NoWalker}]
    /\ todo \in SUBSET Collections
    /\ request \in [Pagers -> [offset : Nat, limit : Nat \ {0}]]
    /\ extract \in [Pagers -> [base : Nat, at : Nodes \union {End},
                               items : Seq(Nodes)]]
    /\ page \in [Pagers -> [entries : Seq(Nodes), offset : Nat,
                            hasMore : BOOLEAN]]

\* What resuming a walk relies on (skip_index.rs:36-38): the i-th checkpoint
\* names the node of entry (i - 1) * interval, whichever threads recorded the
\* checkpoints and in whatever order their messages were applied.
SkipIndexSound ==
    \A c \in Collections : \A i \in 1..Len(skip[c].checkpoints) :
        /\ (i - 1) * SkipInterval < Len(Chain[c])
        /\ skip[c].checkpoints[i] = Chain[c][(i - 1) * SkipInterval + 1]

\* The nodes a walk from the head collects: a list stops at its size.
Walkable(c) ==
    IF c \in LinkedLists /\ Size[c] < Len(Chain[c]) THEN Size[c] ELSE Len(Chain[c])

\* The page a walk from the head would return.
ReferencePage(c, offset, limit) ==
    LET last  == IF offset + limit <= Walkable(c)
                 THEN offset + limit ELSE Walkable(c)
        start == IF c \in LinkedLists \/ offset <= Len(Chain[c])
                 THEN offset ELSE Len(Chain[c])
        entries == SubSeq(Chain[c], start + 1, last)
    IN  [entries |-> entries, offset |-> start,
         hasMore |-> start + Len(entries) < Size[c]]

\* get_page returns the same page whatever the walkers and the other page
\* requests have done to the skip-index it resumes from.
PagesMatchChain ==
    \A p \in Pagers : pc[p] = "returned" =>
        page[p] = ReferencePage(serving[p], request[p].offset, request[p].limit)

Live(w) == walk[w].state # "free"

\* Dedup in spawn_walker: a collection never has two walker threads, even
\* while a drain removes the handle of a finished one.
OneWalkerPerCollection ==
    \A v, w \in Walkers : Live(v) /\ Live(w) /\ v # w =>
        walk[v].collection # walk[w].collection

\* MAX_WALKERS bounds the threads that run, not only the handles: a handle
\* leaves the map only under the lock that its thread is then joined under.
RunningWalkersBounded == Cardinality({w \in Walkers : Live(w)}) <= MaxWalkers

\* A complete index covers its collection: every checkpoint of the chain is
\* there, so every deep page is served from a nearby checkpoint
\* (background_walker.rs:5-6).
Covered(c) == Len(skip[c].checkpoints) * SkipInterval >= Len(Chain[c])
CompleteMeansCovered ==
    \A c \in Collections : skip[c].complete => Covered(c)

\* A drain that reports "terminated unexpectedly" (engine_impl/mod.rs:713-728)
\* has removed a walker that panicked.
UnexpectedTerminations ==
    \A t \in Threads : pc[t] = "join" /\ ~HasComplete(messages[t]) =>
        walk[joining[t]].state = "panicked"

\* What CompleteMeansCovered needs of the threads: what one drain has taken of a
\* collection is applied before another takes more of it.
TakenApart ==
    \A t, u \in Threads : t # u /\ serving[t] = serving[u] =>
        messages[t] = << >> \/ messages[u] = << >>

\* What UnexpectedTerminations needs of them: the handle a drain found to be at
\* its end under its first lock is still registered when it locks again.
HandleKept ==
    \A t \in Threads : pc[t] = "remove" => walkers[serving[t]] # NoWalker

\* Both skip-index operations only add (engine_impl/mod.rs:1047-1050): a
\* checkpoint never changes or disappears, a complete index stays complete.
Grows(old, new) ==
    /\ Len(new.checkpoints) >= Len(old.checkpoints)
    /\ SubSeq(new.checkpoints, 1, Len(old.checkpoints)) = old.checkpoints
    /\ old.complete => new.complete
IndexOnlyGrows ==
    [][/\ indexed \subseteq indexed'
       /\ \A c \in Collections : Grows(skip[c], skip'[c])]_indexVars

\* No request waits for ever on the two locks or on a join, and the UI's tick
\* is never stuck behind a page worker (get_page, drain_walkers).
CallsReturn ==
    /\ \A p \in Pagers : pc[p] = "drain" ~> pc[p] = "returned"
    /\ pc[UI] = "tick" ~> pc[UI] = "input"

\* A walker that has ended is reaped by a later tick, which frees its place
\* under the cap; dropping the engine ends them all (drain_walker, Drop).
WalkersEnd ==
    /\ \A w \in Walkers : Ended(w) ~> ~Live(w)
    /\ pc[UI] = "drop" ~> (pc[UI] = "stopped" /\ \A w \in Walkers : ~Live(w))

-----------------------------------------------------------------------------
(* The inductive invariant behind the safety properties.                   *)

\* The node at a 0-based position of a chain, End past its last.
NodeAt(c, i) == IF i < Len(Chain[c]) THEN Chain[c][i + 1] ELSE End

JoinLabels == {"join", "cancelling", "dropping"}

\* A live walker is registered for its collection or, under the lock, being
\* joined; a spawn in progress has the lock and an unregistered collection.
HandlesInv ==
    /\ \A c \in Collections : walkers[c] # NoWalker =>
          Live(walkers[c]) /\ walk[walkers[c]].collection = c
    /\ \A t \in Threads : joining[t] # NoWalker =>
          /\ walkersLock = t
          /\ Live(joining[t])
          /\ walkers[walk[joining[t]].collection] = NoWalker
    /\ \A w \in Walkers : Live(w) => \/ walkers[walk[w].collection] = w
                                     \/ \E t \in Threads : joining[t] = w
    /\ \A t \in Threads : pc[t] \in JoinLabels => joining[t] # NoWalker
    /\ pc[UI] \in {"spawn", "drop"} => walkersLock = UI /\ joining[UI] = NoWalker
    /\ pc[UI] = "spawn" => walkers[serving[UI]] = NoWalker

\* A checkpoint of c names the node at its entry.
SoundCheckpoint(c, cp) == cp[1] < Len(Chain[c]) /\ cp[2] = Chain[c][cp[1] + 1]
SoundCheckpoints(c, cps) == \A i \in 1..Len(cps) : SoundCheckpoint(c, cps[i])
SoundMessages(c, ms) == \A i \in 1..Len(ms) :
    ms[i].type = "Batch" => SoundCheckpoints(c, ms[i].checkpoints)

\* Every checkpoint is sound wherever it is: buffered, sent, taken, stored.
WalkerSound(w) ==
    /\ SoundCheckpoints(walk[w].collection, walk[w].buffer)
    /\ SoundMessages(walk[w].collection, channel[w])
    /\ Live(w) => /\ walk[w].count <= Len(Chain[walk[w].collection])
                  /\ walk[w].at = NodeAt(walk[w].collection, walk[w].count)
    /\ ~Live(w) => walk[w] = Idle /\ channel[w] = << >>
DrainSound(t) ==
    /\ SoundMessages(serving[t], messages[t])
    /\ pc[t] \notin {"remove", "join", "apply", "applying"} => messages[t] = << >>
CheckpointsInv ==
    /\ \A w \in Walkers : WalkerSound(w)
    /\ \A t \in Threads : DrainSound(t)
    /\ SkipIndexSound

\* A page in the making holds the nodes from its base on, no more than asked.
ExtractSound(p) ==
    LET c == serving[p]
        e == extract[p]
        r == request[p]
        reached == e.base + Len(e.items)
    IN  /\ pc[p] # "idle" => r.offset < Size[c]
        /\ pc[p] = "extracting" =>
             /\ e.base <= r.offset
             /\ reached <= Len(Chain[c])
             /\ reached <= r.offset + r.limit
             /\ c \in LinkedLists => reached <= Size[c]
             /\ e.at = NodeAt(c, reached)
             /\ \A i \in 1..Len(e.items) : e.items[i] = Chain[c][e.base + i]
ExtractInv == \A p \in Pagers : ExtractSound(p)

IInv == TypeOK /\ HandlesInv /\ CheckpointsInv /\ ExtractInv /\ PagesMatchChain
=============================================================================
