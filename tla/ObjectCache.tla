---------------------------- MODULE ObjectCache ----------------------------
(***************************************************************************)
(* The LRU cache of expanded objects and the memory counter it is bounded  *)
(* by (hprof-engine: expand_object in engine_impl/mod.rs, cache/lru.rs,    *)
(* cache/budget.rs), as the expansion threads of the TUI use them: one     *)
(* thread per expanded path, so several may expand the same object.  Each  *)
(* cache call holds the cache's mutex, each counter call is one atomic     *)
(* operation, and any thread may run between two of them.  The build is a  *)
(* release build: the debug_assert of ObjectCache::insert is a property.   *)
(***************************************************************************)
EXTENDS Integers, Sequences, SequencesExt, FiniteSetsExt

CONSTANTS
    Objects,      (* ids of the objects that are expanded                  *)
    Unreadable,   (* those decode_object_fields returns None for           *)
    SizeOf,       (* compute_fields_size of an object's decoded fields     *)
    Base,         (* initial_memory: what the counter starts from          *)
    Budget,       (* the memory budget, 0 for none                         *)
    Word,         (* the counter is an usize: it counts modulo Word        *)
    Workers,      (* expansion threads                                     *)
    MaxReinserted,(* bound: insertions that replace an entry               *)
    NoObject

ASSUME CacheAssumption ==
    /\ SizeOf \in [Objects -> Nat \ {0}]
    /\ Base \in Nat
    /\ Budget \in Nat
    /\ Word \in Nat \ {0}
    /\ Base < Word
    /\ MaxReinserted \in Nat
    /\ NoObject \notin Objects

VARIABLES
    cache,     (* the cached ids, least recently used first                *)
    counter,   (* the bytes accounted for                                  *)
    pc,        (* the next shared operation of each worker                 *)
    object,    (* the object it expands                                    *)
    freed,     (* the size of the entry it evicted last                    *)
    current,   (* what it read from the counter since                      *)
    reinserted (* insertions so far that replaced an entry                 *)

vars == <<cache, counter, pc, object, freed, current, reinserted>>

Cached == {cache[i] : i \in 1..Len(cache)}

\* get and put take the entry out of its place, if it has one, and make it the
\* most recently used.
Position(o) == CHOOSE i \in 1..Len(cache) : cache[i] = o
Without(o) == IF o \in Cached THEN RemoveAt(cache, Position(o)) ELSE cache
\* Mutant: the entry is also left in its old place.
PromotedTwice(o) == Append(cache, o)

Promoted(o) == Append(Without(o), o)

\* usage_ratio() >= EVICTION_TRIGGER and usage_ratio() < EVICTION_TARGET.
AtTrigger(bytes) == Budget > 0 /\ 100 * bytes >= 80 * Budget
UnderTarget(bytes) == Budget = 0 \/ 100 * bytes < 60 * Budget

Goto(w, label) == pc' = [pc EXCEPT ![w] = label]

\* The thread has no more use for the id.
Forget(w) == object' = [object EXCEPT ![w] = NoObject]

\* A hit returns the fields at once.
Lookup(w, o) ==
    /\ pc[w] = "idle"
    /\ \/ /\ o \in Cached
          /\ cache' = Promoted(o) /\ UNCHANGED <<pc, object>>
       \/ /\ o \notin Cached
          /\ reinserted < MaxReinserted
          /\ Goto(w, "recheck")
          /\ object' = [object EXCEPT ![w] = o]
          /\ UNCHANGED cache
    /\ UNCHANGED <<counter, freed, current, reinserted>>

\* Decoded from the file without a lock, then looked up once more.
Recheck(w) ==
    LET o == object[w]
    IN  /\ pc[w] = "recheck"
        /\ \/ /\ o \in Unreadable
              /\ Goto(w, "idle") /\ Forget(w) /\ UNCHANGED cache
           \/ /\ o \notin Unreadable /\ o \in Cached
              /\ Goto(w, "idle") /\ Forget(w) /\ cache' = Promoted(o)
           \/ /\ o \notin Unreadable /\ o \notin Cached
              /\ Goto(w, "insert") /\ UNCHANGED <<cache, object>>
        /\ UNCHANGED <<counter, freed, current, reinserted>>

\* put replaces the entry another thread has inserted meanwhile.
Insert(w) ==
    /\ pc[w] = "insert"
    /\ cache' = Promoted(object[w])
    /\ reinserted' = IF object[w] \in Cached THEN reinserted + 1 ELSE reinserted
    /\ Goto(w, "add")
    /\ UNCHANGED <<counter, object, freed, current>>

Add(w) ==
    /\ pc[w] = "add"
    /\ counter' = (counter + SizeOf[object[w]]) % Word
    /\ Goto(w, "trigger")
    /\ Forget(w)
    /\ UNCHANGED <<cache, freed, current, reinserted>>

CheckTrigger(w) ==
    /\ pc[w] = "trigger"
    /\ Goto(w, IF AtTrigger(counter) THEN "evict" ELSE "idle")
    /\ UNCHANGED <<cache, counter, object, freed, current, reinserted>>

\* Mutant: an empty cache does not end the loop.
EvictForever(w) ==
    /\ pc[w] = "evict"
    /\ IF cache = << >>
       THEN Goto(w, "trigger") /\ UNCHANGED <<cache, freed>>
       ELSE /\ cache' = Tail(cache)
            /\ freed' = [freed EXCEPT ![w] = SizeOf[Head(cache)]]
            /\ Goto(w, "read")
    /\ UNCHANGED <<counter, object, current, reinserted>>

Evict(w) ==
    /\ pc[w] = "evict"
    /\ IF cache = << >>
       THEN Goto(w, "idle") /\ UNCHANGED <<cache, freed>>
       ELSE /\ cache' = Tail(cache)
            /\ freed' = [freed EXCEPT ![w] = SizeOf[Head(cache)]]
            /\ Goto(w, "read")
    /\ UNCHANGED <<counter, object, current, reinserted>>

ReadCurrent(w) ==
    /\ pc[w] = "read"
    /\ current' = [current EXCEPT ![w] = counter]
    /\ Goto(w, "subtract")
    /\ UNCHANGED <<cache, counter, object, freed, reinserted>>

\* Mutant: the larger of the two is subtracted.
SubtractLarger(w) ==
    LET bytes == IF freed[w] <= current[w] THEN current[w] ELSE freed[w]
    IN  /\ pc[w] = "subtract"
        /\ counter' = (counter - bytes) % Word
        /\ freed' = [freed EXCEPT ![w] = 0]
        /\ current' = [current EXCEPT ![w] = 0]
        /\ Goto(w, "target")
        /\ UNCHANGED <<cache, object, reinserted>>

Subtract(w) ==
    LET bytes == IF freed[w] <= current[w] THEN freed[w] ELSE current[w]
    IN  /\ pc[w] = "subtract"
        /\ counter' = (counter - bytes) % Word
        /\ freed' = [freed EXCEPT ![w] = 0]
        /\ current' = [current EXCEPT ![w] = 0]
        /\ Goto(w, "target")
        /\ UNCHANGED <<cache, object, reinserted>>

\* Mutant: one eviction is taken to be enough.
CheckTargetOnce(w) ==
    /\ pc[w] = "target"
    /\ Goto(w, "idle")
    /\ UNCHANGED <<cache, counter, object, freed, current, reinserted>>

CheckTarget(w) ==
    /\ pc[w] = "target"
    /\ Goto(w, IF UnderTarget(counter) THEN "idle" ELSE "trigger")
    /\ UNCHANGED <<cache, counter, object, freed, current, reinserted>>

Init ==
    /\ cache = << >>
    /\ counter = Base
    /\ pc = [w \in Workers |-> "idle"]
    /\ object = [w \in Workers |-> NoObject]
    /\ freed = [w \in Workers |-> 0]
    /\ current = [w \in Workers |-> 0]
    /\ reinserted = 0

Expanding(w) == \/ Recheck(w) \/ Insert(w) \/ Add(w) \/ CheckTrigger(w)
                \/ Evict(w) \/ ReadCurrent(w) \/ Subtract(w) \/ CheckTarget(w)

Next == \E w \in Workers : Expanding(w) \/ \E o \in Objects : Lookup(w, o)

Spec == Init /\ [][Next]_vars

\* The expansion threads are scheduled.
FairSpec == Spec /\ \A w \in Workers : WF_vars(Expanding(w))

-----------------------------------------------------------------------------
(* Properties.                                                             *)

Labels == {"idle", "recheck", "insert", "add", "trigger", "evict", "read",
           "subtract", "target"}

\* Every variable stays in its domain, and no id is cached twice.
TypeOK ==
    /\ cache \in Seq(Objects)
    /\ \A i, j \in 1..Len(cache) : cache[i] = cache[j] => i = j
    /\ counter \in 0..(Word - 1)
    /\ pc \in [Workers -> Labels]
    /\ object \in [Workers -> Objects \union {NoObject}]
    /\ \A w \in Workers : pc[w] \in {"recheck", "insert", "add"} => object[w] \in Objects
    /\ freed \in [Workers -> Nat]
    /\ current \in [Workers -> 0..(Word - 1)]
    /\ reinserted \in Nat

AtRest == \A w \in Workers : pc[w] = "idle"

TotalBytes == MapThenSumSet(LAMBDA o : SizeOf[o], Cached)

\* Whatever the threads' order, once all expansions are over the counter is
\* under the eviction trigger or nothing is left to evict: the last thread to
\* look acts for all (engine_impl/mod.rs:984-997).
BudgetAtRest == AtRest => ~AtTrigger(counter) \/ cache = << >>

\* The static index is no smaller than what the threads can have in flight.
Outweighed ==
    \E m \in 0..Base : /\ \A o \in Objects \ Unreadable : SizeOf[o] <= m
                       /\ m * Cardinality(Workers) <= Base

\* The counter never counts less than the cache holds once expansions are over,
\* so the budget bounds the cached bytes: every race, a re-insertion or a clamped
\* subtraction, errs on the side of counting too much, and an underflow while
\* expansions run is made up for when they are over.  And it does not underflow
\* at all (docs/implementation-artifacts/
\* 5-4-transparent-re-parse-and-multi-cycle-stability.md:32-34) where the static
\* index outweighs the objects in flight, although min(freed, current) reads and
\* subtracts in two operations and an entry may be evicted before it is added.
CounterCoversCache ==
    /\ AtRest => counter >= Base + TotalBytes
    /\ Outweighed => counter < Word \div 2

\* Only others can keep an expansion in its eviction loop, and only by adding
\* to the cache for ever: each round of the loop takes an entry out, so that an
\* expansion that does not return is one that some other thread's additions
\* refill the cache for, again and again (engine_impl/mod.rs:984-997).
ExpansionReturns ==
    \A w \in Workers : \/ []<>(pc[w] = "idle")
                       \/ \E v \in Workers \ {w} : []<><<Add(v)>>_vars

-----------------------------------------------------------------------------
(* The inductive invariant behind BudgetAtRest.                            *)

\* A thread that has inserted and not yet finished its eviction loop.
Reviewing(w) == pc[w] \in {"add", "trigger", "evict", "read", "subtract", "target"}

\* Over the trigger with something to evict, somebody is still at it.
BudgetInv ==
    \/ \E w \in Workers : Reviewing(w)
    \/ ~AtTrigger(counter)
    \/ cache = << >>
=============================================================================
