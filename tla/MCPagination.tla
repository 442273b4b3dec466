---------------------------- MODULE MCPagination ----------------------------
(***************************************************************************)
(* A dump with tidy collections of every type, and with damaged ones: a    *)
(* chain that runs in a circle, one that breaks off, slots that share a    *)
(* node, and declared sizes too large and too small.                       *)
(***************************************************************************)
EXTENDS Pagination, TLC

Ref(name, id) == [name |-> name, type |-> "ref", value |-> id]
Whole(name, n)  == [name |-> name, type |-> "int", value |-> n]
Object(class, fields) == [kind |-> "instance", class |-> class, fields |-> fields]
Node(key, value, next) ==
    Object("Node", <<Ref("key", key), Ref("value", value), Ref("next", next)>>)
Item(item, next) == Object("Node", <<Ref("item", item), Ref("next", next)>>)
Array(elements) == [kind |-> "objArray", elements |-> elements]

MCHeap ==
    \* A map of five in three slots, paged also through the set it backs.
       (1 :> Object("HashMap", <<Ref("table", 2), Whole("size", 5)>>))
    @@ (2 :> Array(<<0, 3, 5, 7>>))
    @@ (3 :> Node(90, 91, 4)) @@ (4 :> Node(0, 92, 0))
    @@ (5 :> Node(91, 90, 6)) @@ (6 :> Node(92, 93, 0)) @@ (7 :> Node(93, 93, 0))
    @@ (8 :> Object("HashSet", <<Ref("map", 1)>>))
    \* Slots that share a node, and a chain that runs in a circle.
    @@ (10 :> Object("LinkedHashMap", <<Whole("size", 6), Ref("table", 11)>>))
    @@ (11 :> Array(<<12, 14, 16>>))
    @@ (12 :> Node(90, 0, 13)) @@ (13 :> Node(91, 0, 0))
    @@ (14 :> Node(92, 0, 13)) @@ (16 :> Node(93, 0, 17)) @@ (17 :> Node(90, 0, 16))
    \* A chain that breaks off at an object that is not in the dump.
    @@ (20 :> Object("ConcurrentHashMap", <<Ref("table", 21), Whole("count", 4)>>))
    @@ (21 :> Array(<<22, 0, 24>>))
    @@ (22 :> Object("Node", <<Ref("key", 90), Ref("val", 91), Ref("next", 999)>>))
    @@ (24 :> Object("Node", <<Ref("key", 92), Ref("val", 93), Ref("next", 0)>>))
    \* Lists: tidy, with too small a size, in a circle, and broken off.
    @@ (30 :> Object("LinkedList", <<Whole("size", 5), Ref("first", 31)>>))
    @@ (31 :> Item(90, 32)) @@ (32 :> Item(91, 33)) @@ (33 :> Item(0, 34))
    @@ (34 :> Item(92, 35)) @@ (35 :> Item(93, 0))
    @@ (36 :> Object("LinkedList", <<Whole("size", 2), Ref("first", 31)>>))
    @@ (37 :> Object("LinkedList", <<Whole("size", 7), Ref("first", 38)>>))
    @@ (38 :> Item(90, 39)) @@ (39 :> Item(91, 40)) @@ (40 :> Item(92, 39))
    @@ (41 :> Object("LinkedList", <<Whole("size", 4), Ref("first", 42)>>))
    @@ (42 :> Item(90, 43)) @@ (43 :> Item(91, 998))
    \* Arrays and array lists, one of a size beyond its array, one below zero.
    @@ (50 :> Object("ArrayList", <<Whole("size", 3), Ref("elementData", 51)>>))
    @@ (51 :> Array(<<90, 0, 52, 1, 997>>))
    @@ (52 :> [kind |-> "primArray", size |-> 2, bytes |-> <<1, 2, 3, 4, 5>>])
    @@ (53 :> Object("Vector", <<Whole("elementCount", 9), Ref("elementData", 51)>>))
    @@ (54 :> Object("ArrayList", <<Whole("size", -1), Ref("elementData", 51)>>))
    @@ (55 :> [kind |-> "primArray", size |-> 0, bytes |-> <<1, 2>>])
    \* What has no pages: no table, no size, no list, an unsupported type.
    @@ (60 :> Object("HashMap", <<Whole("size", 0), Ref("table", 0)>>))
    @@ (61 :> Object("LinkedList", <<Ref("first", 31)>>))
    @@ (62 :> Object("HashSet", <<Ref("map", 0)>>))
    @@ (63 :> Object("TreeMap", <<Whole("size", 2)>>))
    @@ (64 :> Object("ArrayList", <<Whole("size", 2), Ref("elementData", 0)>>))
    \* What they hold.
    @@ (90 :> Object("Point", <<Whole("x", 1)>>)) @@ (91 :> Object("Point", <<Whole("x", 2)>>))
    @@ (92 :> Object("ArrayList", <<Whole("size", 1), Ref("elementData", 0)>>))
    @@ (93 :> Object("Point", <<>>))

MCSubjects == {{1, 8}} \cup {{c} : c \in {10, 20, 30, 36, 37, 41} \cup 50..55 \cup 60..64}
MCRanges == {[offset |-> 0, limit |-> 2], [offset |-> 1, limit |-> 2],
             [offset |-> 3, limit |-> 1], [offset |-> 3, limit |-> 2],
             [offset |-> 5, limit |-> 1]}
=============================================================================
