----------------------------- MODULE PageServer -----------------------------
(***************************************************************************)
(* What get_page promises: a page depends on the collection and the range  *)
(* asked for, and on nothing asked before.  The entries of a page are the  *)
(* range of the collection's contents, numbered from the start; the total  *)
(* is the collection's own; and more is announced while the total has not  *)
(* been reached.  Pagination implements it, with skip-indexes and caches.  *)
(***************************************************************************)
EXTENDS Integers, Sequences

CONSTANTS
    Ranges,       (* the [offset, limit] asked for                          *)
    Contents(_),  (* the entries of a collection, in order                  *)
    Total(_),     (* the number of entries it declares                      *)
    Sound(_)      (* whether it is one that has contents and a total        *)

VARIABLE served   (* the last page and what it was asked for                *)

Nothing == [collection |-> 0, range |-> [offset |-> 0, limit |-> 0], page |-> [entries |-> <<>>, total |-> 0, more |-> FALSE]]

Lower(x, y) == IF x < y THEN x ELSE y

\* Part of a collection: the entries of a range, and whether more follow, which
\* a range that begins beyond the declared total is not told.
IsPart(page, all, total, r) ==
    LET before == Lower(r.offset, Len(all))
        upTo   == Lower(r.offset + r.limit, Len(all))
    IN  /\ page.entries = [i \in 1..(upTo - before) |->
                             [index |-> r.offset + i - 1, entry |-> all[r.offset + i]]]
        /\ page.total = total
        /\ r.offset < total => page.more = (upTo < total)

Serve(c, r) ==
    /\ served'.collection = c /\ served'.range = r
    /\ Sound(c) => IsPart(served'.page, Contents(c), Total(c), r)

Init == served = Nothing
Next == \E r \in Ranges : Serve(served'.collection, r)
Spec == Init /\ [][Next]_served
=============================================================================
