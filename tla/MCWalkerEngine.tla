--------------------------- MODULE MCWalkerEngine ---------------------------
(* Small instances of WalkerEngine.                                        *)
EXTENDS WalkerEngine, TLC

CONSTANTS map1, list1, list2, n1, n2, n3, n4, n5

\* A map of five entries whose dump has lost a sixth; a list whose size field
\* counts all its nodes; a list whose size counts less than its chain, the
\* chain ending on an unreadable node.
ChainOf == [c \in Collections |->
              CASE c = map1  -> <<n1, n2, n3, n4, n5>>
                [] c = list1 -> <<n1, n2, n3>>
                [] c = list2 -> <<n4, n1, n5, n2>>]
SizeOf  == [c \in Collections |-> CASE c = map1 -> 6 [] OTHER -> 3]

SmallChainOf == [c \in Collections |-> <<n1, n2, n3>>]

FirstPage == [offset |-> 0, limit |-> 2]
DeepPage  == [offset |-> 3, limit |-> 2]
LastPage  == [offset |-> 2, limit |-> 1]

MapRequests  == {FirstPage, DeepPage}
LivePages    == {LastPage}

\* No drain gets in another's way: the hypotheses of CompleteIsCovered and
\* UnexpectedMeansPanic.  Of two drains about to remove the same handle, one
\* would find it gone.
Undisturbed ==
    /\ TakenApart
    /\ HandleKept
    /\ \A t, u \in Threads : t # u /\ pc[t] = "remove" /\ pc[u] = "remove" =>
          serving[t] # serving[u]

\* The identities of walker threads are interchangeable.
WalkerIds == Permutations(Walkers)
=============================================================================
