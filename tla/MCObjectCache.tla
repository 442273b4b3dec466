--------------------------- MODULE MCObjectCache ---------------------------
(* Small instances of ObjectCache.                                         *)
EXTENDS ObjectCache

CONSTANTS o2, o3, p3, o8

\* The bytes of each object.
Sizes == [o \in Objects |-> CASE o = o2 -> 2 [] o = o8 -> 8 [] OTHER -> 3]
=============================================================================
