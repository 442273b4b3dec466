----------------------------- MODULE MCFavorites -----------------------------
(***************************************************************************)
(* Heaps for the favorites panel.                                          *)
(***************************************************************************)
EXTENDS Favorites

CONSTANTS a, b, g, h, c, d, e, n, k

\* A frame with an object a, a collection c, the object b that a refers to too,
\* and a null.  a leads to b, to itself and to a chain b, g, h longer than
\* MaxDepth; c has a page of an object d, which refers to itself, and a null,
\* and a section of one collection e.
PanelVars    == "f" :> <<Ref(a), Coll(c, 3), Ref(b), NoRef>>
PanelFields  == (a :> <<Ref(b), Ref(a)>>) @@ (b :> <<Ref(g), NoRef>>) @@ (g :> <<Ref(h)>>)
                @@ (h :> <<>>) @@ (d :> <<Ref(d), NoRef>>)
PanelEntries == (c :> <<Ref(d), NoRef, Coll(e, 1)>>) @@ (e :> <<NoRef>>)

Chunk(eager, pages) == [eager |-> eager, pages |-> pages]
Held(fields, chunks) ==
    [frames |-> <<"f">>, vars |-> {"f"}, fields |-> fields, statics |-> {}, chunks |-> chunks]

PanelStacks ==
    <<Held({a, b, g}, c :> Chunk(TRUE, 2 :> "Loading")),
      Held({a, b, g, h, d}, (c :> Chunk(TRUE, 2 :> "Loaded")) @@ (e :> Chunk(TRUE, <<>>)))>>

PanelPaths ==
    {<<FrameSeg("f")>>, <<FrameSeg("f"), VarSeg(2)>>, <<FrameSeg("f"), VarSeg(2), EntrySeg(c, 0)>>}

\* A tree: the node n has a list c of children, the child k refers to its parent.
TreeVars    == "f" :> <<Ref(n)>>
TreeFields  == (n :> <<Coll(c, 1)>>) @@ (k :> <<Ref(n)>>)
TreeEntries == c :> <<Ref(k)>>
TreeStacks  == <<Held({n, k}, c :> Chunk(TRUE, <<>>))>>
TreePaths   == {<<FrameSeg("f"), VarSeg(1)>>}

NoStatics == <<>>
=============================================================================
