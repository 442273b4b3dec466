------------------------------- MODULE MCApp -------------------------------
(***************************************************************************)
(* Small heaps and threads for the application loop.                       *)
(***************************************************************************)
EXTENDS App

CONSTANTS t1, t2, a, b, c, d

OneThread  == <<t1>>
TwoThreads == <<t1, t2>>
SmallFrames == (t1 :> <<"f1">>) @@ (t2 :> <<"f2">>)
Searches    == {{t1}, {}}

\* f1 has one variable, an object a that refers to an object b, which refers
\* to a collection c of two nulls, a page each.  The class of a has a static
\* field, the empty object d.
RichVars    == "f1" :> <<Ref(a)>>
RichFields  == (a :> <<Ref(b)>>) @@ (b :> <<Coll(c, 2)>>) @@ (d :> <<>>)
RichStatics == (a :> <<Ref(d)>>) @@ (b :> <<>>) @@ (d :> <<>>)
RichEntries == c :> <<NoRef, NoRef>>

\* f1 has one variable, a collection c of two nulls, a page each.
LossVars    == "f1" :> <<Coll(c, 2)>>
LossFields  == <<>>
LossStatics == <<>>
LossEntries == c :> <<NoRef, NoRef>>

\* f1 has one variable, an object a that refers to itself and to a collection c
\* of two nulls, a page each.
PinVars    == ("f1" :> <<Ref(a)>>) @@ ("f2" :> <<NoRef>>)
PinFields  == a :> <<Ref(a), Coll(c, 2)>>
PinStatics == a :> <<>>
PinEntries == c :> <<NoRef, NoRef>>

\* The spinner shows the state and has no part in it.
ButSpinner == <<pc, todo, ready, fallback, focus, prevFocus, listed, highlighted,
                opened, stack, expansions, pages, nav, pins>>
============================================================================
