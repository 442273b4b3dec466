------------------------------ MODULE Favorites ------------------------------
(***************************************************************************)
(* The favorites panel (hprof-tui: app/mod.rs handle_favorites_input,      *)
(* toggle_pin, render; views/favorites_panel FavoritesPanelState).  A step *)
(* is a turn of the loop: a key, or a new width of the terminal, and the   *)
(* drawing that ends the turn.  The keys of the panel act on the rows it   *)
(* believed in when it was last drawn.                                     *)
(*                                                                         *)
(* The stack panel is the environment: it holds one of Stacks, and loads   *)
(* more as the user browses.  Which row its cursor is on is free among     *)
(* PinPaths.                                                               *)
(***************************************************************************)
EXTENDS SnapshotTree, TLC

CONSTANTS
    Stacks,    (* what the stack panel may hold, from less to more          *)
    PinPaths,  (* the rows that are pinned                                  *)
    MaxMarks   (* a bound: favorites, closed places, hidden rows, reveals   *)

VARIABLES
    held,     (* what the stack panel holds: an index of Stacks             *)
    pinned,   (* App.pinned                                                 *)
    panel,    (* FavoritesPanelState                                        *)
    focus,    (* the panel has the keyboard, or another has                 *)
    wide      (* the terminal had room for the panel when last drawn        *)

vars == <<held, pinned, panel, focus, wide>>

-----------------------------------------------------------------------------
(* FavoritesPanelState: the selected favorite, the row within it, the rows *)
(* believed in, and the row of the list that is highlighted.               *)

None == 0

NewPanel == [item |-> 1, sub |-> 0, rows |-> <<>>, highlight |-> None]

RowCount(pn, i) == IF i \in DOMAIN pn.rows THEN Len(pn.rows[i]) ELSE 1

Clamped(pn)   == [pn EXCEPT !.sub = Min({@, RowCount(pn, pn.item) - 1})]

\* set_items_len and set_selected_index: the rows of what is left stay as they
\* are, a favorite that has not been drawn has one.
Resized(pn, n) ==
    IF n = 0 THEN NewPanel
    ELSE Clamped([pn EXCEPT !.item = Min({@, n}),
                            !.rows = [i \in 1..n |-> IF i \in DOMAIN @ THEN @[i] ELSE <<Plain>>]])

MoveUp(pn) ==
    IF pn.sub > 0 THEN [pn EXCEPT !.sub = @ - 1]
    ELSE IF pn.item > 1
    THEN [pn EXCEPT !.item = @ - 1, !.sub = RowCount(pn, pn.item - 1) - 1]
    ELSE pn

MoveDown(pn) ==
    IF pn.sub + 1 < RowCount(pn, pn.item) THEN [pn EXCEPT !.sub = @ + 1]
    ELSE IF pn.item < Len(pn.rows) THEN [pn EXCEPT !.item = @ + 1, !.sub = 0]
    ELSE pn

PrevPin(pn) == IF pn.item > 1 THEN [pn EXCEPT !.item = @ - 1, !.sub = 0] ELSE pn
NextPin(pn) == IF pn.item < Len(pn.rows) THEN [pn EXCEPT !.item = @ + 1, !.sub = 0] ELSE pn

\* The row believed to be under the cursor.
Current(pn) == IF pn.sub + 1 \in DOMAIN pn.rows[pn.item] THEN pn.rows[pn.item][pn.sub + 1] ELSE Plain

\* The row of the list the cursor is on.
AbsRow(pn) ==
    FoldLeft(LAMBDA sum, rows : sum + Len(rows), 0, SubSeq(pn.rows, 1, pn.item - 1)) + pn.sub

\* Mutant: the rows of a favorite are collected once.
CollectedOnce(pn, pins) ==
    [i \in DOMAIN pins |-> IF RowCount(pn, i) > 1 THEN pn.rows[i] ELSE CollectPin(pins[i])]

\* The rows of every favorite are collected each time the panel is drawn.
CollectedRows(pn, pins) == [i \in DOMAIN pins |-> CollectPin(pins[i])]

\* FavoritesPanel::render
Render(pn, pins) ==
    LET sized == Resized(pn, Len(pins))
        fresh == Clamped([sized EXCEPT !.rows = CollectedRows(pn, pins)])
    IN  [fresh EXCEPT !.highlight = AbsRow(fresh) + 1]

-----------------------------------------------------------------------------
(* The end of a turn: the panel is drawn when there is room for it and     *)
(* something in it, and gives the focus back otherwise.                    *)

Turn(pins, pn, f, w) ==
    /\ pinned' = pins /\ wide' = w
    /\ IF pins # <<>> /\ w
       THEN panel' = Render(pn, pins) /\ focus' = f
       ELSE panel' = pn /\ focus' = "elsewhere"

Init ==
    /\ held = 1 /\ pinned = <<>> /\ panel = NewPanel
    /\ focus = "elsewhere" /\ wide \in BOOLEAN

Focused == focus = "favorites"
Item    == pinned[panel.item]

Marks(pins) ==
    FoldLeft(LAMBDA sum, pin : sum + 1 + Cardinality(pin.collapsed) + Cardinality(pin.hidden)
                                 + (IF pin.reveal THEN 1 ELSE 0), 0, pins)

\* What a key does to the selected favorite, within the bound.
Changed(pin) ==
    LET pins == [pinned EXCEPT ![panel.item] = pin]
    IN  /\ Marks(pins) <= MaxMarks
        /\ Turn(pins, Clamped(panel), focus, wide)
        /\ UNCHANGED held

\* The stack panel loads more.
Browse ==
    /\ ~Focused /\ held < Len(Stacks) /\ held' = held + 1
    /\ UNCHANGED <<pinned, panel, focus, wide>>

Resize ==
    /\ Turn(pinned, panel, focus, ~wide)
    /\ UNCHANGED held

\* The orders in which a HashMap may give the sections.
SectionOrders == SetToAllKPermutations(UNION {ChunkOffsets(Len(Entries[c])) : c \in DOMAIN Entries})

FullOrders == {o \in SectionOrders : \A p \in SectionOrders : Len(p) <= Len(o)}

\* f in the stack panel: pin the row under the cursor, or unpin it.
PinFromStack(p, order) ==
    LET pin == NewPin(Stacks[held], order, p)
    IN  /\ Pinnable(Stacks[held], p) /\ Marks(pinned) < MaxMarks
        /\ \A i \in DOMAIN pinned : pinned[i].path # p
        /\ Turn(Append(pinned, pin), Resized(panel, Len(pinned) + 1), focus, wide)

UnpinFromStack(i) ==
    /\ Pinnable(Stacks[held], pinned[i].path)
    /\ Turn(RemoveAt(pinned, i), Resized(panel, Len(pinned) - 1), focus, wide)

FocusFavorites ==
    /\ pinned # <<>> /\ wide
    /\ Turn(pinned, panel, "favorites", wide)

Stack ==
    /\ ~Focused
    /\ \/ \E p \in PinPaths, order \in FullOrders : PinFromStack(p, order)
       \/ \E i \in DOMAIN pinned : UnpinFromStack(i)
       \/ FocusFavorites
    /\ UNCHANGED held

Move ==
    /\ \E pn \in {MoveUp(panel), MoveDown(panel), PrevPin(panel), NextPin(panel)} :
          Turn(pinned, pn, focus, wide)
    /\ UNCHANGED held

\* Right and Enter.
Open ==
    /\ Current(panel).path # NoPath
    /\ Changed([Item EXCEPT !.collapsed = @ \ {Current(panel).path}])

Close ==
    /\ Current(panel).path # NoPath
    /\ Changed([Item EXCEPT !.collapsed = @ \union {Current(panel).path}])

BatchExpand == Changed([Item EXCEPT !.collapsed = {}])

HideField ==
    LET row == Current(panel)
    IN  /\ row.key # NoKey
        /\ Changed([Item EXCEPT !.hidden = IF row.hidden THEN @ \ {row.key} ELSE @ \union {row.key}])

RevealHidden == Changed([Item EXCEPT !.reveal = ~@])

Unpin ==
    /\ Turn(RemoveAt(pinned, panel.item), Resized(panel, Len(pinned) - 1), focus, wide)
    /\ UNCHANGED held

\* g, F, Escape and Tab leave the panel.
Leave ==
    /\ Turn(pinned, panel, "elsewhere", wide)
    /\ UNCHANGED held

Keys ==
    /\ Focused
    /\ Move \/ Open \/ Close \/ BatchExpand \/ HideField \/ RevealHidden \/ Unpin \/ Leave

Next == Browse \/ Resize \/ Stack \/ Keys

Spec == Init /\ [][Next]_vars

-----------------------------------------------------------------------------
(* Properties                                                              *)

Shown == pinned # <<>> /\ wide

\* A row believed in and the row drawn there are the same.
Agree(believed, drawn) ==
    /\ believed.path # NoPath <=> drawn.sign \in {"+", "-"}
    /\ believed.path # NoPath => /\ drawn.place = believed.path
                                 /\ drawn.id = believed.id
                                 /\ drawn.sign = IF believed.closed THEN "+" ELSE "-"
    /\ believed.key # NoKey => drawn.key = believed.key
    /\ believed.hidden <=> drawn.sign = "hidden"

RowsMatch(believed, drawn) ==
    /\ Len(believed) = Len(drawn)
    /\ \A r \in DOMAIN drawn : Agree(believed[r], drawn[r])

\* The rows the keys act on are the rows on the screen: as many of each
\* favorite, and each with the place, the sign and the field that is drawn
\* there (favorites_panel/mod.rs asserts the number), and the row highlighted is
\* the one the cursor is on.
RowsAgree ==
    Shown => /\ \A i \in DOMAIN pinned : RowsMatch(panel.rows[i], DrawPin(pinned[i]))
             /\ panel.sub < RowCount(panel, panel.item)
             /\ panel.highlight = AbsRow(panel) + 1

\* The rows of a drawing that stay when the place p is closed.
Folded(rows, p) ==
    LET Outside(row) == ~IsStrictPrefix(p, row.place)
        Closed(row)  == IF row.place = p THEN [row EXCEPT !.sign = "+"] ELSE row
        kept         == SelectSeq(rows, Outside)
    IN  [r \in DOMAIN kept |-> Closed(kept[r])]

\* Closing a row closes that row and nothing else: it is the one that was under
\* the cursor, the rows below it in the tree go, every other row stays as it is,
\* other places of the same object among them, and the cursor stays on it.
ClosesTheRow ==
    [][\A i \in DOMAIN pinned \intersect DOMAIN pinned' :
          LET p == CHOOSE q \in pinned'[i].collapsed : q \notin pinned[i].collapsed
          IN  /\ pinned'[i].path = pinned[i].path
              /\ pinned[i].collapsed # pinned'[i].collapsed
              /\ pinned[i].collapsed \subseteq pinned'[i].collapsed
              => /\ DrawPin(pinned'[i]) = Folded(DrawPin(pinned[i]), p)
                 /\ i = panel.item /\ panel'.item = i /\ panel'.sub = panel.sub
                 /\ DrawPin(pinned'[i])[panel.sub + 1].place = p]_vars

\* What is hidden in a favorite is a row of that favorite, which comes back when
\* everything is opened and shown: h never acts on the rows of a favorite that
\* is gone, or that another has taken the place of.
HiddenBelongs ==
    \A i \in DOMAIN pinned :
        LET bare == DrawPin([pinned[i] EXCEPT !.hidden = {}, !.collapsed = {}])
        IN  /\ \A key \in pinned[i].hidden : \E r \in DOMAIN bare : bare[r].key = key
            /\ \A p \in pinned[i].collapsed : \E r \in DOMAIN bare : bare[r].place = p

\* What the capture must hold: everything that leads from the pinned value
\* through what the stack panel holds.
Leads(s, ids) ==
    LET next(set) == set \union UNION {
            {Entries[o][k + 1].id : k \in {n \in 0..(Len(Entries[o]) - 1) : FindEntry(s, o, n)}}
               : o \in set \intersect DOMAIN s.chunks}
          \union UNION {{Fields[o][n].id : n \in DOMAIN Fields[o]} : o \in set \intersect s.fields}
        step[n \in 0..Cardinality(DOMAIN Fields \union DOMAIN Entries)] ==
            IF n = 0 THEN ids ELSE next(step[n - 1])
    IN  step[Cardinality(DOMAIN Fields \union DOMAIN Entries)]

HoldsAll(snap, s, roots) ==
    /\ snap.fields = s.fields \intersect Leads(s, roots)
    /\ DOMAIN snap.chunks = DOMAIN s.chunks \intersect Leads(s, roots)

\* A new favorite holds everything that can be reached from the pinned row in
\* what the stack panel holds, unless it says that it is partial; it never holds
\* more objects than the limit.
SnapshotIsWhole ==
    [][Len(pinned') > Len(pinned) =>
          LET pin   == Last(pinned')
              snap  == pin.snapshot
              s     == Stacks[held]
              roots == IF snap.kind = "Frame" THEN {v.id : v \in ToSet(snap.vars)} ELSE {snap.root}
          IN  /\ snap.truncated \/ HoldsAll(snap, s, roots)
              /\ Cardinality(snap.fields \union DOMAIN snap.chunks) <= SnapshotLimit]_vars
=============================================================================
