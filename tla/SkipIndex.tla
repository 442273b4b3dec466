----------------------------- MODULE SkipIndex -----------------------------
(***************************************************************************)
(* The skip-index of a variable-size collection (pagination/skip_index.rs):*)
(* resume states taken every SkipInterval entries of a chain walk, so that *)
(* a deep page is served from the nearest one instead of from the head.    *)
(* checkpoints[i] is the resume state of entry (i - 1) * SkipInterval.     *)
(***************************************************************************)
EXTENDS Integers, Sequences

CONSTANTS SkipInterval,   (* SKIP_INTERVAL, positive: entries per checkpoint *)
          Nodes           (* the object ids a checkpoint may name           *)

Indexes == [checkpoints : Seq(Nodes), complete : BOOLEAN]

NewIndex == [checkpoints |-> << >>, complete |-> FALSE]

\* Mutants of Record: the boundary test dropped; a walk from the head starting
\* the index afresh.
RecordUnchecked(si, entry, node) ==
    [si EXCEPT !.checkpoints = Append(@, node)]
RecordRestarting(si, entry, node) ==
    IF entry = 0 THEN [si EXCEPT !.checkpoints = <<node>>]
    ELSE IF entry = Len(si.checkpoints) * SkipInterval
    THEN [si EXCEPT !.checkpoints = Append(@, node)]
    ELSE si

\* Only the next expected boundary is stored: a repeat or a gap is ignored.
Record(si, entry, node) ==
    IF entry = Len(si.checkpoints) * SkipInterval
    THEN [si EXCEPT !.checkpoints = Append(@, node)]
    ELSE si

\* 0-based position of the highest checkpoint at or before an entry.
NearestPosition(si, entry) ==
    LET wanted == entry \div SkipInterval
        last   == Len(si.checkpoints) - 1
    IN  IF wanted <= last THEN wanted ELSE last

\* The checkpoint a walk to `entry` resumes from; only for a non-empty index.
NearestBefore(si, entry) ==
    LET i == NearestPosition(si, entry)
    IN  [index |-> i * SkipInterval, node |-> si.checkpoints[i + 1]]

MarkComplete(si) == [si EXCEPT !.complete = TRUE]
=============================================================================
