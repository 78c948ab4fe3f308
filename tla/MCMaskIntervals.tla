-------------------------- MODULE MCMaskIntervals ---------------------------
(***************************************************************************)
(* TLC instances of MaskIntervals.                                         *)
(***************************************************************************)
EXTENDS MaskIntervals

Ints(min, max) == {i \in [start : min..max, end : min..max] : i.start <= i.end}

\* Closed intervals, and intervals with an open end.
MCInputs == Ints(2, 7) \cup {[start |-> s, end |-> IntMax] : s \in 2..7}

\* Intervals with an open start, and intervals with an open end.
MCOpenInputs == {[start |-> IntMin, end |-> e] : e \in 2..5}
                  \cup {[start |-> s, end |-> IntMax] : s \in 2..5}
=============================================================================
