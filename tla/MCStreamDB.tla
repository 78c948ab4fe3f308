----------------------------- MODULE MCStreamDB -----------------------------
(***************************************************************************)
(* TLC instances of StreamDB.  Years are intervals of different length;    *)
(* the first one begins before timestamp 0, as the year of the epoch does. *)
(***************************************************************************)
EXTENDS StreamDB, TLC

\* Timestamps 0 to 3: a year that began before 0, one of two timestamps and its beginning,
\* one of a single timestamp.
MCYearStarts == {-1, 1, 3, 4}

MCLowerYear == [t \in Time |-> Max({y \in MCYearStarts : y <= t})]
MCNextYear == [t \in Time |-> Min({y \in MCYearStarts : t < y})]

\* All timestamps in one year.
MCOneYear == [t \in Time |-> -1]
MCOneYearNext == [t \in Time |-> MaxTime + 1]

\* Values are only stored and compared.
Interchangeable == Permutations(Value)

=============================================================================
