---------------------------- MODULE MCAggregation ---------------------------
(***************************************************************************)
(* TLC instances of Aggregation: hours of two minutes, days of three       *)
(* hours, minutes 0 to 7.                                                  *)
(***************************************************************************)
EXTENDS Aggregation

CONSTANTS c1, c2

MCColumn == {c1, c2}

Pair(x, y) == (c1 :> x) @@ (c2 :> y)

MCSchema ==
  {Pair("AVERAGE_WIND_DIRECTION", "AVERAGE_WIND_VELOCITY"),
   Pair("AVERAGE_ZERO", "AVERAGE"),
   Pair("LAST", "AVERAGE_WIND_DIRECTION")}

\* Every series of rows at these minutes: two in the first hour, one in each of the hours
\* after it, the last at the end of its hour.  A row may have no number at all.
MCSeries == UNION {[T -> SUBSET MCColumn] : T \in SUBSET {0, 1, 2, 4, 7}}

\* No bound, a time at the beginning of an hour, one within an hour.
MCBound == {<<>>, <<2>>, <<7>>}

=============================================================================
