--------------------------- MODULE MaskIntervals ----------------------------
(***************************************************************************)
(* One TimeSeriesMask: the list of intervals in which a sensor is marked   *)
(* as broken, the loop of addInterval one turn at a time, and a            *)
(* MaskIterator that hides the masked entries of a query meanwhile.        *)
(*                                                                         *)
(* Interval borders are Java ints: IntMin and IntMax stand for             *)
(* Integer.MIN_VALUE and Integer.MAX_VALUE, which also mean an open start  *)
(* and an open end.                                                        *)
(***************************************************************************)
EXTENDS Integers, Sequences, FiniteSets

CONSTANTS
  IntMin, IntMax,
  Inputs,          \* the intervals that may be added
  Timestamps       \* the timestamps of the entries a query reads

Int32 == IntMin..IntMax
Interval == {i \in [start : Int32, end : Int32] : i.start <= i.end}

ASSUME IntAssumption == IntMin \in Int /\ IntMax \in Int /\ IntMin <= IntMax
ASSUME InputsAssumption == Inputs \subseteq Interval
ASSUME TimestampsAssumption == Timestamps \subseteq Int32

VARIABLES
  intervals,   \* TimeSeriesMask.intervals
  adding,      \* addInterval is running
  interval,    \* its argument, as merged so far
  pending,     \* interval is not null
  pos,         \* current is intervals[pos], null behind the end
  result,      \* the new list
  query,       \* the MaskIterator
  added,       \* history: the argument of addInterval as it was given
  masked       \* history: the minutes of all intervals added

locals == <<adding, interval, pending, pos, result, added>>
intervalsVars == <<intervals, locals, query, masked>>

-----------------------------------------------------------------------------
(* Interval                                                                *)

Minutes(i) == i.start..i.end

\* The minutes of a list of intervals.
Cover(s) == {t \in Int32 : \E k \in 1..Len(s) : t \in Minutes(s[k])}

\* x + 1 on an int.
Inc(x) == IF x = IntMax THEN IntMin ELSE x + 1

\* Mutant: touching intervals are not merged.
overlap(a, b) == a.end >= b.start /\ a.start <= b.end

isAdjacentOrOverlap(a, b) ==
  \/ Inc(a.end) = b.start
  \/ Inc(b.end) = a.start
  \/ a.end >= b.start /\ a.start <= b.end

less(a, b) == a.end < b.start

Smaller(x, y) == IF x < y THEN x ELSE y
Larger(x, y) == IF x < y THEN y ELSE x

\* Mutant: the end of the second interval instead of the later one.
getEnvelopeToSecond(a, b) ==
  [start |-> Smaller(a.start, b.start), end |-> b.end]

getEnvelope(a, b) ==
  [start |-> Smaller(a.start, b.start), end |-> Larger(a.end, b.end)]

-----------------------------------------------------------------------------

NoInterval == [start |-> IntMin, end |-> IntMin]

NoQuery == [open |-> FALSE, list |-> <<>>, index |-> 1, seen |-> {}, hidden |-> {},
            expected |-> {}]

IntervalsInit ==
  /\ intervals = <<>>
  /\ adding = FALSE
  /\ interval = NoInterval
  /\ pending = FALSE
  /\ pos = 1
  /\ result = <<>>
  /\ added = NoInterval
  /\ query = NoQuery
  /\ masked = {}

Current == intervals[pos]
HasCurrent == pos <= Len(intervals)

AddInterval(i) ==
  /\ ~adding
  /\ adding' = TRUE
  /\ interval' = i
  /\ added' = i
  /\ pending' = TRUE
  /\ pos' = 1
  /\ result' = <<>>
  /\ UNCHANGED <<intervals, query, masked>>

\* The new interval is in the result: the rest of the list follows.
KeepRest ==
  /\ adding
  /\ ~pending
  /\ HasCurrent
  /\ result' = Append(result, Current)
  /\ pos' = pos + 1
  /\ UNCHANGED <<intervals, adding, interval, pending, added, query, masked>>

\* The list is at its end: the new interval is the last one.
PutLast ==
  /\ adding
  /\ pending
  /\ ~HasCurrent
  /\ result' = Append(result, interval)
  /\ pending' = FALSE
  /\ UNCHANGED <<intervals, adding, interval, pos, added, query, masked>>

Merge ==
  /\ adding
  /\ pending
  /\ HasCurrent
  /\ isAdjacentOrOverlap(interval, Current)
  /\ interval' = getEnvelope(interval, Current)
  /\ pos' = pos + 1
  /\ UNCHANGED <<intervals, adding, pending, result, added, query, masked>>

PutBefore ==
  /\ adding
  /\ pending
  /\ HasCurrent
  /\ ~isAdjacentOrOverlap(interval, Current)
  /\ less(interval, Current)
  /\ result' = Append(result, interval)
  /\ pending' = FALSE
  /\ UNCHANGED <<intervals, adding, interval, pos, added, query, masked>>

KeepBefore ==
  /\ adding
  /\ pending
  /\ HasCurrent
  /\ ~isAdjacentOrOverlap(interval, Current)
  /\ less(Current, interval)
  /\ result' = Append(result, Current)
  /\ pos' = pos + 1
  /\ UNCHANGED <<intervals, adding, interval, pending, added, query, masked>>

\* intervals = result: queries that run keep the old list.
Finish ==
  /\ adding
  /\ ~pending
  /\ ~HasCurrent
  /\ intervals' = result
  /\ masked' = masked \cup Minutes(added)
  /\ adding' = FALSE
  /\ interval' = NoInterval
  /\ added' = NoInterval
  /\ pos' = 1
  /\ result' = <<>>
  /\ UNCHANGED <<pending, query>>

-----------------------------------------------------------------------------
(* MaskIterator over one column                                            *)

OpenQuery ==
  /\ ~query.open
  /\ query' = [NoQuery EXCEPT !.open = TRUE, !.list = intervals, !.expected = masked]
  /\ UNCHANGED <<intervals, locals, masked>>

\* Mutant: an interval is left at its last minute.
nextIntervalFromEnd(list, index, k, t) ==
  /\ \A j \in index..(k - 1) : list[j].end <= t
  /\ k <= Len(list) => t < list[k].end

\* From index on, k is the first interval that does not end before t.
nextInterval(list, index, k, t) ==
  /\ \A j \in index..(k - 1) : list[j].end < t
  /\ k <= Len(list) => t <= list[k].end

\* Entries come in time order.
NextEntry(t) ==
  /\ query.open
  /\ \A s \in query.seen : s < t
  /\ \E k \in query.index..(Len(query.list) + 1) :
       /\ nextInterval(query.list, query.index, k, t)
       /\ query' = [query EXCEPT
                      !.index = k,
                      !.seen = @ \cup {t},
                      !.hidden = IF k <= Len(query.list) /\ query.list[k].start <= t
                                   THEN @ \cup {t}
                                   ELSE @]
  /\ UNCHANGED <<intervals, locals, masked>>

CloseQuery ==
  /\ query.open
  /\ query' = NoQuery
  /\ UNCHANGED <<intervals, locals, masked>>

-----------------------------------------------------------------------------

IntervalsNext ==
  \/ \E i \in Inputs : AddInterval(i)
  \/ KeepRest
  \/ PutLast
  \/ Merge
  \/ PutBefore
  \/ KeepBefore
  \/ Finish
  \/ OpenQuery
  \/ \E t \in Timestamps : NextEntry(t)
  \/ CloseQuery

IntervalsSpec == IntervalsInit /\ [][IntervalsNext]_intervalsVars

-----------------------------------------------------------------------------

IsList(s) == s \in Seq(Interval)

QueryType ==
  [open : BOOLEAN, list : Seq(Interval), index : Nat,
   seen : SUBSET Timestamps, hidden : SUBSET Timestamps, expected : SUBSET Int32]

TypeOK ==
  /\ IsList(intervals)
  /\ adding \in BOOLEAN
  /\ interval \in Interval
  /\ pending \in BOOLEAN
  /\ pos \in 1..(Len(intervals) + 1)
  /\ IsList(result)
  /\ added \in Interval
  /\ query \in QueryType
  /\ query.index \in 1..(Len(query.list) + 1)
  /\ masked \subseteq Int32

\* In time order, and a gap of at least a minute between intervals.
Separate(s) == \A k \in 1..Len(s) : \A j \in 1..(k - 1) : s[j].end + 1 < s[k].start

\* The list of a mask and the list being built stay in order and without
\* touching neighbours, however the intervals added overlap: MaskIterator and
\* addInterval itself walk the list once and rely on it.
IntervalsSeparate == Separate(intervals) /\ Separate(result)

\* A mask hides exactly the minutes of the intervals added to it, whatever
\* their order and overlaps.
MaskExact == Cover(intervals) = masked

\* A query hides exactly the entries that were masked when it began, also while
\* intervals are being added.
MaskedEntriesHidden ==
  query.open => query.hidden = query.seen \cap query.expected

\* No interval with an open end together with one with an open start.
NoWrap == \A i, j \in Inputs : ~(i.end = IntMax /\ j.start = IntMin)
=============================================================================
