---------------------------- MODULE Aggregation -----------------------------
(***************************************************************************)
(* The aggregation of a station's raw rows to hours and days: a chain of   *)
(* iterators, BaseAggregationIterator, NanGapIterator and                  *)
(* DayAggregationIterator, each of which holds the next row it will        *)
(* deliver (MoveIterator).  One thread pulls rows through the chain; an    *)
(* iterator fetches its next row as soon as the last one is taken.         *)
(*                                                                         *)
(* A value is <<S>>: the number computed from the rows with timestamps S   *)
(* of the iterator before, or <<>>: NaN.                                   *)
(***************************************************************************)
EXTENDS Integers, SequencesExt

CONSTANTS
  Column,
  Schema,         \* the aggregation types of the columns, one function per schema
  Hour,           \* minutes of AGGREGATION_TIME_INTERVAL
  Day,            \* minutes of a day
  DayMinimum,     \* hours needed for a day
  Series,         \* the stored series of a run: timestamp -> columns with a number
  Bound           \* what a query may ask for as start or end

ASSUME PeriodAssumption ==
  /\ Hour \in Nat \ {0}
  /\ Day \in Nat \ {0}
  /\ Day % Hour = 0
  /\ DayMinimum \in Nat \ {0}

\* Timestamps are minutes since the beginning of 1900; -1 stands for no row yet.
ASSUME SeriesAssumption == \A series \in Series : IsFiniteSet(DOMAIN series) /\ DOMAIN series \subseteq Nat
ASSUME BoundAssumption == \A b \in Bound : b = <<>> \/ (b = <<b[1]>> /\ b[1] \in Nat)

VARIABLES
  aggregation,\* the aggregation type of each column
  stored,     \* the raw rows
  query,      \* start and end as asked for; <<>> for null
  position,   \* timestamp of the last raw row delivered
  base,       \* BaseAggregationIterator
  gap,        \* NanGapIterator
  day,        \* DayAggregationIterator
  hours,      \* history: rows taken from gap
  days        \* history: rows taken from day

vars == <<aggregation, stored, query, position, base, gap, day, hours, days>>

NaN == <<>>
Number(S) == <<S>>
NaNRow(t) == [timestamp |-> t, data |-> [k \in Column |-> NaN]]

Direction == {k \in Column : aggregation[k] = "AVERAGE_WIND_DIRECTION"}
Velocity == {k \in Column : aggregation[k] = "AVERAGE_WIND_VELOCITY"}

calcBaseAggregationTimestamp(t) == t - (t % Hour)
calcDayTimestamp(t) == t - (t % Day)

\* Rows that a column of an aggregate needs.
HourLeast == [k \in Column |-> 1]
DayLeast == [k \in Column |-> IF aggregation[k] \in {"LAST", "SUM_ALWAYS"} THEN 1 ELSE DayMinimum]

-----------------------------------------------------------------------------
(* Aggregation of rows, the same in both aggregating iterators             *)

NewAggregator ==
  [timestamp |-> -1, collected |-> [k \in Column |-> {}], wind |-> {}, rows |-> 0,
   current |-> <<>>, closed |-> FALSE]

resetAggregates(it) ==
  [it EXCEPT !.collected = [k \in Column |-> {}], !.wind = {}, !.rows = 0]

\* NaN counts as zero in columns of type AVERAGE_ZERO.
collectValues(it, row) ==
  LET counts == {k \in Column : row.data[k] # NaN \/ aggregation[k] = "AVERAGE_ZERO"}
      isWind == \A k \in Direction \cup Velocity : row.data[k] # NaN
  IN  [it EXCEPT
         !.collected = [k \in Column |-> it.collected[k] \cup (IF k \in counts THEN {row.timestamp} ELSE {})],
         !.wind = IF isWind THEN @ \cup {row.timestamp} ELSE @,
         !.rows = @ + 1]

\* resultData starts with 0.0: the direction of an aggregate with directions and
\* velocities but never both at a time is the number made from nothing.
aggregateColumn(it, k, least) ==
  IF Cardinality(it.collected[k]) < least[k]
    THEN NaN
    ELSE CASE k \in Direction -> IF Velocity = {} THEN NaN ELSE Number(it.wind)
           [] aggregation[k] = "LAST" -> Number({Max(it.collected[k])})
           [] OTHER -> Number(it.collected[k])

isValid(it, k, least) ==
  /\ Cardinality(it.collected[k]) >= least[k]
  /\ k \in Direction => Velocity # {} /\ it.wind # {}

\* The aggregate, if any of its columns is valid.
aggregateCollectedData(it, least) ==
  IF \E k \in Column : isValid(it, k, least)
    THEN <<[timestamp |-> it.timestamp,
            data |-> [k \in Column |-> aggregateColumn(it, k, least)]]>>
    ELSE <<>>

\* One row read by getNext: the row of a later period starts a new aggregate, and out is
\* the one before.
ReadRow(it, row, period, out) ==
  IF period > it.timestamp
    THEN collectValues([resetAggregates(it) EXCEPT
                          !.timestamp = period,
                          !.current = IF it.timestamp > -1 THEN out ELSE <<>>], row)
    ELSE collectValues(it, row)

\* No row left: the last aggregate, then the end.
ReadEnd(it, out) ==
  [resetAggregates(it) EXCEPT !.current = out, !.closed = (out = <<>>)]

Wanting(it) == it.current = <<>> /\ ~it.closed
Settled(it) == ~Wanting(it)

-----------------------------------------------------------------------------
(* A query                                                                 *)

NoGap == [opened |-> FALSE, failed |-> FALSE, timestamp |-> 0, next |-> <<>>, end |-> <<>>,
          current |-> <<>>, closed |-> FALSE]

NoQuery == [open |-> FALSE, start |-> <<>>, end |-> <<>>]

Init ==
  /\ aggregation \in Schema
  /\ stored \in Series
  /\ query = NoQuery
  /\ position = -1
  /\ base = NewAggregator
  /\ gap = NoGap
  /\ day = NewAggregator
  /\ hours = <<>>
  /\ days = <<>>

OpenQuery(start, end) ==
  /\ ~query.open
  /\ query' = [open |-> TRUE, start |-> start, end |-> end]
  /\ UNCHANGED <<aggregation, stored, position, base, gap, day, hours, days>>

\* Start and end of the hourly rows: a time within an hour is cut to its beginning.
Align(bound) == IF bound = <<>> THEN <<>> ELSE <<calcBaseAggregationTimestamp(bound[1])>>
Start == Align(query.start)
End == Align(query.end)

\* The raw iterator delivers the rows from start to end.
Source ==
  {t \in DOMAIN stored : /\ Start # <<>> => Start[1] <= t
                         /\ End # <<>> => t <= End[1]}

RawRow(t) ==
  [timestamp |-> t, data |-> [k \in Column |-> IF k \in stored[t] THEN Number({t}) ELSE NaN]]

-----------------------------------------------------------------------------
(* BaseAggregationIterator                                                 *)

Left == {t \in Source : position < t}

BaseRow ==
  /\ query.open /\ Wanting(base) /\ Left # {}
  /\ position' = Min(Left)
  /\ base' = ReadRow(base, RawRow(Min(Left)), calcBaseAggregationTimestamp(Min(Left)),
                     aggregateCollectedData(base, HourLeast))
  /\ UNCHANGED <<aggregation, stored, query, gap, day, hours, days>>

BaseEnd ==
  /\ query.open /\ Wanting(base) /\ Left = {}
  /\ base' = ReadEnd(base, aggregateCollectedData(base, HourLeast))
  /\ UNCHANGED <<aggregation, stored, query, position, gap, day, hours, days>>

-----------------------------------------------------------------------------
(* NanGapIterator                                                          *)

Taken(it) == [it EXCEPT !.current = <<>>]

\* The constructor: rows before start are skipped; without rows the iterator has only
\* the NaN rows from start to end.
GapOpen ==
  /\ query.open /\ Settled(base) /\ ~gap.opened
  /\ IF base.current = <<>>
       THEN /\ gap' = [gap EXCEPT !.opened = TRUE,
                                  !.timestamp = IF Start = <<>> THEN -100 ELSE Start[1],
                                  !.end = IF Start = <<>> THEN <<-200>> ELSE End]
            /\ UNCHANGED base
       ELSE /\ gap' = IF Start # <<>> /\ base.current[1].timestamp < Start[1]
                        THEN gap
                        ELSE [gap EXCEPT !.opened = TRUE,
                                         !.timestamp = IF Start = <<>>
                                                         THEN base.current[1].timestamp
                                                         ELSE Start[1],
                                         !.next = base.current,
                                         !.end = End]
            /\ base' = Taken(base)
  /\ UNCHANGED <<aggregation, stored, query, position, day, hours, days>>

Fill(g) == [g EXCEPT !.current = <<NaNRow(g.timestamp)>>, !.timestamp = @ + Hour]
Finish(g) == [g EXCEPT !.next = <<>>, !.closed = TRUE]

fillAfter(g) == IF g.end # <<>> /\ g.timestamp <= g.end[1] THEN Fill(g) ELSE Finish(g)

\* Mutant: the rows in a gap are left out.
fillBeforeNothing(g) == [g EXCEPT !.timestamp = g.next[1].timestamp]

fillBefore(g) == Fill(g)

\* getNext with a row at hand: a row after the end, a gap before the row, the row itself,
\* which the next one of the base iterator replaces, or a row that should have come before.
isNext(g) == g.next # <<>> /\ g.timestamp = g.next[1].timestamp

RowAtHand(g) ==
  IF g.end # <<>> /\ g.next[1].timestamp > g.end[1]
    THEN Finish(g)
    ELSE CASE g.timestamp < g.next[1].timestamp -> fillBefore(g)
           [] isNext(g) -> [g EXCEPT !.current = g.next, !.timestamp = @ + Hour, !.next = base.current]
           [] OTHER -> [g EXCEPT !.failed = TRUE, !.closed = TRUE]

GapNext ==
  /\ query.open /\ gap.opened /\ Wanting(gap) /\ Settled(base)
  /\ gap' = IF gap.next = <<>> THEN fillAfter(gap) ELSE RowAtHand(gap)
  /\ base' = IF gap'.current # <<>> /\ gap'.current = gap.next THEN Taken(base) ELSE base
  /\ UNCHANGED <<aggregation, stored, query, position, day, hours, days>>

-----------------------------------------------------------------------------
(* DayAggregationIterator and the client that takes its rows               *)

\* Mutant: a day without enough numbers is left out.
DayResultSkip(it) == aggregateCollectedData(it, DayLeast)

\* A day without enough numbers is a row of NaN, a day without rows is no row.
DayResult(it) ==
  LET aggregate == aggregateCollectedData(it, DayLeast)
  IN  IF aggregate = <<>> /\ it.rows > 0 THEN <<NaNRow(it.timestamp)>> ELSE aggregate

DayRow ==
  /\ query.open /\ Wanting(day) /\ Settled(base) /\ gap.current # <<>>
  /\ LET row == gap.current[1]
     IN  /\ day' = ReadRow(day, row, calcDayTimestamp(row.timestamp), DayResult(day))
         /\ hours' = Append(hours, row)
  /\ gap' = Taken(gap)
  /\ UNCHANGED <<aggregation, stored, query, position, base, days>>

DayEnd ==
  /\ query.open /\ Wanting(day) /\ gap.closed
  /\ day' = ReadEnd(day, DayResult(day))
  /\ UNCHANGED <<aggregation, stored, query, position, base, gap, hours, days>>

TakeDay ==
  /\ day.current # <<>> /\ Settled(gap) /\ Settled(base)
  /\ days' = days \o day.current
  /\ day' = Taken(day)
  /\ UNCHANGED <<aggregation, stored, query, position, base, gap, hours>>

\* The client has all rows, or the exception; the next query has iterators of its own.
CloseQuery ==
  /\ query.open /\ day.closed
  /\ query' = NoQuery
  /\ position' = -1
  /\ base' = NewAggregator
  /\ gap' = NoGap
  /\ day' = NewAggregator
  /\ hours' = <<>>
  /\ days' = <<>>
  /\ UNCHANGED <<aggregation, stored>>

Pull == BaseRow \/ BaseEnd \/ GapOpen \/ GapNext \/ DayRow \/ DayEnd \/ TakeDay \/ CloseQuery

Next ==
  \/ \E start, end \in Bound : OpenQuery(start, end)
  \/ Pull

Spec == Init /\ [][Next]_vars

-----------------------------------------------------------------------------
(* Reference: hours and days from the stored rows at once                  *)

RowsOf(t, width) == {s \in Source : t <= s /\ s < t + width}

Steps(first, last, width) ==
  [i \in 1 .. ((last - first) \div width) + 1 |-> first + ((i - 1) * width)]

\* Value of a column from the units S (rows or hours), those of them with a number, those
\* with numbers for direction and velocity.
Summary(k, numbers, windy, least) ==
  IF Cardinality(numbers) < least
    THEN NaN
    ELSE CASE aggregation[k] = "LAST" -> Number({Max(numbers)})
           [] k \in Direction -> IF Velocity = {} THEN NaN ELSE Number(windy)
           [] OTHER -> Number(numbers)

\* A number from no unit does not make a row.
Row(t, data) ==
  IF \E k \in Column : data[k] \notin {NaN, Number({})}
    THEN [timestamp |-> t, data |-> data]
    ELSE NaNRow(t)

HourRow(t) ==
  LET rows == RowsOf(t, Hour)
      numbers(k) == {s \in rows : k \in stored[s] \/ aggregation[k] = "AVERAGE_ZERO"}
      windy == {s \in rows : Direction \cup Velocity \subseteq stored[s]}
  IN  Row(t, [k \in Column |-> Summary(k, numbers(k), windy, 1)])

FilledHours == {t \in {calcBaseAggregationTimestamp(s) : s \in Source} : HourRow(t) # NaNRow(t)}

\* Every hour from the first to the last, those of the query or of the data.
AllHours ==
  LET filled == FilledHours
      first == IF Start = <<>> THEN filled ELSE {Start[1]}
      last == IF End = <<>> THEN filled ELSE {End[1]}
  IN  IF (Start = <<>> /\ filled = {}) \/ last = {} \/ Max(last) < Min(first)
        THEN <<>>
        ELSE LET steps == Steps(Min(first), Max(last), Hour)
             IN  [i \in DOMAIN steps |-> HourRow(steps[i])]

DayOf(t, rows) ==
  LET times(S) == {row.timestamp : row \in S}
      numbers(k) == {row \in rows : row.data[k] # NaN \/ aggregation[k] = "AVERAGE_ZERO"}
      windy == {row \in rows : \A k \in Direction \cup Velocity : row.data[k] # NaN}
  IN  Row(t, [k \in Column |-> Summary(k, times(numbers(k)), times(windy), DayLeast[k])])

AllDays ==
  LET all == AllHours
  IN  IF all = <<>>
        THEN <<>>
        ELSE LET steps == Steps(calcDayTimestamp(Head(all).timestamp),
                                calcDayTimestamp(Last(all).timestamp), Day)
             IN  [n \in DOMAIN steps |->
                    DayOf(steps[n], {row \in Range(all) : calcDayTimestamp(row.timestamp) = steps[n]})]

-----------------------------------------------------------------------------
(* Properties                                                              *)

\* The rows that leave NanGapIterator are those of the reference, in order, without a gap
\* and each once, whatever rows are missing (BaseAggregationIterator, NanGapIterator).
HoursExact ==
  query.open =>
    LET all == AllHours
    IN  IsPrefix(hours, all) /\ (day.closed => hours = all)

\* The days a client gets are the aggregates of the hours, a day with too few hours as a
\* row of NaN, no day twice and none left out (AbstractAggregationIterator.getNext).
DaysExact ==
  query.open =>
    LET all == AllDays
    IN  IsPrefix(days, all) /\ (day.closed => days = all)

\* What the documentation of the query API says of the end of a query: the time asked for
\* belongs to it.  The hourly row of the end holds the numbers stored up to it.
LastHourComplete ==
  \A i \in DOMAIN hours : \A k \in Column :
    LET asked == {s \in DOMAIN stored : /\ calcBaseAggregationTimestamp(s) = hours[i].timestamp
                                        /\ k \in stored[s]
                                        /\ query.end # <<>> => s <= query.end[1]}
    IN  aggregation[k] = "AVERAGE" /\ asked # {} => hours[i].data[k] = Number(asked)
=============================================================================
