------------------------- MODULE AggregationProofs --------------------------
(***************************************************************************)
(* The rows that leave the chain of iterators are those computed from the  *)
(* stored rows at once, for any series, any bounds of a query, any columns *)
(* and any widths of hour and day.                                         *)
(***************************************************************************)
EXTENDS Aggregation, FiniteSetTheorems, WellFoundedInduction, TLAPS

(***************************************************************************)
(* Periods                                                                 *)
(***************************************************************************)

Times(w) == {n * w : n \in Nat}
Cut(t, w) == t - (t % w)

\* Beginnings of periods are a period apart.
LEMMA TimesApart ==
  ASSUME NEW w \in Nat \ {0}, NEW a \in Times(w)
  PROVE  /\ a \in Nat
         /\ a + w \in Times(w)
         /\ \A n \in Nat : a + (n * w) \in Times(w)
         /\ \A b \in Times(w) : a < b => a + w <= b
<1>1. PICK k \in Nat : a = k * w
  BY DEF Times
<1>2. a \in Nat
  BY <1>1
<1>3. ASSUME NEW n \in Nat
      PROVE  a + (n * w) \in Times(w)
  <2>1. a + (n * w) = (k + n) * w
    BY <1>1
  <2>2. k + n \in Nat
    OBVIOUS
  <2>. QED
    BY <2>1, <2>2 DEF Times
<1>4. a + w \in Times(w)
  <2>1. a + (1 * w) \in Times(w)
    BY <1>3
  <2>. QED
    BY <2>1, <1>2
<1>5. ASSUME NEW b \in Times(w), a < b
      PROVE  a + w <= b
  <2>1. PICK m \in Nat : b = m * w
    BY DEF Times
  <2>2. k < m
    <3>1. m <= k => m * w <= k * w
      OBVIOUS
    <3>. QED
      BY <1>1, <1>5, <2>1, <3>1
  <2>. QED
    BY <1>1, <2>1, <2>2
<1>. QED
  BY <1>2, <1>3, <1>4, <1>5

\* A time lies in one period.
LEMMA CutTimes ==
  ASSUME NEW w \in Nat \ {0}, NEW t \in Nat
  PROVE  /\ Cut(t, w) \in Times(w)
         /\ Cut(t, w) \in Nat
         /\ Cut(t, w) <= t /\ t < Cut(t, w) + w
         /\ \A a \in Times(w) : a <= t /\ t < a + w => Cut(t, w) = a
<1>1. Cut(t, w) \in Nat /\ Cut(t, w) <= t /\ t < Cut(t, w) + w
  BY DEF Cut
<1>2. \E n \in Nat : Cut(t, w) = n * w
  BY DEF Cut
<1>3. Cut(t, w) \in Times(w)
  BY <1>2 DEF Times
<1>4. ASSUME NEW a \in Times(w), a <= t, t < a + w
      PROVE  Cut(t, w) = a
  <2>. DEFINE c == Cut(t, w)
  <2>1. c \in Times(w) /\ c \in Nat /\ c <= t /\ t < c + w
    BY <1>1, <1>3
  <2>. HIDE DEF c
  <2>2. a \in Nat /\ (a < c => a + w <= c) /\ (c < a => c + w <= a)
    BY <2>1, TimesApart
  <2>3. c = a
    BY <1>4, <2>1, <2>2
  <2>. QED
    BY <2>3 DEF c
<1>. QED
  BY <1>1, <1>3, <1>4

\* A later time lies in the same or a later period.
LEMMA CutMonotone ==
  ASSUME NEW w \in Nat \ {0}, NEW s \in Nat, NEW t \in Nat, s <= t
  PROVE  Cut(s, w) <= Cut(t, w)
<1>. DEFINE a == Cut(s, w)
            b == Cut(t, w)
<1>1. /\ a \in Times(w) /\ a \in Nat /\ a <= s /\ s < a + w
      /\ b \in Times(w) /\ b \in Nat /\ b <= t /\ t < b + w
  BY CutTimes
<1>. HIDE DEF a, b
<1>2. b < a => b + w <= a
  BY <1>1, TimesApart
<1>3. a <= b
  BY <1>1, <1>2
<1>. QED
  BY <1>3 DEF a, b

\* A beginning is the beginning of its own period, and the next one of the next.
LEMMA CutSelf ==
  ASSUME NEW w \in Nat \ {0}, NEW a \in Times(w)
  PROVE  Cut(a, w) = a
<1>1. a \in Nat /\ a < a + w
  BY TimesApart
<1>. QED
  BY <1>1, CutTimes

\* The number of steps from one beginning to another.
LEMMA StepsCount ==
  ASSUME NEW w \in Nat \ {0}, NEW a \in Times(w), NEW b \in Times(w), a <= b
  PROVE  LET N == ((b - a) \div w) + 1
         IN  /\ N \in Nat \ {0}
             /\ a + ((N - 1) * w) = b
             /\ \A n \in Nat : n < N <=> a + (n * w) <= b
<1>. DEFINE N == ((b - a) \div w) + 1
<1>1. PICK i \in Nat, j \in Nat : a = i * w /\ b = j * w
  BY DEF Times
<1>2. i <= j
  <2>1. j < i => j * w < i * w
    OBVIOUS
  <2>. QED
    BY <1>1, <2>1
<1>3. (b - a) \div w = j - i
  BY <1>1, <1>2
<1>4. N \in Nat \ {0} /\ N - 1 = j - i
  BY <1>2, <1>3
<1>5. a + ((j - i) * w) = b
  BY <1>1, <1>2
<1>6. ASSUME NEW n \in Nat
      PROVE  n < N <=> a + (n * w) <= b
  <2>1. n <= j - i => n * w <= (j - i) * w
    BY <1>2
  <2>2. j - i < n => (j - i) * w < n * w
    BY <1>2
  <2>3. n * w \in Nat /\ (j - i) * w \in Int /\ a \in Int /\ b \in Int
    BY <1>1, <1>2
  <2>. HIDE DEF N
  <2>4. n < N <=> n <= j - i
    BY <1>2, <1>4
  <2>. QED
    BY <1>2, <1>5, <2>1, <2>2, <2>3, <2>4
<1>. QED
  BY <1>4, <1>5, <1>6

\* A day begins with an hour.
LEMMA DayTimes == Times(Day) \subseteq Times(Hour)
<1>1. PICK k \in Nat : Day = k * Hour
  <2>1. Day \div Hour \in Nat /\ Day = (Day \div Hour) * Hour
    BY PeriodAssumption
  <2>. QED
    BY <2>1
<1>2. ASSUME NEW n \in Nat
      PROVE  n * Day \in Times(Hour)
  <2>1. n * Day = (n * k) * Hour /\ n * k \in Nat
    BY <1>1, PeriodAssumption
  <2>. QED
    BY <2>1 DEF Times
<1>. QED
  BY <1>2 DEF Times

(***************************************************************************)
(* Smallest and greatest elements of finite sets of timestamps             *)
(***************************************************************************)

\* A finite set of timestamps has a smallest one.
LEMMA MinOfTimes ==
  ASSUME NEW S, IsFiniteSet(S), S \subseteq Nat, S # {}
  PROVE  Min(S) \in S /\ Min(S) \in Nat /\ \A x \in S : Min(S) <= x
<1>. DEFINE Upto(n) == {x \in S : x <= n}
            T == {Upto(n) : n \in S}
<1>1. T \subseteq FiniteSubsetsOf(S) /\ T # {}
  <2>1. FiniteSubsetsOf(S) = SUBSET S
    BY FS_FiniteSubsetsOfFinite
  <2>2. \A n \in S : Upto(n) \in SUBSET S
    OBVIOUS
  <2>. HIDE DEF Upto
  <2>3. T \subseteq SUBSET S
    BY <2>2
  <2>4. T # {}
    OBVIOUS
  <2>. QED
    BY <2>1, <2>3, <2>4
<1>2. PICK u \in T : \A v \in T : ~(<<v, u>> \in StrictSubsetOrdering(S))
  <2>. HIDE DEF T
  <2>. QED
    BY <1>1, FS_StrictSubsetOrderingWellFounded, WFMin
<1>3. PICK m \in S : u = Upto(m)
  BY <1>2
<1>4. ASSUME NEW n \in S, n < m
      PROVE  FALSE
  <2>1. Upto(n) \in T /\ m \in Upto(m) /\ m \notin Upto(n)
    BY <1>4
  <2>2. Upto(n) \subseteq Upto(m) /\ Upto(n) \in SUBSET S /\ Upto(m) \in SUBSET S
    <3>1. \A x \in S : x <= n => x <= m
      BY <1>4
    <3>. QED
      BY <3>1
  <2>. HIDE DEF Upto
  <2>3. <<Upto(n), Upto(m)>> \in StrictSubsetOrdering(S)
    BY <2>1, <2>2 DEF StrictSubsetOrdering
  <2>. QED
    BY <1>2, <1>3, <2>1, <2>3
<1>5. m \in S /\ \A y \in S : m <= y
  BY <1>4
<1>. QED
  BY <1>5 DEF Min

\* A finite set of timestamps has a greatest one.
LEMMA MaxOfTimes ==
  ASSUME NEW S, IsFiniteSet(S), S \subseteq Nat, S # {}
  PROVE  Max(S) \in S /\ Max(S) \in Nat /\ \A x \in S : x <= Max(S)
<1>. DEFINE From(n) == {x \in S : n <= x}
            T == {From(n) : n \in S}
<1>1. T \subseteq FiniteSubsetsOf(S) /\ T # {}
  <2>1. FiniteSubsetsOf(S) = SUBSET S
    BY FS_FiniteSubsetsOfFinite
  <2>2. \A n \in S : From(n) \in SUBSET S
    OBVIOUS
  <2>. HIDE DEF From
  <2>3. T \subseteq SUBSET S
    BY <2>2
  <2>4. T # {}
    OBVIOUS
  <2>. QED
    BY <2>1, <2>3, <2>4
<1>2. PICK u \in T : \A v \in T : ~(<<v, u>> \in StrictSubsetOrdering(S))
  <2>. HIDE DEF T
  <2>. QED
    BY <1>1, FS_StrictSubsetOrderingWellFounded, WFMin
<1>3. PICK m \in S : u = From(m)
  BY <1>2
<1>4. ASSUME NEW n \in S, m < n
      PROVE  FALSE
  <2>1. From(n) \in T /\ m \in From(m) /\ m \notin From(n)
    BY <1>4
  <2>2. From(n) \subseteq From(m) /\ From(n) \in SUBSET S /\ From(m) \in SUBSET S
    <3>1. \A x \in S : n <= x => m <= x
      BY <1>4
    <3>. QED
      BY <3>1
  <2>. HIDE DEF From
  <2>3. <<From(n), From(m)>> \in StrictSubsetOrdering(S)
    BY <2>1, <2>2 DEF StrictSubsetOrdering
  <2>. QED
    BY <1>2, <1>3, <2>1, <2>3
<1>5. m \in S /\ \A y \in S : m >= y
  BY <1>4
<1>6. Max(S) \in S /\ \A y \in S : Max(S) >= y
  BY <1>5 DEF Max
<1>. QED
  BY <1>6

(***************************************************************************)
(* The invariant                                                           *)
(***************************************************************************)

\* Timestamps of the rows with a number, and of those with direction and velocity.
Numbers(k, rows) ==
  {row.timestamp : row \in {row \in rows : row.data[k] # NaN \/ aggregation[k] = "AVERAGE_ZERO"}}
Windy(rows) ==
  {row.timestamp : row \in {row \in rows : \A k \in Direction \cup Velocity : row.data[k] # NaN}}

\* The aggregate of a set of rows.
SummaryRow(t, rows, least) ==
  Row(t, [k \in Column |-> Summary(k, Numbers(k, rows), Windy(rows), least[k])])

\* The iterator has collected exactly these rows.
Gathered(it, rows) ==
  /\ it.collected = [k \in Column |-> Numbers(k, rows)]
  /\ it.wind = Windy(rows)
  /\ it.rows > 0 <=> rows # {}

IsAggregator(it) ==
  /\ DOMAIN it = {"timestamp", "collected", "wind", "rows", "current", "closed"}
  /\ it.timestamp \in Int
  /\ it.rows \in Nat
  /\ it.closed \in BOOLEAN

IsGap(g) ==
  /\ DOMAIN g = {"opened", "failed", "timestamp", "next", "end", "current", "closed"}
  /\ g.timestamp \in Int
  /\ g.opened \in BOOLEAN /\ g.closed \in BOOLEAN

QueryType ==
  /\ aggregation \in Schema
  /\ stored \in Series
  /\ query.open \in BOOLEAN
  /\ query.open => query.start \in Bound /\ query.end \in Bound

\* Between queries there are no iterators.
Closed ==
  ~query.open =>
    /\ position = -1
    /\ base = NewAggregator
    /\ gap = NoGap
    /\ day = NewAggregator
    /\ hours = <<>>
    /\ days = <<>>

\* BaseAggregationIterator: the open aggregate has the rows of its hour that were read.
Read == {s \in Source : calcBaseAggregationTimestamp(s) = base.timestamp /\ s <= position}

Drained == base.rows = 0 /\ Left = {}

\* The filled hours that the iterator is still to make.
Coming == IF Drained THEN {} ELSE {h \in FilledHours : h >= base.timestamp}

BaseInv ==
  /\ IsAggregator(base)
  /\ position = -1 \/ position \in Source
  /\ base.timestamp = IF position = -1 THEN -1 ELSE calcBaseAggregationTimestamp(position)
  /\ Drained \/ Gathered(base, {RawRow(s) : s \in Read})
  /\ Drained => Gathered(base, {})
  /\ base.closed => Drained
  /\ base.current # <<>> =>
       \E h \in FilledHours : base.current = <<HourRow(h)>> /\ \A c \in Coming : h < c

\* The filled hours that the iterator still has to deliver.
Rest == Coming \cup (IF base.current = <<>> THEN {} ELSE {base.current[1].timestamp})

\* NanGapIterator: the hours that left it are the first ones of the reference.
NoHours == Start = <<>> /\ FilledHours = {}
First == IF Start = <<>> THEN Min(FilledHours) ELSE Start[1]
Given == Len(hours) + Len(gap.current)

Unopened == ~gap.opened => gap = NoGap /\ Rest = FilledHours /\ hours = <<>>

GapBegins ==
  gap.opened =>
    IF NoHours
      THEN gap.next = <<>> /\ gap.timestamp = -100 /\ gap.end = <<-200>>
      ELSE gap.end = End /\ gap.timestamp = First + (Given * Hour)

HoursGiven ==
  /\ Given <= Len(AllHours)
  /\ hours \in Seq(Range(AllHours))
  /\ \A i \in 1 .. Len(hours) : hours[i] = AllHours[i]
  /\ gap.current # <<>> => gap.current = <<AllHours[Len(hours) + 1]>>

NextRow ==
  gap.opened /\ ~gap.closed =>
    /\ {h \in FilledHours : h >= gap.timestamp}
         = Rest \cup (IF gap.next = <<>> THEN {} ELSE {gap.next[1].timestamp})
    /\ gap.next = <<>> => Rest = {}
    /\ gap.next # <<>> =>
         \E n \in FilledHours : gap.next = <<HourRow(n)>> /\ \A c \in Rest : n < c

GapInv ==
  /\ IsGap(gap)
  /\ ~gap.failed
  /\ gap.current = <<>> \/ Len(gap.current) = 1
  /\ Unopened
  /\ GapBegins
  /\ HoursGiven
  /\ NextRow
  /\ gap.closed => gap.opened /\ gap.current = <<>> /\ Given = Len(AllHours)

\* DayAggregationIterator: the open aggregate has the hours of its day that were taken.
HoursOf(t) == {hours[i] : i \in {i \in 1 .. Len(hours) : calcDayTimestamp(hours[i].timestamp) = t}}
DaysOut == Len(days) + Len(day.current)
Through == day.rows = 0 /\ gap.closed /\ gap.current = <<>>

DayInv ==
  /\ IsAggregator(day)
  /\ day.timestamp = IF hours = <<>> THEN -1 ELSE calcDayTimestamp(hours[Len(hours)].timestamp)
  /\ day.current = <<>> \/ Len(day.current) = 1
  /\ Through \/ Gathered(day, HoursOf(day.timestamp))
  /\ Through => Gathered(day, {})
  /\ hours = <<>> => DaysOut = 0
  /\ hours # <<>> /\ ~Through =>
       day.timestamp = calcDayTimestamp(hours[1].timestamp) + (DaysOut * Day)
  /\ hours # <<>> /\ Through => DaysOut = Len(AllDays)
  /\ day.closed => Through /\ day.current = <<>>

DaysGiven ==
  /\ DaysOut <= Len(AllDays)
  /\ days \in Seq(Range(AllDays))
  /\ \A i \in 1 .. Len(days) : days[i] = AllDays[i]
  /\ day.current # <<>> => day.current = <<AllDays[Len(days) + 1]>>

ChainInv ==
  /\ QueryType
  /\ Closed
  /\ query.open => BaseInv /\ GapInv /\ DayInv /\ DaysGiven

-----------------------------------------------------------------------------
(* Aggregates                                                              *)

\* A number is no NaN, and shows what it was computed from.
LEMMA Values ==
  /\ \A S : Number(S) # NaN
  /\ \A S, T : Number(S) = Number(T) => S = T
BY DEF Number, NaN

\* What a function makes of a finite set is finite.
LEMMA FiniteImage ==
  ASSUME NEW f, IsFiniteSet(DOMAIN f), NEW T, T = {f[x] : x \in DOMAIN f}
  PROVE  IsFiniteSet(T)
<1>. DEFINE g == [x \in DOMAIN f |-> f[x]]
<1>1. g \in Surjection(DOMAIN f, T)
  BY DEF Surjection
<1>. QED
  BY <1>1, FS_Surjection

\* Without rows nothing is collected.
LEMMA NewOK == IsAggregator(NewAggregator) /\ Gathered(NewAggregator, {})
BY DEF NewAggregator, IsAggregator, Gathered, Numbers, Windy

\* resetAggregates leaves an aggregate without rows.
LEMMA ResetOK ==
  ASSUME NEW it, IsAggregator(it)
  PROVE  LET new == resetAggregates(it)
         IN  /\ IsAggregator(new) /\ Gathered(new, {})
             /\ new.timestamp = it.timestamp /\ new.current = it.current /\ new.closed = it.closed
             /\ new.rows = 0
<1>. DEFINE new == resetAggregates(it)
<1>1. /\ DOMAIN new = DOMAIN it
      /\ new.collected = [k \in Column |-> {}] /\ new.wind = {} /\ new.rows = 0
      /\ new.timestamp = it.timestamp /\ new.current = it.current /\ new.closed = it.closed
  BY DEF resetAggregates, IsAggregator
<1>. HIDE DEF new
<1>2. Gathered(new, {})
  BY <1>1 DEF Gathered, Numbers, Windy
<1>3. IsAggregator(new)
  BY <1>1 DEF IsAggregator
<1>. QED
  BY <1>1, <1>2, <1>3 DEF new

\* collectValues adds a row.
LEMMA CollectOK ==
  ASSUME NEW it, IsAggregator(it), NEW rows, Gathered(it, rows), NEW row
  PROVE  LET new == collectValues(it, row)
         IN  /\ IsAggregator(new) /\ Gathered(new, rows \cup {row})
             /\ new.timestamp = it.timestamp /\ new.current = it.current /\ new.closed = it.closed
             /\ new.rows > 0
<1>. DEFINE new == collectValues(it, row)
            counts == {k \in Column : row.data[k] # NaN \/ aggregation[k] = "AVERAGE_ZERO"}
            isWind == \A k \in Direction \cup Velocity : row.data[k] # NaN
<1>1. /\ DOMAIN new = DOMAIN it
      /\ new.collected = [k \in Column |-> it.collected[k] \cup (IF k \in counts THEN {row.timestamp} ELSE {})]
      /\ new.wind = IF isWind THEN it.wind \cup {row.timestamp} ELSE it.wind
      /\ new.rows = it.rows + 1
      /\ new.timestamp = it.timestamp /\ new.current = it.current /\ new.closed = it.closed
  BY DEF collectValues, IsAggregator
<1>2. \A k \in Column : Numbers(k, rows \cup {row})
                         = Numbers(k, rows) \cup (IF k \in counts THEN {row.timestamp} ELSE {})
  BY DEF Numbers
<1>3. Windy(rows \cup {row}) = IF isWind THEN Windy(rows) \cup {row.timestamp} ELSE Windy(rows)
  BY DEF Windy
<1>4. it.rows \in Nat
  BY DEF IsAggregator
<1>. HIDE DEF new, counts, isWind
<1>5. new.collected = [k \in Column |-> Numbers(k, rows \cup {row})]
  BY ZenonT(40), <1>1, <1>2 DEF Gathered
<1>6. Gathered(new, rows \cup {row})
  <2>1. new.wind = Windy(rows \cup {row})
    BY <1>1, <1>3 DEF Gathered
  <2>2. new.rows > 0 /\ rows \cup {row} # {}
    BY <1>1, <1>4
  <2>. QED
    BY <1>5, <2>1, <2>2 DEF Gathered
<1>7. IsAggregator(new)
  BY <1>1, <1>4 DEF IsAggregator
<1>. QED
  BY <1>1, <1>4, <1>6, <1>7 DEF new

\* collectValues changes nothing but the aggregate.
LEMMA CollectKeeps ==
  ASSUME NEW it, IsAggregator(it), NEW rows, Gathered(it, rows), NEW row, NEW new, new = collectValues(it, row)
  PROVE  /\ IsAggregator(new) /\ new.rows > 0
         /\ new.timestamp = it.timestamp /\ new.current = it.current /\ new.closed = it.closed
<1>1. LET c == collectValues(it, row)
      IN  /\ IsAggregator(c) /\ Gathered(c, rows \cup {row})
          /\ c.timestamp = it.timestamp /\ c.current = it.current /\ c.closed = it.closed
          /\ c.rows > 0
  BY CollectOK
<1>. QED
  BY <1>1

\* The aggregate of a later period is opened.
Opened(it, period, out) ==
  [resetAggregates(it) EXCEPT !.timestamp = period,
                              !.current = IF it.timestamp > -1 THEN out ELSE <<>>]

\* The aggregate opened has no rows yet; the one before is given, unless it is the first.
LEMMA OpenedOK ==
  ASSUME NEW it, IsAggregator(it), NEW period \in Int, NEW out
  PROVE  LET open == Opened(it, period, out)
         IN  /\ IsAggregator(open) /\ Gathered(open, {})
             /\ open.timestamp = period /\ open.closed = it.closed
             /\ it.timestamp > -1 => open.current = out
             /\ ~(it.timestamp > -1) => open.current = <<>>
<1>. DEFINE old == resetAggregates(it)
            open == [old EXCEPT !.timestamp = period, !.current = IF it.timestamp > -1 THEN out ELSE <<>>]
<1>1. IsAggregator(old) /\ Gathered(old, {}) /\ old.closed = it.closed /\ old.rows = 0
  BY ResetOK
<1>2. Opened(it, period, out) = open
  BY DEF Opened
<1>. HIDE DEF old
<1>3. /\ DOMAIN open = DOMAIN old
      /\ open.collected = old.collected /\ open.wind = old.wind /\ open.rows = 0
      /\ open.timestamp = period /\ open.current = (IF it.timestamp > -1 THEN out ELSE <<>>)
      /\ open.closed = it.closed
  BY <1>1 DEF IsAggregator
<1>. HIDE DEF open
<1>4. IsAggregator(open) /\ Gathered(open, {})
  BY <1>1, <1>3 DEF IsAggregator, Gathered
<1>. QED
  BY <1>2, <1>3, <1>4

\* A row is read: it opens an aggregate, or joins the open one.
LEMMA ReadRowOK ==
  ASSUME NEW it, IsAggregator(it), NEW rows, Gathered(it, rows), NEW row, NEW period \in Int, NEW out,
         NEW new, new = ReadRow(it, row, period, out)
  PROVE  /\ IsAggregator(new) /\ new.closed = it.closed /\ new.rows > 0
         /\ period > it.timestamp =>
              /\ new.timestamp = period
              /\ it.timestamp > -1 => new.current = out
              /\ ~(it.timestamp > -1) => new.current = <<>>
         /\ ~(period > it.timestamp) =>
              /\ new.timestamp = it.timestamp
              /\ new.current = it.current
<1>1. CASE ~(period > it.timestamp)
  <2>1. new = collectValues(it, row)
    BY <1>1 DEF ReadRow
  <2>2. /\ IsAggregator(new) /\ new.rows > 0
        /\ new.timestamp = it.timestamp /\ new.current = it.current /\ new.closed = it.closed
    BY <2>1, CollectKeeps
  <2>. QED
    BY <1>1, <2>2
<1>2. CASE period > it.timestamp
  <2>. DEFINE open == Opened(it, period, out)
  <2>1. /\ IsAggregator(open) /\ Gathered(open, {})
        /\ open.timestamp = period /\ open.closed = it.closed
        /\ it.timestamp > -1 => open.current = out
        /\ ~(it.timestamp > -1) => open.current = <<>>
    BY OpenedOK
  <2>2. new = collectValues(open, row)
    BY <1>2 DEF ReadRow, Opened
  <2>. HIDE DEF open
  <2>3. /\ IsAggregator(new) /\ new.rows > 0
        /\ new.timestamp = open.timestamp /\ new.current = open.current /\ new.closed = open.closed
    BY <2>1, <2>2, CollectKeeps
  <2>. QED
    BY <1>2, <2>1, <2>3
<1>. QED
  BY <1>1, <1>2

\* The row of a later period is the only one of its aggregate.
LEMMA ReadRowOpens ==
  ASSUME NEW it, IsAggregator(it), NEW row, NEW period \in Int, NEW out, period > it.timestamp,
         NEW new, new = ReadRow(it, row, period, out)
  PROVE  Gathered(new, {row})
<1>. DEFINE open == Opened(it, period, out)
<1>1. IsAggregator(open) /\ Gathered(open, {})
  BY OpenedOK
<1>2. new = collectValues(open, row)
  BY DEF ReadRow, Opened
<1>. HIDE DEF open
<1>3. Gathered(new, {} \cup {row})
  BY <1>1, <1>2, CollectOK
<1>4. {} \cup {row} = {row}
  OBVIOUS
<1>. QED
  BY <1>3, <1>4

\* Another row of the same period is added.
LEMMA ReadRowJoins ==
  ASSUME NEW it, IsAggregator(it), NEW rows, Gathered(it, rows), NEW row, NEW period, NEW out,
         ~(period > it.timestamp),
         NEW new, new = ReadRow(it, row, period, out)
  PROVE  Gathered(new, rows \cup {row})
<1>1. new = collectValues(it, row)
  BY DEF ReadRow
<1>. QED
  BY <1>1, CollectOK

\* No row is left.
LEMMA ReadEndOK ==
  ASSUME NEW it, IsAggregator(it), NEW out
  PROVE  LET new == ReadEnd(it, out)
         IN  /\ IsAggregator(new) /\ Gathered(new, {}) /\ new.rows = 0
             /\ new.timestamp = it.timestamp /\ new.current = out /\ new.closed = (out = <<>>)
<1>. DEFINE old == resetAggregates(it)
            new == [old EXCEPT !.current = out, !.closed = (out = <<>>)]
<1>1. /\ IsAggregator(old) /\ Gathered(old, {}) /\ old.timestamp = it.timestamp /\ old.rows = 0
  BY ResetOK
<1>2. ReadEnd(it, out) = new
  BY DEF ReadEnd
<1>. HIDE DEF old
<1>3. /\ DOMAIN new = DOMAIN old
      /\ new.collected = old.collected /\ new.wind = old.wind /\ new.rows = 0
      /\ new.timestamp = it.timestamp /\ new.current = out /\ new.closed = (out = <<>>)
  BY <1>1 DEF IsAggregator
<1>. HIDE DEF new
<1>4. IsAggregator(new) /\ Gathered(new, {})
  BY <1>1, <1>3 DEF IsAggregator, Gathered
<1>. QED
  BY <1>2, <1>3, <1>4

\* A row of the iterator's is taken.
LEMMA TakenOK ==
  ASSUME NEW it, IsAggregator(it)
  PROVE  /\ IsAggregator(Taken(it))
         /\ \A rows : Gathered(it, rows) => Gathered(Taken(it), rows)
         /\ Taken(it).timestamp = it.timestamp /\ Taken(it).rows = it.rows
         /\ Taken(it).current = <<>> /\ Taken(it).closed = it.closed
<1>. DEFINE new == Taken(it)
<1>1. /\ DOMAIN new = DOMAIN it
      /\ new.collected = it.collected /\ new.wind = it.wind /\ new.rows = it.rows
      /\ new.timestamp = it.timestamp /\ new.current = <<>> /\ new.closed = it.closed
  BY DEF Taken, IsAggregator
<1>. HIDE DEF new
<1>2. IsAggregator(new) /\ \A rows : Gathered(it, rows) => Gathered(new, rows)
  BY <1>1 DEF IsAggregator, Gathered
<1>. QED
  BY <1>1, <1>2 DEF new

\* The aggregate that is made is that of the rows collected; there is none if the rows have
\* no number, or too few.
LEMMA AggregateOK ==
  ASSUME NEW it, NEW rows, Gathered(it, rows), IsFiniteSet(rows),
         NEW least, \A k \in Column : least[k] \in Nat \ {0}
  PROVE  LET out == aggregateCollectedData(it, least)
             summary == SummaryRow(it.timestamp, rows, least)
         IN  /\ out = <<>> => summary = NaNRow(it.timestamp)
             /\ out # <<>> => out = <<summary>> /\ summary # NaNRow(it.timestamp)
<1>. DEFINE t == it.timestamp
            value(k) == aggregateColumn(it, k, least)
            out == aggregateCollectedData(it, least)
            summary == SummaryRow(t, rows, least)
<1>1. \A k \in Column : it.collected[k] = Numbers(k, rows)
  BY DEF Gathered
<1>2. ASSUME NEW k \in Column
      PROVE  /\ value(k) = Summary(k, Numbers(k, rows), Windy(rows), least[k])
             /\ isValid(it, k, least) <=> value(k) \notin {NaN, Number({})}
  <2>. DEFINE S == Numbers(k, rows)
              c == Cardinality(S)
  <2>1. IsFiniteSet(S)
    <3>. DEFINE some == {row \in rows : row.data[k] # NaN \/ aggregation[k] = "AVERAGE_ZERO"}
                f == [row \in some |-> row.timestamp]
    <3>1. IsFiniteSet(some)
      BY FS_Subset
    <3>2. S = {f[row] : row \in some}
      BY DEF Numbers
    <3>. HIDE DEF some
    <3>3. DOMAIN f = some
      OBVIOUS
    <3>. HIDE DEF f, S
    <3>. QED
      BY <3>1, <3>2, <3>3, FiniteImage
  <2>2. c \in Nat /\ (c = 0 <=> S = {}) /\ least[k] \in Nat \ {0}
    BY <2>1, FS_CardinalityType, FS_EmptySet
  <2>3. it.collected[k] = S /\ it.wind = Windy(rows)
    BY <1>1 DEF Gathered
  <2>4. k \in Direction => aggregation[k] # "LAST"
    BY DEF Direction
  <2>. HIDE DEF S
  <2>5. value(k) = Summary(k, S, Windy(rows), least[k])
    BY <2>3, <2>4 DEF aggregateColumn, Summary
  <2>6. isValid(it, k, least) <=> c >= least[k] /\ (k \in Direction => Velocity # {} /\ Windy(rows) # {})
    BY <2>3 DEF isValid
  <2>7. c < least[k] => value(k) = NaN
    BY <2>3 DEF aggregateColumn
  <2>8. ASSUME ~(c < least[k])
        PROVE  isValid(it, k, least) <=> value(k) \notin {NaN, Number({})}
    <3>1. CASE k \in Direction
      <4>1. value(k) = IF Velocity = {} THEN NaN ELSE Number(Windy(rows))
        BY <2>3, <2>8, <3>1, <2>4 DEF aggregateColumn
      <4>. HIDE DEF c, value
      <4>. QED
        BY <2>2, <2>6, <2>8, <3>1, <4>1, Values
    <3>2. CASE k \notin Direction
      <4>1. value(k) = Number(S) \/ value(k) = Number({Max(S)})
        BY <2>3, <2>8, <3>2 DEF aggregateColumn
      <4>2. S # {} /\ {Max(S)} # {}
        BY <2>2, <2>8
      <4>3. value(k) \notin {NaN, Number({})}
        <5>. HIDE DEF value
        <5>. QED
          BY <4>1, <4>2, Values
      <4>. QED
        BY <2>2, <2>6, <2>8, <3>2, <4>3
    <3>. QED
      BY <3>1, <3>2
  <2>9. isValid(it, k, least) <=> value(k) \notin {NaN, Number({})}
    BY <2>2, <2>6, <2>7, <2>8
  <2>. QED
    BY <2>5, <2>9 DEF S
<1>3. [k \in Column |-> value(k)] = [k \in Column |-> Summary(k, Numbers(k, rows), Windy(rows), least[k])]
  BY <1>2
<1>4. summary = Row(t, [k \in Column |-> value(k)])
  BY <1>3 DEF SummaryRow
<1>5. out = IF \E k \in Column : isValid(it, k, least)
              THEN <<[timestamp |-> t, data |-> [k \in Column |-> value(k)]]>>
              ELSE <<>>
  BY DEF aggregateCollectedData
<1>. HIDE DEF value, out, summary
<1>6. CASE \E k \in Column : isValid(it, k, least)
  <2>1. PICK k \in Column : value(k) \notin {NaN, Number({})}
    BY <1>2, <1>6
  <2>2. summary = [timestamp |-> t, data |-> [j \in Column |-> value(j)]]
    BY <1>4, <2>1 DEF Row
  <2>3. summary.data[k] # NaNRow(t).data[k]
    BY <2>1, <2>2 DEF NaNRow
  <2>. QED
    BY <1>5, <1>6, <2>2, <2>3 DEF out, summary
<1>7. CASE ~(\E k \in Column : isValid(it, k, least))
  <2>1. summary = NaNRow(t)
    BY <1>2, <1>4, <1>7 DEF Row
  <2>. QED
    BY <1>5, <1>7, <2>1 DEF out, summary
<1>. QED
  BY <1>6, <1>7

\* Both aggregating iterators need at least one number for a column.
LEMMA LeastOK ==
  /\ \A k \in Column : HourLeast[k] \in Nat \ {0}
  /\ \A k \in Column : DayLeast[k] \in Nat \ {0}
BY PeriodAssumption DEF HourLeast, DayLeast

-----------------------------------------------------------------------------
(* The reference                                                           *)

\* Hours and days have a width.
LEMMA Widths == Hour \in Nat \ {0} /\ Day \in Nat \ {0}
BY PeriodAssumption

\* Times of rows are cut to hours and days.
LEMMA Calc ==
  /\ \A t : calcBaseAggregationTimestamp(t) = Cut(t, Hour)
  /\ \A t : calcDayTimestamp(t) = Cut(t, Day)
BY DEF Cut, calcBaseAggregationTimestamp, calcDayTimestamp

\* The rows a query reads, and its bounds.
LEMMA SourceFacts ==
  ASSUME QueryType, query.open
  PROVE  /\ Source \subseteq Nat /\ IsFiniteSet(Source)
         /\ Start # <<>> => Start[1] \in Times(Hour) /\ \A s \in Source : Start[1] <= s
         /\ End # <<>> => End[1] \in Times(Hour) /\ \A s \in Source : s <= End[1]
<1>1. IsFiniteSet(DOMAIN stored) /\ DOMAIN stored \subseteq Nat
  BY SeriesAssumption DEF QueryType
<1>2. Source \subseteq DOMAIN stored
  BY DEF Source
<1>3. IsFiniteSet(Source)
  BY <1>1, <1>2, FS_Subset
<1>4. ASSUME NEW b \in Bound, Align(b) # <<>>
      PROVE  Align(b)[1] \in Times(Hour)
  <2>1. b # <<>> /\ b[1] \in Nat
    BY <1>4, BoundAssumption DEF Align
  <2>2. Align(b)[1] = Cut(b[1], Hour)
    BY <2>1, Calc DEF Align
  <2>3. Cut(b[1], Hour) \in Times(Hour)
    BY <2>1, CutTimes, Widths
  <2>. QED
    BY <2>2, <2>3
<1>5. (Start # <<>> => Start[1] \in Times(Hour)) /\ (End # <<>> => End[1] \in Times(Hour))
  BY <1>4 DEF QueryType, Start, End
<1>. QED
  BY <1>1, <1>2, <1>3, <1>5 DEF Source

\* The rows of an hour make its aggregate.
LEMMA HourSummary ==
  ASSUME QueryType, query.open, NEW h \in Times(Hour)
  PROVE  HourRow(h) = SummaryRow(h, {RawRow(s) : s \in {s \in Source : calcBaseAggregationTimestamp(s) = h}},
                                 HourLeast)
<1>. DEFINE R == {s \in Source : calcBaseAggregationTimestamp(s) = h}
            rows == {RawRow(s) : s \in R}
<1>1. RowsOf(h, Hour) = R
  <2>1. ASSUME NEW s \in Source
        PROVE  h <= s /\ s < h + Hour <=> Cut(s, Hour) = h
    <3>1. s \in Nat
      BY SourceFacts
    <3>2. /\ Cut(s, Hour) <= s /\ s < Cut(s, Hour) + Hour
          /\ h <= s /\ s < h + Hour => Cut(s, Hour) = h
      BY <3>1, CutTimes, Widths
    <3>. QED
      BY <3>2
  <2>. QED
    BY <2>1, Calc DEF RowsOf
<1>2. \A s : /\ RawRow(s).timestamp = s
             /\ \A k \in Column : RawRow(s).data[k] # NaN <=> k \in stored[s]
  BY Values DEF RawRow
<1>. HIDE DEF R
<1>3. ASSUME NEW k \in Column
      PROVE  Numbers(k, rows) = {s \in R : k \in stored[s] \/ aggregation[k] = "AVERAGE_ZERO"}
  <2>1. \A x : x \in Numbers(k, rows) <=>
               \E row \in rows : (row.data[k] # NaN \/ aggregation[k] = "AVERAGE_ZERO") /\ x = row.timestamp
    BY DEF Numbers
  <2>2. \A row : row \in rows <=> \E s \in R : row = RawRow(s)
    OBVIOUS
  <2>. HIDE DEF rows
  <2>. QED
    BY <1>2, <2>1, <2>2
<1>4. Windy(rows) = {s \in R : Direction \cup Velocity \subseteq stored[s]}
  <2>1. \A s : (\A k \in Direction \cup Velocity : RawRow(s).data[k] # NaN)
                 <=> Direction \cup Velocity \subseteq stored[s]
    BY <1>2 DEF Direction, Velocity
  <2>. QED
    BY <1>2, <2>1 DEF Windy
<1>5. \A k \in Column : HourLeast[k] = 1
  BY DEF HourLeast
<1>6. HourRow(h) = Row(h, [k \in Column |->
                             Summary(k, {s \in R : k \in stored[s] \/ aggregation[k] = "AVERAGE_ZERO"},
                                     {s \in R : Direction \cup Velocity \subseteq stored[s]}, 1)])
  BY <1>1 DEF HourRow
<1>. HIDE DEF rows
<1>7. SummaryRow(h, rows, HourLeast)
        = Row(h, [k \in Column |->
                    Summary(k, {s \in R : k \in stored[s] \/ aggregation[k] = "AVERAGE_ZERO"},
                            {s \in R : Direction \cup Velocity \subseteq stored[s]}, 1)])
  BY <1>3, <1>4, <1>5 DEF SummaryRow
<1>. QED
  BY <1>6, <1>7 DEF R, rows

\* An hour without rows is an hour of NaN.
LEMMA EmptySummary ==
  ASSUME NEW t, NEW least, \A k \in Column : least[k] \in Nat \ {0}
  PROVE  SummaryRow(t, {}, least) = NaNRow(t)
<1>1. \A k \in Column : Numbers(k, {}) = {} /\ Windy({}) = {}
  BY DEF Numbers, Windy
<1>2. Cardinality({}) = 0
  BY FS_EmptySet
<1>3. \A k \in Column : Summary(k, {}, {}, least[k]) = NaN
  BY <1>2 DEF Summary
<1>. QED
  BY <1>1, <1>3 DEF SummaryRow, Row

\* The filled hours lie between the bounds; all others are NaN.
LEMMA FilledFacts ==
  ASSUME QueryType, query.open
  PROVE  /\ FilledHours \subseteq Times(Hour) /\ FilledHours \subseteq Nat /\ IsFiniteSet(FilledHours)
         /\ \A h \in FilledHours : /\ \E s \in Source : h = calcBaseAggregationTimestamp(s)
                                   /\ Start # <<>> => Start[1] <= h
                                   /\ End # <<>> => h <= End[1]
                                   /\ HourRow(h) # NaNRow(h)
         /\ \A h \in Times(Hour) : h \notin FilledHours => HourRow(h) = NaNRow(h)
         /\ \A h : HourRow(h).timestamp = h
<1>1. Source \subseteq Nat /\ IsFiniteSet(Source)
  BY SourceFacts
<1>2. \A s \in Source : Cut(s, Hour) \in Times(Hour) /\ Cut(s, Hour) \in Nat /\ Cut(s, Hour) <= s
  BY <1>1, CutTimes, Widths
<1>3. \A h \in FilledHours : HourRow(h) # NaNRow(h) /\ \E s \in Source : h = Cut(s, Hour)
  BY Calc DEF FilledHours
<1>4. IsFiniteSet(FilledHours)
  <2>. DEFINE f == [s \in Source |-> calcBaseAggregationTimestamp(s)]
              T == {f[s] : s \in DOMAIN f}
  <2>1. IsFiniteSet(DOMAIN f)
    BY <1>1
  <2>2. FilledHours \subseteq T
    BY DEF FilledHours
  <2>. HIDE DEF f
  <2>3. IsFiniteSet(T)
    BY <2>1, FiniteImage
  <2>. QED
    BY <2>2, <2>3, FS_Subset
<1>5. ASSUME NEW h \in FilledHours
      PROVE  (Start # <<>> => Start[1] <= h) /\ (End # <<>> => h <= End[1])
  <2>1. PICK s \in Source : h = Cut(s, Hour)
    BY <1>3
  <2>2. ASSUME Start # <<>>
        PROVE  Start[1] <= h
    <3>1. Start[1] \in Times(Hour) /\ Start[1] <= s
      BY <2>2, SourceFacts
    <3>2. Start[1] \in Nat /\ Cut(Start[1], Hour) = Start[1]
      BY <3>1, TimesApart, CutSelf, Widths
    <3>. QED
      BY <1>1, <2>1, <3>1, <3>2, CutMonotone, Widths
  <2>3. ASSUME End # <<>>
        PROVE  h <= End[1]
    <3>1. End[1] \in Times(Hour) /\ s <= End[1]
      BY <2>3, SourceFacts
    <3>2. End[1] \in Nat
      BY <3>1, TimesApart, Widths
    <3>3. h \in Nat /\ h <= s /\ s \in Nat
      BY <1>1, <1>2, <2>1
    <3>. QED
      BY <3>1, <3>2, <3>3
  <2>. QED
    BY <2>2, <2>3
<1>6. ASSUME NEW h \in Times(Hour), h \notin FilledHours
      PROVE  HourRow(h) = NaNRow(h)
  <2>1. CASE \E s \in Source : h = Cut(s, Hour)
    BY <1>6, <2>1, Calc DEF FilledHours
  <2>2. CASE ~(\E s \in Source : h = Cut(s, Hour))
    <3>1. {RawRow(s) : s \in {s \in Source : calcBaseAggregationTimestamp(s) = h}} = {}
      BY <2>2, Calc
    <3>. QED
      BY <3>1, HourSummary, EmptySummary, LeastOK
  <2>. QED
    BY <2>1, <2>2
<1>7. \A h : HourRow(h).timestamp = h
  <2>1. \A t, data : Row(t, data).timestamp = t
    BY DEF Row, NaNRow
  <2>. QED
    BY <2>1 DEF HourRow
<1>. QED
  BY <1>2, <1>3, <1>4, <1>5, <1>6, <1>7, Calc

LastHour == IF End = <<>> THEN Max(FilledHours) ELSE End[1]

\* The query has hours to deliver.
HasHours == ~NoHours /\ (End = <<>> => FilledHours # {}) /\ First <= LastHour

\* The hours of the reference, counted from the first.
LEMMA AllHoursShape ==
  ASSUME QueryType, query.open
  PROVE  /\ ~HasHours => AllHours = <<>>
         /\ ~NoHours => First \in Times(Hour)
         /\ HasHours =>
              /\ LastHour \in Times(Hour)
              /\ \E N \in Nat \ {0} :
                   /\ AllHours = [i \in 1 .. N |-> HourRow(First + ((i - 1) * Hour))]
                   /\ First + ((N - 1) * Hour) = LastHour
                   /\ \A n \in Nat : n < N <=> First + (n * Hour) <= LastHour
<1>. DEFINE first == IF Start = <<>> THEN FilledHours ELSE {Start[1]}
            last == IF End = <<>> THEN FilledHours ELSE {End[1]}
            Empty == (Start = <<>> /\ FilledHours = {}) \/ last = {} \/ Max(last) < Min(first)
            steps == Steps(Min(first), Max(last), Hour)
<1>1. \A x : Min({x}) = x \/ x \notin Int
  BY DEF Min
<1>2. \A x : Max({x}) = x \/ x \notin Int
  BY DEF Max
<1>3. Times(Hour) \subseteq Nat
  BY TimesApart, Widths
<1>4. (Start # <<>> => Start[1] \in Times(Hour)) /\ (End # <<>> => End[1] \in Times(Hour))
  BY SourceFacts
<1>5. FilledHours \subseteq Times(Hour)
      /\ (FilledHours # {} => Min(FilledHours) \in FilledHours /\ Max(FilledHours) \in FilledHours)
  BY FilledFacts, MinOfTimes, MaxOfTimes
<1>6. ~NoHours => Min(first) = First /\ First \in Times(Hour)
  BY <1>1, <1>3, <1>4, <1>5 DEF NoHours, First
<1>7. last # {} => Max(last) = LastHour /\ LastHour \in Times(Hour)
  BY <1>2, <1>3, <1>4, <1>5 DEF LastHour
<1>8. last = {} <=> End = <<>> /\ FilledHours = {}
  OBVIOUS
<1>9. Empty <=> ~HasHours
  <2>1. ~NoHours /\ last # {} => (Max(last) < Min(first) <=> ~(First <= LastHour))
    BY <1>3, <1>6, <1>7
  <2>. QED
    BY <1>8, <2>1 DEF NoHours, HasHours
<1>10. AllHours = IF Empty THEN <<>> ELSE [i \in DOMAIN steps |-> HourRow(steps[i])]
  BY DEF AllHours
<1>11. ASSUME HasHours
       PROVE  /\ LastHour \in Times(Hour)
              /\ \E N \in Nat \ {0} :
                   /\ AllHours = [i \in 1 .. N |-> HourRow(First + ((i - 1) * Hour))]
                   /\ First + ((N - 1) * Hour) = LastHour
                   /\ \A n \in Nat : n < N <=> First + (n * Hour) <= LastHour
  <2>. DEFINE N == ((LastHour - First) \div Hour) + 1
  <2>1. First \in Times(Hour) /\ LastHour \in Times(Hour) /\ First <= LastHour
    BY <1>6, <1>7, <1>8, <1>11 DEF HasHours
  <2>2. /\ N \in Nat \ {0}
        /\ First + ((N - 1) * Hour) = LastHour
        /\ \A n \in Nat : n < N <=> First + (n * Hour) <= LastHour
    BY <2>1, StepsCount, Widths
  <2>3. Min(first) = First /\ Max(last) = LastHour
    BY <1>6, <1>7, <1>8, <1>11 DEF HasHours
  <2>. HIDE DEF first, last
  <2>4. steps = [i \in 1 .. N |-> First + ((i - 1) * Hour)]
    BY <2>3 DEF Steps
  <2>. HIDE DEF steps, N
  <2>5. AllHours = [i \in 1 .. N |-> HourRow(First + ((i - 1) * Hour))]
    <3>1. AllHours = [i \in DOMAIN steps |-> HourRow(steps[i])]
      BY <1>9, <1>10, <1>11
    <3>. QED
      BY <2>4, <3>1
  <2>. QED
    BY <2>1, <2>2, <2>5
<1>. HIDE DEF Empty, steps
<1>. QED
  BY <1>6, <1>9, <1>10, <1>11

-----------------------------------------------------------------------------
(* BaseAggregationIterator                                                 *)

\* A query reads the same rows, and means the same, until it is closed.
LEMMA SameReference ==
  ASSUME UNCHANGED <<aggregation, stored, query>>
  PROVE  /\ QueryType => QueryType'
         /\ Start' = Start /\ End' = End /\ Source' = Source
         /\ HourLeast' = HourLeast /\ DayLeast' = DayLeast
         /\ \A t : RawRow(t)' = RawRow(t)
         /\ \A it, rows : Gathered(it, rows)' <=> Gathered(it, rows)
         /\ \A h : HourRow(h)' = HourRow(h)
         /\ FilledHours' = FilledHours
         /\ First' = First /\ (NoHours' <=> NoHours)
         /\ AllHours' = AllHours /\ AllDays' = AllDays
<1>1. /\ QueryType => QueryType'
      /\ Start' = Start /\ End' = End
      /\ HourLeast' = HourLeast /\ DayLeast' = DayLeast
      /\ Direction' = Direction /\ Velocity' = Velocity
  BY DEF QueryType, Start, End, HourLeast, DayLeast, Direction, Velocity
<1>2. Source' = Source
  BY <1>1 DEF Source
<1>3. \A t : RawRow(t)' = RawRow(t)
  BY DEF RawRow
<1>4. \A it, rows : Gathered(it, rows)' <=> Gathered(it, rows)
  <2>1. \A k, rows : Numbers(k, rows)' = Numbers(k, rows)
    BY DEF Numbers
  <2>2. \A rows : Windy(rows)' = Windy(rows)
    BY <1>1 DEF Windy
  <2>. QED
    BY <2>1, <2>2 DEF Gathered
<1>5. \A k, numbers, windy, least : Summary(k, numbers, windy, least)' = Summary(k, numbers, windy, least)
  BY <1>1 DEF Summary
<1>6. \A h : HourRow(h)' = HourRow(h)
  <2>1. \A t, w : RowsOf(t, w)' = RowsOf(t, w)
    BY <1>2 DEF RowsOf
  <2>. QED
    BY <1>1, <1>5, <2>1 DEF HourRow
<1>7. FilledHours' = FilledHours
  BY <1>2, <1>6 DEF FilledHours
<1>8. First' = First /\ (NoHours' <=> NoHours) /\ AllHours' = AllHours
  BY <1>1, <1>6, <1>7 DEF First, NoHours, AllHours
<1>9. AllDays' = AllDays
  <2>1. \A t, rows : DayOf(t, rows)' = DayOf(t, rows)
    BY <1>1, <1>5 DEF DayOf
  <2>. QED
    BY <1>8, <2>1 DEF AllDays
<1>. QED
  BY <1>1, <1>2, <1>3, <1>4, <1>6, <1>7, <1>8, <1>9

\* The open aggregate is of the hour of the last row read.
LEMMA PositionOK ==
  ASSUME QueryType, query.open, BaseInv
  PROVE  /\ position \in Int /\ base.timestamp \in Int
         /\ position = -1 => base.timestamp = -1
         /\ position # -1 => /\ position \in Source /\ position \in Nat
                             /\ base.timestamp = calcBaseAggregationTimestamp(position)
                             /\ base.timestamp \in Times(Hour) /\ base.timestamp \in Nat
<1>1. Source \subseteq Nat
  BY SourceFacts
<1>2. CASE position = -1
  BY <1>2 DEF BaseInv
<1>3. CASE position # -1
  <2>1. position \in Source /\ position \in Nat /\ base.timestamp = calcBaseAggregationTimestamp(position)
    BY <1>1, <1>3 DEF BaseInv
  <2>2. Cut(position, Hour) \in Times(Hour) /\ Cut(position, Hour) \in Nat
    BY <2>1, CutTimes, Widths
  <2>. QED
    BY <1>3, <2>1, <2>2, Calc
<1>. QED
  BY <1>2, <1>3

\* The aggregate of an hour that is through is the row of that hour, if the hour is filled.
LEMMA HourDone ==
  ASSUME QueryType, query.open, BaseInv, ~Drained, position \in Source,
         \A s \in Left : calcBaseAggregationTimestamp(s) > base.timestamp
  PROVE  LET out == aggregateCollectedData(base, HourLeast)
         IN  IF base.timestamp \in FilledHours THEN out = <<HourRow(base.timestamp)>> ELSE out = <<>>
<1>. DEFINE t == base.timestamp
            rows == {RawRow(s) : s \in Read}
            out == aggregateCollectedData(base, HourLeast)
<1>1. /\ Source \subseteq Nat /\ IsFiniteSet(Source)
      /\ t = calcBaseAggregationTimestamp(position) /\ t \in Times(Hour) /\ t \in Nat
  <2>1. Source \subseteq Nat /\ IsFiniteSet(Source)
    BY SourceFacts
  <2>2. position # -1
    BY <2>1
  <2>. QED
    BY <2>1, <2>2, PositionOK
<1>2. Read = {s \in Source : calcBaseAggregationTimestamp(s) = t}
  <2>1. \A s \in Source : s <= position \/ s \in Left
    BY <1>1 DEF Left
  <2>2. \A s \in Left : calcBaseAggregationTimestamp(s) # t
    BY <1>1
  <2>. QED
    BY <2>1, <2>2 DEF Read
<1>3. HourRow(t) = SummaryRow(t, rows, HourLeast)
  BY <1>1, <1>2, HourSummary
<1>4. Gathered(base, rows)
  BY DEF BaseInv
<1>5. IsFiniteSet(rows)
  <2>. DEFINE f == [s \in Read |-> RawRow(s)]
  <2>1. IsFiniteSet(DOMAIN f)
    BY <1>1, FS_Subset DEF Read
  <2>2. rows = {f[s] : s \in DOMAIN f}
    OBVIOUS
  <2>. HIDE DEF f, rows
  <2>. QED
    BY <2>1, <2>2, FiniteImage
<1>. HIDE DEF rows
<1>6. /\ out = <<>> => HourRow(t) = NaNRow(t)
      /\ out # <<>> => out = <<HourRow(t)>> /\ HourRow(t) # NaNRow(t)
  BY <1>3, <1>4, <1>5, AggregateOK, LeastOK
<1>. HIDE DEF out
<1>7. t \in FilledHours <=> HourRow(t) # NaNRow(t)
  BY <1>1, FilledFacts
<1>. QED
  BY <1>6, <1>7 DEF out

\* A row is read: the iterator still has the same hours to deliver.
LEMMA BaseRowOK ==
  ASSUME QueryType, query.open, BaseInv, BaseRow
  PROVE  BaseInv' /\ Rest' = Rest
<1>. DEFINE p == Min(Left)
            period == calcBaseAggregationTimestamp(p)
            t == base.timestamp
            rows == {RawRow(s) : s \in Read}
            out == aggregateCollectedData(base, HourLeast)
<1>1. /\ Source \subseteq Nat /\ IsFiniteSet(Source)
      /\ UNCHANGED <<aggregation, stored, query>>
      /\ base.current = <<>> /\ ~base.closed /\ Left # {}
      /\ position' = p /\ base' = ReadRow(base, RawRow(p), period, out)
  BY SourceFacts DEF BaseRow, Wanting
<1>2. /\ p \in Left /\ p \in Nat /\ p \in Source /\ position < p
      /\ \A s \in Left : p <= s
      /\ \A s \in Source : s <= position \/ s \in Left
      /\ position \in Int
  <2>1. position \in Int
    BY PositionOK
  <2>2. Left \subseteq Source /\ IsFiniteSet(Left) /\ Left \subseteq Nat
    BY <1>1, FS_Subset DEF Left
  <2>3. p \in Left /\ p \in Nat /\ \A s \in Left : p <= s
    BY <1>1, <2>2, MinOfTimes
  <2>. HIDE DEF p
  <2>. QED
    BY <1>1, <2>1, <2>2, <2>3 DEF Left
<1>. HIDE DEF p
<1>3. /\ \A s \in Nat : calcBaseAggregationTimestamp(s) \in Nat
      /\ \A s, u \in Nat : s <= u => calcBaseAggregationTimestamp(s) <= calcBaseAggregationTimestamp(u)
  BY CutTimes, CutMonotone, Widths, Calc
<1>4. /\ period \in Nat /\ t \in Int /\ t <= period
      /\ position = -1 => t = -1
      /\ position # -1 => position \in Source /\ position \in Nat /\ t = calcBaseAggregationTimestamp(position)
      /\ \A s \in Left : calcBaseAggregationTimestamp(s) \in Nat /\ period <= calcBaseAggregationTimestamp(s)
  <2>1. /\ t \in Int
        /\ position = -1 => t = -1
        /\ position # -1 => position \in Source /\ position \in Nat /\ t = calcBaseAggregationTimestamp(position)
    BY PositionOK
  <2>2. period \in Nat
    BY <1>2, <1>3
  <2>3. \A s \in Left : calcBaseAggregationTimestamp(s) \in Nat /\ period <= calcBaseAggregationTimestamp(s)
    BY <1>1, <1>2, <1>3 DEF Left
  <2>. HIDE DEF t
  <2>4. t <= period
    <3>1. CASE position = -1
      BY <2>1, <2>2, <3>1
    <3>2. CASE position # -1
      BY <1>2, <1>3, <2>1, <3>2
    <3>. QED
      BY <3>1, <3>2
  <2>. QED
    BY <2>1, <2>2, <2>3, <2>4
<1>5. ~Drained /\ Gathered(base, rows) /\ IsAggregator(base)
  BY <1>1 DEF BaseInv, Drained
<1>. HIDE DEF period, rows, out
<1>6. /\ IsAggregator(base') /\ base'.closed = base.closed /\ base'.rows > 0
      /\ period > t =>
           /\ base'.timestamp = period /\ Gathered(base', {RawRow(p)})
           /\ t > -1 => base'.current = out
           /\ ~(t > -1) => base'.current = <<>>
      /\ ~(period > t) =>
           /\ base'.timestamp = t /\ Gathered(base', rows \cup {RawRow(p)})
           /\ base'.current = base.current
  <2>1. period \in Int
    BY <1>4
  <2>2. base' = ReadRow(base, RawRow(p), period, out)
    BY <1>1
  <2>3. IsAggregator(base) /\ Gathered(base, rows)
    BY <1>5
  <2>4. /\ IsAggregator(base') /\ base'.closed = base.closed /\ base'.rows > 0
        /\ period > t =>
             /\ base'.timestamp = period
             /\ t > -1 => base'.current = out
             /\ ~(t > -1) => base'.current = <<>>
        /\ ~(period > t) =>
             /\ base'.timestamp = t
             /\ base'.current = base.current
    BY <2>1, <2>2, <2>3, ReadRowOK
  <2>5. period > t => Gathered(base', {RawRow(p)})
    BY <2>1, <2>2, <2>3, ReadRowOpens
  <2>6. ~(period > t) => Gathered(base', rows \cup {RawRow(p)})
    BY <2>2, <2>3, ReadRowJoins
  <2>. QED
    BY <2>4, <2>5, <2>6
<1>7. base'.timestamp = period
  BY <1>4, <1>6
<1>8. ~Drained' /\ Coming' = {h \in FilledHours : h >= period}
  <2>1. ~Drained'
    BY <1>6 DEF Drained
  <2>. QED
    BY <1>1, <1>7, <2>1, SameReference DEF Coming
<1>9. Gathered(base, {RawRow(s) : s \in Read})'
  <2>1. Read' = {s \in Source : calcBaseAggregationTimestamp(s) = period /\ s <= p}
    BY <1>1, <1>7, SameReference DEF Read
  <2>2. CASE period > t
    <3>1. ASSUME NEW s \in Source, calcBaseAggregationTimestamp(s) = period, s <= p
          PROVE  s = p
      <4>1. CASE s \in Left
        BY <1>1, <1>2, <3>1, <4>1
      <4>2. CASE s <= position
        <5>1. position # -1
          BY <1>1, <4>2
        <5>2. calcBaseAggregationTimestamp(s) <= t
          BY <1>1, <1>3, <1>4, <4>2, <5>1
        <5>. QED
          BY <1>4, <2>2, <3>1, <5>2
      <4>. QED
        BY <1>2, <4>1, <4>2
    <3>2. Read' = {p}
      BY <1>2, <2>1, <3>1 DEF period
    <3>3. {RawRow(s) : s \in {p}} = {RawRow(p)}
      OBVIOUS
    <3>. QED
      BY <1>1, <1>6, <2>2, <3>2, <3>3, SameReference
  <2>3. CASE ~(period > t)
    <3>1. period = t
      BY <1>4, <2>3
    <3>2. Read' = Read \cup {p}
      <4>1. \A s \in Source : s <= p <=> (s <= position \/ s = p)
        BY <1>1, <1>2
      <4>. QED
        BY <1>2, <2>1, <3>1, <4>1 DEF Read, period
    <3>3. {RawRow(s) : s \in Read \cup {p}} = rows \cup {RawRow(p)}
      BY DEF rows
    <3>. QED
      BY <1>1, <1>6, <2>3, <3>2, <3>3, SameReference
  <2>. QED
    BY <2>2, <2>3
<1>10. /\ base'.current # <<>> =>
            \E h \in FilledHours : base'.current = <<HourRow(h)>> /\ \A c \in Coming' : h < c
       /\ Rest' = Rest
  <2>1. Coming = {h \in FilledHours : h >= t} /\ Rest = Coming
    BY <1>1, <1>5 DEF Coming, Rest
  <2>2. FilledHours \subseteq Nat /\ \A h : HourRow(h).timestamp = h
    BY FilledFacts
  <2>3. \A h \in FilledHours : h > t => h >= period
    <3>1. SUFFICES ASSUME NEW h \in FilledHours, h > t
                   PROVE  h >= period
      OBVIOUS
    <3>2. PICK s \in Source : h = calcBaseAggregationTimestamp(s)
      BY FilledFacts
    <3>3. CASE s \in Left
      BY <1>3, <1>4, <2>2, <3>2, <3>3
    <3>4. CASE s <= position
      <4>1. position # -1
        BY <1>1, <3>4
      <4>2. h <= t
        BY <1>1, <1>3, <1>4, <3>2, <3>4, <4>1
      <4>. QED
        BY <1>4, <2>2, <3>1, <4>2
    <3>. QED
      BY <1>2, <3>3, <3>4
  <2>4. CASE period > t /\ t > -1
    <3>1. position \in Source
      BY <1>4, <2>4
    <3>2. \A s \in Left : calcBaseAggregationTimestamp(s) > t
      BY <1>4, <2>4
    <3>3. IF t \in FilledHours THEN out = <<HourRow(t)>> ELSE out = <<>>
      BY <1>5, <3>1, <3>2, HourDone DEF out
    <3>4. base'.current = out
      BY <1>6, <2>4
    <3>5. Coming = Coming' \cup (IF t \in FilledHours THEN {t} ELSE {})
      <4>1. \A h \in FilledHours : h >= t <=> h >= period \/ h = t
        BY <1>4, <2>2, <2>3, <2>4
      <4>. QED
        BY <1>8, <2>1, <4>1
    <3>6. CASE t \in FilledHours
      <4>1. base'.current = <<HourRow(t)>> /\ base'.current # <<>> /\ base'.current[1].timestamp = t
        BY <2>2, <3>3, <3>4, <3>6
      <4>2. \A c \in Coming' : t < c
        BY <1>4, <1>8, <2>2, <2>4
      <4>3. Rest' = Rest
        BY <2>1, <3>5, <3>6, <4>1 DEF Rest
      <4>. QED
        BY <3>6, <4>1, <4>2, <4>3
    <3>7. CASE t \notin FilledHours
      BY <2>1, <3>3, <3>4, <3>5, <3>7 DEF Rest
    <3>. QED
      BY <3>6, <3>7
  <2>5. CASE ~(period > t /\ t > -1)
    <3>1. base'.current = <<>>
      BY <1>1, <1>6, <2>5
    <3>2. Coming' = Coming
      <4>1. \A h \in FilledHours : h >= t <=> h >= period
        BY <1>4, <2>2, <2>3, <2>5
      <4>. QED
        BY <1>8, <2>1, <4>1
    <3>. QED
      BY <2>1, <3>1, <3>2 DEF Rest
  <2>. QED
    BY <2>4, <2>5
<1>11. BaseInv'
  <2>1. position' \in Source' /\ position' # -1
    BY <1>1, <1>2, SameReference
  <2>2. base'.timestamp = calcBaseAggregationTimestamp(position')
    BY <1>1, <1>7 DEF period
  <2>3. base'.current # <<>> =>
          \E h \in FilledHours' : base'.current = <<HourRow(h)'>> /\ \A c \in Coming' : h < c
    BY <1>1, <1>10, SameReference
  <2>. QED
    BY <1>1, <1>6, <1>8, <1>9, <2>1, <2>2, <2>3 DEF BaseInv
<1>. QED
  BY <1>10, <1>11


\* The rows are through: the last aggregate is the row of the last filled hour.
LEMMA BaseEndOK ==
  ASSUME QueryType, query.open, BaseInv, BaseEnd
  PROVE  BaseInv' /\ Rest' = Rest
<1>. DEFINE t == base.timestamp
            rows == {RawRow(s) : s \in Read}
            out == aggregateCollectedData(base, HourLeast)
<1>1. /\ UNCHANGED <<aggregation, stored, query, position>>
      /\ base.current = <<>> /\ Left = {}
      /\ base' = ReadEnd(base, out)
  BY DEF BaseEnd, Wanting
<1>2. /\ Source \subseteq Nat
      /\ \A s \in Source : s <= position
      /\ position \in Int
  <2>1. Source \subseteq Nat /\ position \in Int
    BY SourceFacts, PositionOK
  <2>. QED
    BY <1>1, <2>1 DEF Left
<1>3. IsAggregator(base)
  BY DEF BaseInv
<1>. HIDE DEF out
<1>4. /\ IsAggregator(base') /\ Gathered(base', {}) /\ base'.rows = 0
      /\ base'.timestamp = t /\ base'.current = out /\ base'.closed = (out = <<>>)
  BY <1>1, <1>3, ReadEndOK
<1>5. /\ Left' = {} /\ position' = position /\ Source' = Source /\ FilledHours' = FilledHours
      /\ \A h : HourRow(h)' = HourRow(h)
  <2>1. Source' = Source /\ FilledHours' = FilledHours /\ \A h : HourRow(h)' = HourRow(h)
    BY <1>1, SameReference
  <2>. QED
    BY <1>1, <2>1 DEF Left
<1>6. Drained' /\ Coming' = {}
  BY <1>4, <1>5 DEF Drained, Coming
<1>7. Gathered(base, {})' 
  <2>1. \A it, x : Gathered(it, x)' <=> Gathered(it, x)
    BY <1>1, SameReference
  <2>. QED
    BY <1>4, <2>1
<1>8. Coming = (IF out = <<>> THEN {} ELSE {t}) /\ (out # <<>> => t \in FilledHours /\ out = <<HourRow(t)>>)
  <2>1. CASE Drained
    <3>1. Gathered(base, {}) /\ Coming = {}
      BY <2>1 DEF BaseInv, Coming
    <3>2. IsFiniteSet({})
      BY FS_EmptySet
    <3>3. out # <<>> => SummaryRow(t, {}, HourLeast) # NaNRow(t)
      BY <3>1, <3>2, AggregateOK, LeastOK DEF out
    <3>4. out = <<>>
      BY <3>3, EmptySummary, LeastOK
    <3>. QED
      BY <3>1, <3>4
  <2>2. CASE ~Drained
    <3>1. Gathered(base, rows) /\ base.rows > 0
      BY <1>1, <1>3, <2>2 DEF BaseInv, Drained, IsAggregator
    <3>2. Read # {}
      <4>1. rows # {}
        BY <3>1 DEF Gathered
      <4>. QED
        BY <4>1
    <3>3. position # -1
      <4>1. PICK s \in Source : s <= position
        BY <3>2 DEF Read
      <4>2. s \in Nat /\ s <= position
        BY <1>2, <4>1
      <4>. QED
        BY <1>2, <4>2
    <3>4. position \in Source /\ t = calcBaseAggregationTimestamp(position)
      BY <3>3, PositionOK
    <3>5. IF t \in FilledHours THEN out = <<HourRow(t)>> ELSE out = <<>>
      BY <1>1, <2>2, <3>4, HourDone DEF out
    <3>6. \A h \in FilledHours : h <= t
      <4>1. SUFFICES ASSUME NEW h \in FilledHours
                     PROVE  h <= t
        OBVIOUS
      <4>2. PICK s \in Source : h = calcBaseAggregationTimestamp(s)
        BY FilledFacts
      <4>. QED
        BY <1>2, <3>4, <4>2, CutMonotone, Widths, Calc
    <3>7. Coming = {h \in FilledHours : h >= t}
      BY <2>2 DEF Coming
    <3>8. FilledHours \subseteq Nat /\ t \in Nat
      BY <3>3, FilledFacts, PositionOK
    <3>9. \A h \in FilledHours : h >= t <=> h = t
      BY <3>6, <3>8
    <3>10. CASE t \in FilledHours
      <4>1. Coming = {t}
        BY <3>7, <3>9, <3>10
      <4>. QED
        BY <3>5, <3>10, <4>1
    <3>11. CASE t \notin FilledHours
      <4>1. Coming = {}
        BY <3>7, <3>9, <3>11
      <4>. QED
        BY <3>5, <3>11, <4>1
    <3>. QED
      BY <3>10, <3>11
  <2>. QED
    BY <2>1, <2>2
<1>9. Rest' = Rest
  <2>1. Rest = Coming
    BY <1>1 DEF Rest
  <2>2. out # <<>> => out[1].timestamp = t
    BY <1>8, FilledFacts
  <2>3. Rest' = IF out = <<>> THEN {} ELSE {out[1].timestamp}
    BY <1>4, <1>6 DEF Rest
  <2>. QED
    BY <1>8, <2>1, <2>2, <2>3
<1>10. BaseInv'
  <2>1. base'.current # <<>> =>
          \E h \in FilledHours' : base'.current = <<HourRow(h)'>> /\ \A c \in Coming' : h < c
    BY <1>4, <1>5, <1>6, <1>8
  <2>2. position' = -1 \/ position' \in Source'
    BY <1>5 DEF BaseInv
  <2>3. base'.timestamp = IF position' = -1 THEN -1 ELSE calcBaseAggregationTimestamp(position')
    BY <1>4, <1>5 DEF BaseInv
  <2>4. base'.closed => Drained'
    BY <1>6
  <2>. QED
    BY <1>4, <1>6, <1>7, <2>1, <2>2, <2>3, <2>4 DEF BaseInv
<1>. QED
  BY <1>9, <1>10

\* A row of the base iterator is taken, or it has none.
LEMMA TakeBase ==
  ASSUME QueryType, query.open, BaseInv, Settled(base),
         UNCHANGED <<aggregation, stored, query, position>>, base' = Taken(base)
  PROVE  /\ BaseInv' /\ Rest' = Coming
         /\ base.current = <<>> => Coming = {} /\ Rest = {}
         /\ base.current # <<>> =>
              \E h \in FilledHours : /\ base.current = <<HourRow(h)>>
                                     /\ Rest = Coming \cup {h}
                                     /\ \A c \in Coming : h < c
<1>1. /\ Source' = Source /\ FilledHours' = FilledHours /\ Left' = Left
      /\ \A s : RawRow(s)' = RawRow(s)
      /\ \A it, x : Gathered(it, x)' <=> Gathered(it, x)
  <2>1. /\ Source' = Source /\ FilledHours' = FilledHours
        /\ \A s : RawRow(s)' = RawRow(s)
        /\ \A it, x : Gathered(it, x)' <=> Gathered(it, x)
    BY SameReference
  <2>. QED
    BY <2>1 DEF Left
<1>2. /\ IsAggregator(base') /\ \A x : Gathered(base, x) => Gathered(base', x)
      /\ base'.timestamp = base.timestamp /\ base'.rows = base.rows
      /\ base'.current = <<>> /\ base'.closed = base.closed
  BY TakenOK DEF BaseInv
<1>3. (Drained' <=> Drained) /\ Coming' = Coming
  BY <1>1, <1>2 DEF Drained, Coming
<1>4. Read' = Read
  BY <1>1, <1>2 DEF Read
<1>5. {RawRow(s)' : s \in Read'} = {RawRow(s) : s \in Read}
  BY <1>1, <1>4
<1>6. BaseInv'
  <2>1. Drained' \/ Gathered(base, {RawRow(s) : s \in Read})'
    BY <1>1, <1>2, <1>3, <1>5 DEF BaseInv
  <2>2. Drained' => Gathered(base, {})'
    BY <1>1, <1>2, <1>3 DEF BaseInv
  <2>3. position' = -1 \/ position' \in Source'
    BY <1>1 DEF BaseInv
  <2>4. base'.timestamp = IF position' = -1 THEN -1 ELSE calcBaseAggregationTimestamp(position')
    BY <1>2 DEF BaseInv
  <2>5. base'.closed => Drained'
    BY <1>2, <1>3 DEF BaseInv
  <2>. QED
    BY <1>2, <2>1, <2>2, <2>3, <2>4, <2>5 DEF BaseInv
<1>7. Rest' = Coming
  BY <1>2, <1>3 DEF Rest
<1>8. base.current = <<>> => Coming = {} /\ Rest = {}
  BY DEF BaseInv, Settled, Wanting, Coming, Rest
<1>9. ASSUME base.current # <<>>
      PROVE  \E h \in FilledHours : /\ base.current = <<HourRow(h)>>
                                    /\ Rest = Coming \cup {h}
                                    /\ \A c \in Coming : h < c
  <2>1. PICK h \in FilledHours : base.current = <<HourRow(h)>> /\ \A c \in Coming : h < c
    BY <1>9 DEF BaseInv
  <2>2. HourRow(h).timestamp = h
    BY FilledFacts
  <2>3. Rest = Coming \cup {h}
    BY <1>9, <2>1, <2>2 DEF Rest
  <2>. QED
    BY <2>1, <2>3
<1>. QED
  BY <1>6, <1>7, <1>8, <1>9

\* A step of another iterator leaves the base iterator alone.
LEMMA SameBase ==
  ASSUME UNCHANGED <<aggregation, stored, query, position, base>>
  PROVE  (BaseInv => BaseInv') /\ Rest' = Rest
<1>1. /\ Source' = Source /\ FilledHours' = FilledHours /\ Left' = Left
      /\ \A s : RawRow(s)' = RawRow(s) /\ HourRow(s)' = HourRow(s)
      /\ \A it, x : Gathered(it, x)' <=> Gathered(it, x)
  <2>1. /\ Source' = Source /\ FilledHours' = FilledHours
        /\ \A s : RawRow(s)' = RawRow(s) /\ HourRow(s)' = HourRow(s)
        /\ \A it, x : Gathered(it, x)' <=> Gathered(it, x)
    BY SameReference
  <2>. QED
    BY <2>1 DEF Left
<1>2. (Drained' <=> Drained) /\ Coming' = Coming /\ Rest' = Rest /\ Read' = Read
  BY <1>1 DEF Drained, Coming, Rest, Read
<1>3. {RawRow(s)' : s \in Read'} = {RawRow(s) : s \in Read}
  BY <1>1, <1>2
<1>4. ASSUME BaseInv
      PROVE  BaseInv'
  <2>1. Drained' \/ Gathered(base, {RawRow(s) : s \in Read})'
    BY <1>1, <1>2, <1>3, <1>4 DEF BaseInv
  <2>2. Drained' => Gathered(base, {})'
    BY <1>1, <1>2, <1>4 DEF BaseInv
  <2>3. base'.current # <<>> =>
          \E h \in FilledHours' : base'.current = <<HourRow(h)'>> /\ \A c \in Coming' : h < c
    BY <1>1, <1>2, <1>4 DEF BaseInv
  <2>. QED
    BY <1>1, <1>2, <1>4, <2>1, <2>2, <2>3 DEF BaseInv
<1>. QED
  BY <1>2, <1>4

-----------------------------------------------------------------------------
(* NanGapIterator                                                          *)

\* The hour after the first n ones.
LEMMA HourAt ==
  ASSUME QueryType, query.open, ~NoHours, NEW n \in Nat, NEW t, t = First + (n * Hour)
  PROVE  /\ t \in Times(Hour) /\ t \in Nat /\ First \in Nat /\ First <= t
         /\ Len(AllHours) \in Nat
         /\ HasHours /\ t <= LastHour => n < Len(AllHours) /\ AllHours[n + 1] = HourRow(t)
         /\ ~(HasHours /\ t <= LastHour) => Len(AllHours) <= n
<1>1. First \in Times(Hour)
  BY AllHoursShape
<1>2. t \in Times(Hour) /\ t \in Nat /\ First \in Nat
  BY <1>1, TimesApart, Widths
<1>3. First <= t
  <2>1. n * Hour \in Nat
    BY Widths
  <2>. QED
    BY <1>2, <2>1
<1>4. CASE ~HasHours
  <2>1. AllHours = <<>>
    BY <1>4, AllHoursShape
  <2>2. Len(AllHours) = 0
    BY <2>1
  <2>. QED
    BY <1>2, <1>3, <1>4, <2>2
<1>5. CASE HasHours
  <2>1. PICK N \in Nat \ {0} :
          /\ AllHours = [i \in 1 .. N |-> HourRow(First + ((i - 1) * Hour))]
          /\ First + ((N - 1) * Hour) = LastHour
          /\ \A k \in Nat : k < N <=> First + (k * Hour) <= LastHour
    BY <1>5, AllHoursShape
  <2>2. Len(AllHours) = N
    BY <2>1
  <2>3. n < N <=> t <= LastHour
    BY <2>1
  <2>4. ASSUME n < N
        PROVE  AllHours[n + 1] = HourRow(t)
    <3>1. n + 1 \in 1 .. N /\ (n + 1) - 1 = n
      BY <2>4
    <3>. QED
      BY <2>1, <3>1
  <2>. QED
    BY <1>2, <1>3, <1>5, <2>2, <2>3, <2>4
<1>. QED
  BY <1>4, <1>5

\* The iterator fills an hour.
LEMMA FillOK ==
  ASSUME NEW g, IsGap(g), NEW new, new = Fill(g)
  PROVE  /\ IsGap(new) /\ new.current = <<NaNRow(g.timestamp)>> /\ new.timestamp = g.timestamp + Hour
         /\ new.opened = g.opened /\ new.failed = g.failed /\ new.next = g.next /\ new.end = g.end
         /\ new.closed = g.closed
BY Widths DEF Fill, IsGap

\* The iterator ends.
LEMMA FinishOK ==
  ASSUME NEW g, IsGap(g), NEW new, new = Finish(g)
  PROVE  /\ IsGap(new) /\ new.current = g.current /\ new.timestamp = g.timestamp
         /\ new.opened = g.opened /\ new.failed = g.failed /\ new.next = <<>> /\ new.end = g.end
         /\ new.closed
BY DEF Finish, IsGap

\* The iterator gives the row at hand, which n replaces.
Deliver(g, n) == [g EXCEPT !.current = g.next, !.timestamp = @ + Hour, !.next = n]

\* The row at hand is given, and replaced.
LEMMA DeliverOK ==
  ASSUME NEW g, IsGap(g), NEW n, NEW new, new = Deliver(g, n)
  PROVE  /\ IsGap(new) /\ new.current = g.next /\ new.timestamp = g.timestamp + Hour
         /\ new.opened = g.opened /\ new.failed = g.failed /\ new.next = n /\ new.end = g.end
         /\ new.closed = g.closed
BY Widths DEF Deliver, IsGap

\* An iterator that is not opened has no rows.
LEMMA NoGapOK ==
  /\ IsGap(NoGap) /\ ~NoGap.opened /\ ~NoGap.failed /\ ~NoGap.closed
  /\ NoGap.next = <<>> /\ NoGap.current = <<>> /\ NoGap.end = <<>>
BY DEF NoGap, IsGap

\* There are finitely many hours, and those taken are counted.
LEMMA LenHours ==
  ASSUME QueryType, query.open, GapInv
  PROVE  Len(AllHours) \in Nat /\ Len(hours) \in Nat
<1>1. Len(AllHours) \in Nat
  <2>1. CASE ~HasHours
    <3>1. AllHours = <<>>
      BY <2>1, AllHoursShape
    <3>. QED
      BY <3>1
  <2>2. CASE HasHours
    BY <2>2, AllHoursShape
  <2>. QED
    BY <2>1, <2>2
<1>2. Len(hours) \in Nat
  BY DEF GapInv, HoursGiven
<1>. QED
  BY <1>1, <1>2

\* The constructor: the first hour is that of the query or the first filled one.
LEMMA GapOpenOK ==
  ASSUME QueryType, query.open, BaseInv, GapInv, GapOpen
  PROVE  BaseInv' /\ GapInv'
<1>1. /\ UNCHANGED <<aggregation, stored, query, position, hours>>
      /\ Settled(base) /\ ~gap.opened
  BY DEF GapOpen
<1>2. gap = NoGap /\ Rest = FilledHours /\ hours = <<>>
  BY <1>1 DEF GapInv, Unopened
<1>3. /\ IsGap(gap) /\ ~gap.failed /\ ~gap.closed /\ gap.next = <<>> /\ gap.current = <<>>
  BY <1>2, NoGapOK
<1>4. /\ Start' = Start /\ End' = End /\ FilledHours' = FilledHours /\ First' = First
      /\ (NoHours' <=> NoHours) /\ AllHours' = AllHours /\ \A h : HourRow(h)' = HourRow(h)
  BY <1>1, SameReference
<1>5. /\ FilledHours \subseteq Nat
      /\ \A h \in FilledHours : Start # <<>> => Start[1] <= h
      /\ \A h : HourRow(h).timestamp = h
  BY FilledFacts
<1>6. Len(AllHours) \in Nat
  <2>1. CASE NoHours
    <3>1. AllHours = <<>>
      BY <2>1, AllHoursShape DEF HasHours
    <3>. QED
      BY <3>1
  <2>2. CASE ~NoHours
    <3>1. First + (0 * Hour) = First + (0 * Hour)
      OBVIOUS
    <3>. QED
      BY <2>2, <3>1, HourAt
  <2>. QED
    BY <2>1, <2>2
<1>7. ~NoHours => First \in Nat
  <2>1. ~NoHours => First \in Times(Hour)
    BY AllHoursShape
  <2>. QED
    BY <2>1, TimesApart, Widths
<1>8. SUFFICES ASSUME IsGap(gap'), gap'.opened, ~gap'.failed, ~gap'.closed, gap'.current = <<>>,
                      BaseInv', 
                      NoHours => gap'.next = <<>> /\ gap'.timestamp = -100 /\ gap'.end = <<-200>>,
                      ~NoHours => gap'.end = End /\ gap'.timestamp = First,
                      NextRow'
               PROVE  GapInv'
  <2>1. CASE base.current = <<>>
    <3>1. /\ base' = base
          /\ gap' = [gap EXCEPT !.opened = TRUE,
                                !.timestamp = IF Start = <<>> THEN -100 ELSE Start[1],
                                !.end = IF Start = <<>> THEN <<-200>> ELSE End]
      BY <2>1 DEF GapOpen
    <3>2. BaseInv' /\ Rest' = Rest
      BY <1>1, <3>1, SameBase
    <3>3. FilledHours = {}
      BY <1>1, <1>2, <2>1 DEF BaseInv, Settled, Wanting, Coming, Rest
    <3>4. Start # <<>> => Start[1] = First /\ First \in Int
      BY <1>7 DEF First, NoHours
    <3>5. /\ IsGap(gap') /\ gap'.opened /\ ~gap'.failed /\ ~gap'.closed /\ gap'.current = <<>>
          /\ gap'.next = <<>>
          /\ Start = <<>> => gap'.timestamp = -100 /\ gap'.end = <<-200>>
          /\ Start # <<>> => gap'.timestamp = First /\ gap'.end = End
      BY <1>3, <3>1, <3>4 DEF IsGap
    <3>6. NextRow'
      BY <1>2, <1>4, <3>2, <3>3, <3>5 DEF NextRow
    <3>. QED
      BY <1>8, <3>2, <3>3, <3>5, <3>6 DEF NoHours
  <2>2. CASE base.current # <<>>
    <3>1. base' = Taken(base)
      BY <2>2 DEF GapOpen
    <3>2. BaseInv' /\ Rest' = Coming
      BY <1>1, <3>1, TakeBase
    <3>3. PICK h \in FilledHours : /\ base.current = <<HourRow(h)>>
                                   /\ Rest = Coming \cup {h}
                                   /\ \A c \in Coming : h < c
      BY <1>1, <2>2, <3>1, TakeBase
    <3>4. base.current[1].timestamp = h /\ h \in Nat
      BY <1>5, <3>3
    <3>5. ~(Start # <<>> /\ base.current[1].timestamp < Start[1])
      <4>1. Start # <<>> => Start[1] \in Nat
        BY SourceFacts, TimesApart, Widths
      <4>. QED
        BY <1>5, <3>4, <4>1
    <3>6. gap' = [gap EXCEPT !.opened = TRUE,
                             !.timestamp = IF Start = <<>> THEN h ELSE Start[1],
                             !.next = base.current,
                             !.end = End]
      BY <2>2, <3>4, <3>5 DEF GapOpen
    <3>7. ~NoHours
      BY DEF NoHours
    <3>8. Start = <<>> => First = h
      <4>1. \A x \in FilledHours : h <= x
        BY <1>2, <1>5, <3>3, <3>4
      <4>2. /\ Min(FilledHours) \in FilledHours /\ Min(FilledHours) \in Nat
            /\ \A x \in FilledHours : Min(FilledHours) <= x
        BY FilledFacts, MinOfTimes
      <4>3. Min(FilledHours) = h
        <5>. DEFINE m == Min(FilledHours)
        <5>. HIDE DEF m
        <5>1. m \in FilledHours /\ m \in Nat /\ \A x \in FilledHours : m <= x
          BY <4>2 DEF m
        <5>2. m = h
          BY <3>4, <4>1, <5>1
        <5>. QED
          BY <5>2 DEF m
      <4>. QED
        BY <4>3 DEF First
    <3>9. Start # <<>> => First = Start[1]
      BY DEF First
    <3>10. /\ IsGap(gap') /\ gap'.opened /\ ~gap'.failed /\ ~gap'.closed /\ gap'.current = <<>>
           /\ gap'.next = base.current
           /\ gap'.timestamp = First /\ gap'.end = End
      BY <1>3, <1>7, <3>6, <3>7, <3>8, <3>9 DEF IsGap
    <3>11. \A x \in FilledHours : x >= First
      <4>1. \A x \in FilledHours : h <= x
        BY <1>2, <1>5, <3>3, <3>4
      <4>. QED
        BY <1>5, <1>7, <3>4, <3>7, <3>8, <3>9, <4>1
    <3>12. NextRow'
      <4>1. {x \in FilledHours : x >= First} = FilledHours
        BY <3>11
      <4>2. FilledHours = Rest' \cup {gap'.next[1].timestamp}
        BY <1>2, <3>2, <3>3, <3>4, <3>10
      <4>3. gap'.next # <<>>
        BY <2>2, <3>10
      <4>4. gap'.next = <<HourRow(h)>> /\ \A c \in Rest' : h < c
        BY <3>2, <3>3, <3>10
      <4>. QED
        BY <1>4, <3>10, <4>1, <4>2, <4>3, <4>4 DEF NextRow
    <3>. QED
      BY <1>8, <3>2, <3>7, <3>10, <3>12
  <2>. QED
    BY <2>1, <2>2
<1>9. hours' = <<>> /\ Len(hours') = 0 /\ Given' = 0
  BY <1>1, <1>2, <1>8 DEF Given
<1>10. GapBegins'
  <2>1. ~NoHours => First + (0 * Hour) = First
    BY <1>7, Widths
  <2>. QED
    BY <1>4, <1>8, <1>9, <2>1 DEF GapBegins
<1>11. HoursGiven'
  BY <1>4, <1>6, <1>8, <1>9 DEF HoursGiven
<1>12. Unopened'
  BY <1>8 DEF Unopened
<1>. QED
  BY <1>8, <1>10, <1>11, <1>12 DEF GapInv

\* Another hour is given, or the iterator is closed after the last one.
LEMMA GapStep ==
  ASSUME QueryType, query.open, GapInv, gap.opened, gap.current = <<>>,
         UNCHANGED <<aggregation, stored, query, hours>>,
         IsGap(gap'), gap'.opened, ~gap'.failed, NextRow',
         \/ /\ gap'.closed /\ gap'.current = <<>> /\ gap'.timestamp = gap.timestamp
            /\ gap'.next = <<>> /\ gap'.end = gap.end
            /\ Len(AllHours) <= Given
         \/ /\ ~gap'.closed /\ gap'.timestamp = gap.timestamp + Hour /\ gap'.end = gap.end /\ ~NoHours
            /\ HasHours /\ gap.timestamp <= LastHour
            /\ gap'.current = <<HourRow(gap.timestamp)>>
  PROVE  GapInv'
<1>1. /\ AllHours' = AllHours /\ End' = End /\ First' = First /\ (NoHours' <=> NoHours)
  BY SameReference
<1>2. /\ Given = Len(hours) /\ Len(hours) \in Nat /\ Given <= Len(AllHours)
  <2>1. Len(hours) \in Nat /\ Len(gap.current) = 0
    BY LenHours
  <2>. QED
    BY <2>1 DEF Given, GapInv, HoursGiven
<1>3. Unopened'
  BY DEF Unopened
<1>4. CASE /\ gap'.closed /\ gap'.current = <<>> /\ gap'.timestamp = gap.timestamp
           /\ gap'.next = <<>> /\ gap'.end = gap.end
           /\ Len(AllHours) <= Given
  <2>1. Given' = Given
    BY <1>4 DEF Given
  <2>2. GapBegins'
    BY <1>1, <1>4, <2>1 DEF GapInv, GapBegins
  <2>3. HoursGiven'
    <3>1. hours' \in Seq(Range(AllHours'))
      BY <1>1 DEF GapInv, HoursGiven
    <3>2. Given' <= Len(AllHours') /\ \A i \in 1 .. Len(hours') : hours'[i] = AllHours'[i]
      BY <1>1, <2>1 DEF GapInv, HoursGiven
    <3>. QED
      BY <1>4, <3>1, <3>2 DEF HoursGiven
  <2>4. Given' = Len(AllHours)'
    BY <1>1, <1>2, <1>4, <2>1, LenHours
  <2>. QED
    BY <1>3, <1>4, <2>2, <2>3, <2>4 DEF GapInv
<1>5. CASE /\ ~gap'.closed /\ gap'.timestamp = gap.timestamp + Hour /\ gap'.end = gap.end /\ ~NoHours
           /\ HasHours /\ gap.timestamp <= LastHour
           /\ gap'.current = <<HourRow(gap.timestamp)>>
  <2>1. Len(gap'.current) = 1
    BY <1>5
  <2>2. Given' = Given + 1
    BY <1>2, <2>1 DEF Given
  <2>3. gap.end = End /\ gap.timestamp = First + (Given * Hour) /\ First \in Nat
    <3>1. ~NoHours => First \in Times(Hour)
      BY AllHoursShape
    <3>2. ~NoHours => First \in Nat
      BY <3>1, TimesApart, Widths
    <3>. QED
      BY <1>5, <3>2 DEF GapInv, GapBegins
  <2>4. Given < Len(AllHours) /\ AllHours[Given + 1] = HourRow(gap.timestamp) /\ Len(AllHours) \in Nat
    BY <1>2, <1>5, <2>3, HourAt
  <2>5. GapBegins'
    <3>1. gap.timestamp + Hour = First + ((Given + 1) * Hour)
      BY <1>2, <2>3, Widths
    <3>2. gap'.timestamp = First' + (Given' * Hour)
      BY <1>1, <1>5, <2>2, <3>1
    <3>3. gap'.end = End'
      BY <1>1, <1>5, <2>3
    <3>. QED
      BY <1>1, <1>5, <3>2, <3>3 DEF GapBegins
  <2>6. HoursGiven'
    <3>1. Given' <= Len(AllHours)'
      BY <1>1, <1>2, <2>2, <2>4
    <3>2. \A i \in 1 .. Len(hours)' : hours[i]' = AllHours[i]'
      BY <1>1 DEF GapInv, HoursGiven
    <3>3. gap'.current = <<AllHours[Len(hours) + 1]'>>
      BY <1>1, <1>2, <1>5, <2>4
    <3>4. hours' \in Seq(Range(AllHours'))
      BY <1>1 DEF GapInv, HoursGiven
    <3>. QED
      BY <3>1, <3>2, <3>3, <3>4 DEF HoursGiven
  <2>. QED
    BY <1>3, <1>5, <2>1, <2>5, <2>6 DEF GapInv
<1>. QED
  BY <1>4, <1>5

\* getNext of NanGapIterator: no row of the base iterator lies behind the hour that is due.
LEMMA GapNextOK ==
  ASSUME QueryType, query.open, BaseInv, GapInv, GapNext
  PROVE  BaseInv' /\ GapInv'
<1>. DEFINE t == gap.timestamp
<1>1. /\ UNCHANGED <<aggregation, stored, query, position, hours>>
      /\ gap.opened /\ gap.current = <<>> /\ ~gap.closed /\ Settled(base)
      /\ gap' = IF gap.next = <<>> THEN fillAfter(gap) ELSE RowAtHand(gap)
      /\ base' = IF gap'.current # <<>> /\ gap'.current = gap.next THEN Taken(base) ELSE base
  BY DEF GapNext, Wanting
<1>2. /\ FilledHours' = FilledHours /\ \A h : HourRow(h)' = HourRow(h)
  BY <1>1, SameReference
<1>3. /\ FilledHours \subseteq Nat /\ FilledHours \subseteq Times(Hour)
      /\ \A h \in FilledHours : End # <<>> => h <= End[1]
      /\ \A h \in Times(Hour) : h \notin FilledHours => HourRow(h) = NaNRow(h)
      /\ \A h : HourRow(h).timestamp = h
  BY FilledFacts
<1>4. IsGap(gap) /\ ~gap.failed /\ gap.timestamp \in Int
  BY DEF GapInv, IsGap
<1>5. Len(hours) \in Nat /\ Len(AllHours) \in Nat /\ Given = Len(hours)
  BY <1>1, LenHours DEF Given
<1>6. /\ {h \in FilledHours : h >= t} = Rest \cup (IF gap.next = <<>> THEN {} ELSE {gap.next[1].timestamp})
      /\ gap.next = <<>> => Rest = {}
      /\ gap.next # <<>> =>
           \E n \in FilledHours : gap.next = <<HourRow(n)>> /\ \A c \in Rest : n < c
  BY <1>1 DEF GapInv, NextRow
<1>7. CASE NoHours
  <2>1. gap.next = <<>> /\ gap.timestamp = -100 /\ gap.end = <<-200>>
    BY <1>1, <1>7 DEF GapInv, GapBegins
  <2>2. gap' = Finish(gap)
    BY <1>1, <2>1 DEF fillAfter
  <2>3. /\ IsGap(gap') /\ gap'.current = <<>> /\ gap'.timestamp = gap.timestamp
        /\ gap'.opened /\ ~gap'.failed /\ gap'.next = <<>> /\ gap'.end = gap.end
        /\ gap'.closed
    BY <1>1, <1>4, <2>2, FinishOK
  <2>4. base' = base
    BY <1>1, <2>3
  <2>5. AllHours = <<>>
    BY <1>7, AllHoursShape DEF HasHours
  <2>6. Len(AllHours) <= Given
    BY <1>5, <2>5
  <2>7. NextRow'
    BY <2>3 DEF NextRow
  <2>8. GapInv'
    BY <1>1, <2>3, <2>6, <2>7, GapStep
  <2>. QED
    BY <1>1, <2>4, <2>8, SameBase
<1>8. CASE ~NoHours
  <2>1. gap.end = End /\ t = First + (Given * Hour)
    BY <1>1, <1>8 DEF GapInv, GapBegins
  <2>2. /\ t \in Times(Hour) /\ t \in Nat /\ First \in Nat /\ First <= t
        /\ ~(HasHours /\ t <= LastHour) => Len(AllHours) <= Given
    BY <1>5, <1>8, <2>1, HourAt
  <2>3. End # <<>> => LastHour = End[1] /\ End[1] \in Nat
    <3>1. End # <<>> => End[1] \in Times(Hour)
      BY SourceFacts
    <3>. QED
      BY <3>1, TimesApart, Widths DEF LastHour
  <2>4. ASSUME NEW h \in FilledHours
        PROVE  LastHour \in Nat /\ h <= LastHour
    <3>1. CASE End = <<>>
      BY <3>1, FilledFacts, MaxOfTimes DEF LastHour
    <3>2. CASE End # <<>>
      BY <1>3, <2>3, <3>2
    <3>. QED
      BY <3>1, <3>2
  <2>5. ASSUME t \notin FilledHours,
               HasHours, t <= LastHour,
               gap' = Fill(gap)
        PROVE  BaseInv' /\ GapInv'
    <3>1. /\ IsGap(gap') /\ gap'.current = <<NaNRow(t)>> /\ gap'.timestamp = t + Hour
          /\ gap'.opened /\ ~gap'.failed /\ gap'.next = gap.next /\ gap'.end = gap.end
          /\ ~gap'.closed
      BY <1>1, <1>4, <2>5, FillOK
    <3>2. HourRow(t) = NaNRow(t)
      BY <1>3, <2>2, <2>5
    <3>3. gap'.current # gap.next
      <4>1. CASE gap.next = <<>>
        BY <3>1, <4>1
      <4>2. CASE gap.next # <<>>
        <5>1. PICK n \in FilledHours : gap.next = <<HourRow(n)>>
          BY <1>6, <4>2
        <5>2. gap.next[1].timestamp = n /\ gap'.current[1].timestamp = t
          BY <1>3, <3>1, <3>2, <5>1
        <5>3. gap.next[1].timestamp # gap'.current[1].timestamp
          BY <2>5, <5>2
        <5>. QED
          BY <5>3
      <4>. QED
        BY <4>1, <4>2
    <3>4. base' = base
      BY <1>1, <3>3
    <3>5. BaseInv' /\ Rest' = Rest
      BY <1>1, <3>4, SameBase
    <3>6. \A h \in FilledHours : h >= t <=> h >= t + Hour
      <4>1. \A h \in FilledHours : t < h => t + Hour <= h
        BY <1>3, <2>2, TimesApart, Widths
      <4>. QED
        BY <1>3, <2>2, <2>5, <4>1, Widths
    <3>7. NextRow'
      <4>1. {h \in FilledHours : h >= t + Hour} = {h \in FilledHours : h >= t}
        BY <3>6
      <4>. HIDE DEF t
      <4>2. {h \in FilledHours : h >= gap'.timestamp}
              = Rest' \cup (IF gap'.next = <<>> THEN {} ELSE {gap'.next[1].timestamp})
        BY <1>6, <3>1, <3>5, <4>1
      <4>3. gap'.next = <<>> => Rest' = {}
        BY <1>6, <3>1, <3>5
      <4>4. gap'.next # <<>> =>
              \E n \in FilledHours' : gap'.next = <<HourRow(n)'>> /\ \A c \in Rest' : n < c
        BY <1>2, <1>6, <3>1, <3>5
      <4>. QED
        BY <1>2, <4>2, <4>3, <4>4 DEF NextRow
    <3>8. GapInv'
      BY <1>1, <1>8, <2>5, <3>1, <3>2, <3>7, GapStep
    <3>. QED
      BY <3>5, <3>8
  <2>6. CASE gap.next = <<>>
    <3>1. Rest = {} /\ {h \in FilledHours : h >= t} = {}
      BY <1>6, <2>6
    <3>2. \A h \in FilledHours : h < t
      BY <1>3, <2>2, <3>1
    <3>3. gap' = IF End # <<>> /\ t <= End[1] THEN Fill(gap) ELSE Finish(gap)
      BY <1>1, <2>1, <2>6 DEF fillAfter
    <3>4. CASE End # <<>> /\ t <= End[1]
      <4>1. HasHours /\ t <= LastHour
        BY <1>8, <2>2, <2>3, <3>4 DEF HasHours
      <4>2. t \notin FilledHours
        BY <2>2, <3>2
      <4>. QED
        BY <2>5, <3>3, <3>4, <4>1, <4>2
    <3>5. CASE ~(End # <<>> /\ t <= End[1])
      <4>1. /\ IsGap(gap') /\ gap'.current = <<>> /\ gap'.timestamp = gap.timestamp
            /\ gap'.opened /\ ~gap'.failed /\ gap'.next = <<>> /\ gap'.end = gap.end
            /\ gap'.closed
        BY <1>1, <1>4, <3>3, <3>5, FinishOK
      <4>2. base' = base
        BY <1>1, <4>1
      <4>3. ~(HasHours /\ t <= LastHour)
        <5>1. CASE End # <<>>
          BY <2>3, <3>5, <5>1
        <5>2. CASE End = <<>>
          <6>1. HasHours => Max(FilledHours) \in FilledHours
            BY <5>2, FilledFacts, MaxOfTimes DEF HasHours
          <6>2. LastHour = Max(FilledHours)
            BY <5>2 DEF LastHour
          <6>3. HasHours => LastHour \in FilledHours
            BY <6>1, <6>2
          <6>4. HasHours => LastHour \in Nat /\ LastHour < t
            BY <1>3, <3>2, <6>3
          <6>. QED
            BY <2>2, <6>4
        <5>. QED
          BY <5>1, <5>2
      <4>4. Len(AllHours) <= Given
        BY <2>2, <4>3
      <4>5. NextRow'
        BY <4>1 DEF NextRow
      <4>6. GapInv'
        BY <1>1, <4>1, <4>4, <4>5, GapStep
      <4>. QED
        BY <1>1, <4>2, <4>6, SameBase
    <3>. QED
      BY <3>4, <3>5
  <2>7. CASE gap.next # <<>>
    <3>1. PICK n \in FilledHours : gap.next = <<HourRow(n)>> /\ \A c \in Rest : n < c
      BY <1>6, <2>7
    <3>2. gap.next[1].timestamp = n /\ n \in Nat /\ n \in Times(Hour)
      BY <1>3, <3>1
    <3>3. {h \in FilledHours : h >= t} = Rest \cup {n}
      BY <1>6, <2>7, <3>2
    <3>4. n >= t
      BY <3>3
    <3>5. LastHour \in Nat /\ n <= LastHour
      BY <2>4
    <3>6. HasHours /\ t <= LastHour
      BY <1>8, <2>2, <3>1, <3>2, <3>4, <3>5 DEF HasHours
    <3>7. ~(gap.end # <<>> /\ gap.next[1].timestamp > gap.end[1])
      BY <1>3, <2>1, <2>3, <3>2
    <3>8. CASE t < n
      <4>1. gap' = Fill(gap)
        <5>1. gap.timestamp < gap.next[1].timestamp /\ ~isNext(gap)
          BY <2>2, <3>2, <3>8 DEF isNext
        <5>2. RowAtHand(gap) = fillBefore(gap)
          BY <3>7, <5>1 DEF RowAtHand
        <5>. QED
          BY <1>1, <2>7, <5>2 DEF fillBefore
      <4>2. t \notin FilledHours
        <5>1. t \notin Rest
          BY <2>2, <3>1, <3>2, <3>8
        <5>2. t # n
          BY <2>2, <3>2, <3>8
        <5>. QED
          BY <2>2, <3>3, <5>1, <5>2
      <4>. QED
        BY <2>5, <3>6, <4>1, <4>2
    <3>9. CASE ~(t < n)
      <4>1. t = n
        BY <2>2, <3>2, <3>4, <3>9
      <4>2. gap' = Deliver(gap, base.current)
        BY <1>1, <2>7, <3>2, <3>7, <3>9, <4>1 DEF RowAtHand, isNext, Deliver
      <4>3. /\ IsGap(gap') /\ gap'.current = gap.next /\ gap'.timestamp = t + Hour
            /\ gap'.opened /\ ~gap'.failed /\ gap'.next = base.current /\ gap'.end = gap.end
            /\ ~gap'.closed
        BY <1>1, <1>4, <4>2, DeliverOK
      <4>4. base' = Taken(base)
        BY <1>1, <2>7, <4>3
      <4>5. /\ BaseInv' /\ Rest' = Coming
            /\ base.current = <<>> => Coming = {} /\ Rest = {}
            /\ base.current # <<>> =>
                 \E h \in FilledHours : /\ base.current = <<HourRow(h)>>
                                        /\ Rest = Coming \cup {h}
                                        /\ \A c \in Coming : h < c
        BY <1>1, <4>4, TakeBase
      <4>6. {h \in FilledHours : h >= t + Hour} = Rest
        <5>1. \A h \in FilledHours : t < h <=> t + Hour <= h
          <6>1. \A h \in FilledHours : t < h => t + Hour <= h
            BY <1>3, <2>2, TimesApart, Widths
          <6>. QED
            BY <1>3, <2>2, <6>1, Widths
        <5>2. \A h \in FilledHours : h >= t + Hour <=> h \in Rest
          <6>1. ASSUME NEW h \in FilledHours
                PROVE  h >= t + Hour <=> h \in Rest
            <7>1. h \in Nat /\ (h >= t <=> h \in Rest \/ h = n)
              BY <1>3, <3>3
            <7>2. h \in Rest => n < h
              BY <3>1
            <7>3. h \in Rest <=> t < h
              BY <2>2, <4>1, <7>1, <7>2
            <7>. QED
              BY <2>2, <5>1, <7>1, <7>3, Widths
          <6>. QED
            BY <6>1
        <5>3. Rest \subseteq FilledHours
          BY <3>3
        <5>. QED
          BY <5>2, <5>3
      <4>7. NextRow'
        <5>1. CASE base.current = <<>>
          BY <1>2, <4>3, <4>5, <4>6, <5>1 DEF NextRow
        <5>2. CASE base.current # <<>>
          <6>1. PICK h \in FilledHours : /\ base.current = <<HourRow(h)>>
                                         /\ Rest = Coming \cup {h}
                                         /\ \A c \in Coming : h < c
            BY <4>5, <5>2
          <6>2. gap'.next # <<>> /\ gap'.next[1].timestamp = h
            BY <1>3, <4>3, <5>2, <6>1
          <6>3. {x \in FilledHours : x >= gap'.timestamp} = Rest' \cup {gap'.next[1].timestamp}
            BY <4>3, <4>5, <4>6, <6>1, <6>2
          <6>4. gap'.next = <<HourRow(h)'>> /\ \A c \in Rest' : h < c
            BY <1>2, <4>3, <4>5, <6>1
          <6>. QED
            BY <1>2, <6>2, <6>3, <6>4 DEF NextRow
        <5>. QED
          BY <5>1, <5>2
      <4>8. GapInv'
        <5>1. gap'.current = <<HourRow(t)>>
          BY <3>1, <4>1, <4>3
        <5>. QED
          BY <1>1, <1>8, <3>6, <4>3, <4>7, <5>1, GapStep
      <4>. QED
        BY <4>5, <4>8
    <3>. QED
      BY <3>8, <3>9
  <2>. QED
    BY <2>6, <2>7
<1>. QED
  BY <1>7, <1>8

\* The row that waits is taken.
LEMMA TakenGap ==
  ASSUME NEW g, IsGap(g), NEW new, new = Taken(g)
  PROVE  /\ IsGap(new) /\ new.current = <<>> /\ new.timestamp = g.timestamp
         /\ new.opened = g.opened /\ new.failed = g.failed /\ new.next = g.next /\ new.end = g.end
         /\ new.closed = g.closed
BY DEF Taken, IsGap

\* Steps of other iterators leave the hours as they are.
LEMMA SameGap ==
  ASSUME UNCHANGED <<aggregation, stored, query, gap, hours>>, Rest' = Rest, GapInv
  PROVE  GapInv'
<1>1. /\ Start' = Start /\ End' = End /\ FilledHours' = FilledHours /\ First' = First
      /\ (NoHours' <=> NoHours) /\ AllHours' = AllHours /\ \A h : HourRow(h)' = HourRow(h)
  BY SameReference
<1>2. Given' = Given
  BY DEF Given
<1>3. Unopened' /\ GapBegins'
  BY <1>1, <1>2 DEF GapInv, Unopened, GapBegins
<1>4. HoursGiven'
  <2>1. hours' \in Seq(Range(AllHours'))
    BY <1>1 DEF GapInv, HoursGiven
  <2>2. /\ Given' <= Len(AllHours') /\ \A i \in 1 .. Len(hours') : hours'[i] = AllHours'[i]
        /\ gap'.current # <<>> => gap'.current = <<AllHours'[Len(hours') + 1]>>
    BY <1>1, <1>2 DEF GapInv, HoursGiven
  <2>. QED
    BY <2>1, <2>2 DEF HoursGiven
<1>5. NextRow'
  <2>1. ASSUME gap.opened, ~gap.closed
        PROVE  /\ {h \in FilledHours' : h >= gap'.timestamp}
                    = Rest' \cup (IF gap'.next = <<>> THEN {} ELSE {gap'.next[1].timestamp})
               /\ gap'.next = <<>> => Rest' = {}
               /\ gap'.next # <<>> =>
                    \E n \in FilledHours' : gap'.next = <<HourRow(n)'>> /\ \A c \in Rest' : n < c
    BY <1>1, <2>1 DEF GapInv, NextRow
  <2>. QED
    BY <2>1 DEF NextRow
<1>. QED
  BY <1>1, <1>2, <1>3, <1>4, <1>5 DEF GapInv

\* The next hour is taken.
LEMMA TakeHour ==
  ASSUME QueryType, query.open, GapInv, gap.current # <<>>,
         UNCHANGED <<aggregation, stored, query>>, Rest' = Rest,
         gap' = Taken(gap), hours' = Append(hours, gap.current[1])
  PROVE  /\ GapInv'
         /\ gap.current[1] = AllHours[Len(hours) + 1]
         /\ Len(hours) < Len(AllHours)
<1>1. /\ Start' = Start /\ End' = End /\ FilledHours' = FilledHours /\ First' = First
      /\ (NoHours' <=> NoHours) /\ AllHours' = AllHours /\ \A h : HourRow(h)' = HourRow(h)
  BY SameReference
<1>2. /\ gap.current = <<AllHours[Len(hours) + 1]>> /\ Len(gap.current) = 1 /\ ~gap.failed
      /\ hours \in Seq(Range(AllHours)) /\ Given <= Len(AllHours) /\ ~gap.closed
      /\ IsGap(gap)
  BY DEF GapInv, HoursGiven
<1>3. Len(hours) \in Nat /\ Len(AllHours) \in Nat /\ Given = Len(hours) + 1
  BY <1>2, LenHours DEF Given
<1>4. /\ IsGap(gap') /\ gap'.current = <<>> /\ gap'.timestamp = gap.timestamp
      /\ gap'.opened = gap.opened /\ ~gap'.failed /\ gap'.next = gap.next /\ gap'.end = gap.end
      /\ ~gap'.closed
  BY <1>2, TakenGap
<1>5. gap.current[1] = AllHours[Len(hours) + 1] /\ Len(hours) + 1 <= Len(AllHours)
  BY <1>2, <1>3
<1>6. AllHours[Len(hours) + 1] \in Range(AllHours)
  <2>1. DOMAIN AllHours = 1 .. Len(AllHours)
    <3>1. CASE ~HasHours
      BY <3>1, AllHoursShape
    <3>2. CASE HasHours
      BY <3>2, AllHoursShape
    <3>. QED
      BY <3>1, <3>2
  <2>. QED
    BY <1>3, <1>5, <2>1 DEF Range
<1>7. /\ hours' \in Seq(Range(AllHours)) /\ Len(hours') = Len(hours) + 1
      /\ \A i \in 1 .. Len(hours) : hours'[i] = hours[i]
      /\ hours'[Len(hours) + 1] = AllHours[Len(hours) + 1]
  BY <1>2, <1>5, <1>6
<1>8. Given' = Given
  BY <1>3, <1>4, <1>7 DEF Given
<1>9. HoursGiven'
  <2>1. hours' \in Seq(Range(AllHours'))
    BY <1>1, <1>7
  <2>2. \A i \in 1 .. Len(hours') : hours'[i] = AllHours'[i]
    <3>1. \A i \in 1 .. Len(hours) : hours[i] = AllHours[i]
      BY DEF GapInv, HoursGiven
    <3>. QED
      BY <1>1, <1>3, <1>7, <3>1
  <2>3. Given' <= Len(AllHours')
    BY <1>1, <1>2, <1>8
  <2>. QED
    BY <1>4, <2>1, <2>2, <2>3 DEF HoursGiven
<1>10. GapBegins'
  BY <1>1, <1>4, <1>8 DEF GapInv, GapBegins
<1>11. Unopened'
  <2>1. gap.opened
    BY <1>2, NoGapOK DEF GapInv, Unopened
  <2>. QED
    BY <1>4, <2>1 DEF Unopened
<1>12. NextRow'
  <2>1. ASSUME gap.opened
        PROVE  /\ {h \in FilledHours' : h >= gap'.timestamp}
                    = Rest' \cup (IF gap'.next = <<>> THEN {} ELSE {gap'.next[1].timestamp})
               /\ gap'.next = <<>> => Rest' = {}
               /\ gap'.next # <<>> =>
                    \E n \in FilledHours' : gap'.next = <<HourRow(n)'>> /\ \A c \in Rest' : n < c
    BY <1>1, <1>2, <1>4, <2>1 DEF GapInv, NextRow
  <2>. QED
    BY <1>4, <2>1 DEF NextRow
<1>13. GapInv'
  BY <1>4, <1>9, <1>10, <1>11, <1>12 DEF GapInv
<1>. QED
  BY <1>3, <1>5, <1>13

-----------------------------------------------------------------------------
(* DayAggregationIterator                                                  *)

\* Beginning of the i-th hour, and of its day.
HourTime(i) == First + ((i - 1) * Hour)
DayTime(i) == calcDayTimestamp(HourTime(i))

\* The hours of a day.
DayHours(d) == {AllHours[i] : i \in {i \in 1 .. Len(AllHours) : DayTime(i) = d}}

\* The hours follow each other, and the day of an hour is that of the hour before or the next.
LEMMA HourTimes ==
  ASSUME QueryType, query.open, HasHours
  PROVE  /\ Len(AllHours) \in Nat \ {0} /\ DOMAIN AllHours = 1 .. Len(AllHours)
         /\ HourTime(1) = First /\ HourTime(Len(AllHours)) = LastHour
         /\ \A i \in 1 .. Len(AllHours) :
              /\ AllHours[i] = HourRow(HourTime(i)) /\ AllHours[i].timestamp = HourTime(i)
              /\ DayTime(i) \in Times(Day) /\ DayTime(i) \in Nat
         /\ \A i, j \in 1 .. Len(AllHours) : i <= j => DayTime(i) <= DayTime(j)
         /\ \A i \in 1 .. Len(AllHours) : i + 1 <= Len(AllHours) /\ DayTime(i + 1) > DayTime(i) =>
              DayTime(i + 1) = DayTime(i) + Day
<1>1. PICK N \in Nat \ {0} :
        /\ AllHours = [i \in 1 .. N |-> HourRow(First + ((i - 1) * Hour))]
        /\ First + ((N - 1) * Hour) = LastHour
  BY AllHoursShape
<1>2. Len(AllHours) = N /\ DOMAIN AllHours = 1 .. N
  BY <1>1
<1>3. First \in Times(Hour) /\ First \in Nat
  <2>1. First \in Times(Hour)
    BY AllHoursShape DEF HasHours
  <2>. QED
    BY <2>1, TimesApart, Widths
<1>4. \A i \in 1 .. N : HourTime(i) \in Times(Hour) /\ HourTime(i) \in Nat
  <2>1. SUFFICES ASSUME NEW i \in 1 .. N
                 PROVE  HourTime(i) \in Times(Hour) /\ HourTime(i) \in Nat
    OBVIOUS
  <2>2. i - 1 \in Nat
    OBVIOUS
  <2>3. First + ((i - 1) * Hour) \in Times(Hour)
    BY <1>3, <2>2, TimesApart, Widths
  <2>. QED
    BY <2>3, TimesApart, Widths DEF HourTime
<1>5. HourTime(1) = First /\ HourTime(N) = LastHour
  BY <1>1, <1>3, Widths DEF HourTime
<1>6. \A i \in 1 .. N : AllHours[i] = HourRow(HourTime(i)) /\ AllHours[i].timestamp = HourTime(i)
  BY <1>1, FilledFacts DEF HourTime
<1>7. \A i \in 1 .. N : /\ DayTime(i) \in Times(Day) /\ DayTime(i) \in Nat
                        /\ DayTime(i) <= HourTime(i) /\ HourTime(i) < DayTime(i) + Day
  BY <1>4, CutTimes, Widths, Calc DEF DayTime
<1>8. \A i, j \in 1 .. N : i <= j => DayTime(i) <= DayTime(j)
  <2>1. SUFFICES ASSUME NEW i \in 1 .. N, NEW j \in 1 .. N, i <= j
                 PROVE  DayTime(i) <= DayTime(j)
    OBVIOUS
  <2>2. HourTime(i) <= HourTime(j)
    <3>1. (i - 1) * Hour <= (j - 1) * Hour
      BY <2>1, Widths
    <3>2. (i - 1) * Hour \in Int /\ (j - 1) * Hour \in Int
      BY Widths
    <3>. QED
      BY <1>3, <3>1, <3>2 DEF HourTime
  <2>. QED
    BY <1>4, <2>2, CutMonotone, Widths, Calc DEF DayTime
<1>9. ASSUME NEW i \in 1 .. N, i + 1 <= N, DayTime(i + 1) > DayTime(i)
      PROVE  DayTime(i + 1) = DayTime(i) + Day
  <2>. DEFINE a == DayTime(i)
              b == DayTime(i + 1)
  <2>1. i + 1 \in 1 .. N
    BY <1>9
  <2>2. /\ a \in Times(Day) /\ a \in Nat /\ HourTime(i) < a + Day /\ HourTime(i) \in Times(Hour)
        /\ b \in Times(Day) /\ b \in Nat /\ b <= HourTime(i + 1)
    BY <1>4, <1>7, <2>1
  <2>3. HourTime(i + 1) = HourTime(i) + Hour
    BY <1>3, Widths DEF HourTime
  <2>4. b > a
    BY <1>9
  <2>. HIDE DEF a, b
  <2>5. a + Day \in Times(Day) /\ a + Day <= b
    BY <2>2, <2>4, TimesApart, Widths
  <2>6. a + Day \in Times(Hour)
    BY <2>5, DayTimes
  <2>7. HourTime(i) + Hour <= a + Day
    BY <2>2, <2>6, TimesApart, Widths
  <2>8. b = a + Day
    BY <1>4, <2>1, <2>2, <2>3, <2>5, <2>7, Widths
  <2>. QED
    BY <2>8 DEF a, b
<1>. QED
  BY <1>2, <1>5, <1>6, <1>7, <1>8, <1>9

\* The days of the reference, counted from that of the first hour.
LEMMA AllDaysShape ==
  ASSUME QueryType, query.open
  PROVE  /\ ~HasHours => AllHours = <<>> /\ AllDays = <<>>
         /\ HasHours =>
              \E M \in Nat \ {0} :
                /\ AllDays = [m \in 1 .. M |-> DayOf(DayTime(1) + ((m - 1) * Day),
                                                     DayHours(DayTime(1) + ((m - 1) * Day)))]
                /\ \A n \in Nat : n < M <=> DayTime(1) + (n * Day) <= DayTime(Len(AllHours))
<1>1. ASSUME ~HasHours
      PROVE  AllHours = <<>> /\ AllDays = <<>>
  <2>1. AllHours = <<>>
    BY <1>1, AllHoursShape
  <2>. QED
    BY <2>1 DEF AllDays
<1>2. ASSUME HasHours
      PROVE  \E M \in Nat \ {0} :
                /\ AllDays = [m \in 1 .. M |-> DayOf(DayTime(1) + ((m - 1) * Day),
                                                     DayHours(DayTime(1) + ((m - 1) * Day)))]
                /\ \A n \in Nat : n < M <=> DayTime(1) + (n * Day) <= DayTime(Len(AllHours))
  <2>. DEFINE a == DayTime(1)
              b == DayTime(Len(AllHours))
              N == Len(AllHours)
              M == ((b - a) \div Day) + 1
              steps == Steps(calcDayTimestamp(Head(AllHours).timestamp),
                             calcDayTimestamp(Last(AllHours).timestamp), Day)
              hoursOf(d) == {row \in Range(AllHours) : calcDayTimestamp(row.timestamp) = d}
  <2>1. /\ N \in Nat \ {0} /\ DOMAIN AllHours = 1 .. N
        /\ \A i \in 1 .. N : AllHours[i].timestamp = HourTime(i)
        /\ \A i \in 1 .. N : DayTime(i) \in Times(Day) /\ DayTime(i) \in Nat
        /\ \A i, j \in 1 .. N : i <= j => DayTime(i) <= DayTime(j)
    BY <1>2, HourTimes
  <2>2. a \in Times(Day) /\ b \in Times(Day) /\ a <= b
    BY <2>1
  <2>. HIDE DEF a, b
  <2>3. M \in Nat \ {0} /\ \A n \in Nat : n < M <=> a + (n * Day) <= b
    BY <2>2, StepsCount, Widths
  <2>4. AllHours # <<>>
    BY <2>1
  <2>5. Head(AllHours) = AllHours[1] /\ Last(AllHours) = AllHours[N]
    BY <2>4 DEF Last
  <2>6. calcDayTimestamp(Head(AllHours).timestamp) = a /\ calcDayTimestamp(Last(AllHours).timestamp) = b
    BY <2>1, <2>5 DEF a, b, DayTime
  <2>7. steps = [m \in 1 .. M |-> a + ((m - 1) * Day)]
    BY <2>6 DEF Steps
  <2>8. \A d : hoursOf(d) = DayHours(d)
    <3>1. \A i \in 1 .. N : calcDayTimestamp(AllHours[i].timestamp) = DayTime(i)
      BY <2>1 DEF DayTime
    <3>2. Range(AllHours) = {AllHours[i] : i \in 1 .. N}
      BY <2>1 DEF Range
    <3>. QED
      BY <3>1, <3>2 DEF DayHours
  <2>9. AllDays = [n \in DOMAIN steps |-> DayOf(steps[n], hoursOf(steps[n]))]
    BY <2>4 DEF AllDays
  <2>. HIDE DEF steps, hoursOf, M
  <2>10. AllDays = [n \in 1 .. M |-> DayOf(a + ((n - 1) * Day), DayHours(a + ((n - 1) * Day)))]
    <3>1. AllDays = [n \in DOMAIN steps |-> DayOf(steps[n], DayHours(steps[n]))]
      BY <2>8, <2>9
    <3>2. DOMAIN steps = 1 .. M /\ \A n \in 1 .. M : steps[n] = a + ((n - 1) * Day)
      BY <2>7
    <3>. QED
      BY <3>1, <3>2
  <2>. QED
    BY <2>3, <2>10 DEF a, b
<1>. QED
  BY <1>1, <1>2

\* A day with hours makes a row, a day without none.
LEMMA DayDone ==
  ASSUME NEW it, IsAggregator(it), NEW rows, Gathered(it, rows), IsFiniteSet(rows)
  PROVE  /\ rows = {} => DayResult(it) = <<>>
         /\ rows # {} => DayResult(it) = <<DayOf(it.timestamp, rows)>>
<1>. DEFINE out == aggregateCollectedData(it, DayLeast)
            summary == SummaryRow(it.timestamp, rows, DayLeast)
<1>1. /\ out = <<>> => summary = NaNRow(it.timestamp)
      /\ out # <<>> => out = <<summary>> /\ summary # NaNRow(it.timestamp)
  BY AggregateOK, LeastOK
<1>2. it.rows \in Nat /\ (it.rows > 0 <=> rows # {})
  BY DEF IsAggregator, Gathered
<1>3. DayResult(it) = IF out = <<>> /\ it.rows > 0 THEN <<NaNRow(it.timestamp)>> ELSE out
  BY DEF DayResult
<1>4. DayOf(it.timestamp, rows) = summary
  BY DEF DayOf, SummaryRow, Numbers, Windy
<1>5. rows = {} => summary = NaNRow(it.timestamp)
  BY EmptySummary, LeastOK
<1>. HIDE DEF out, summary
<1>. QED
  BY <1>1, <1>2, <1>3, <1>4, <1>5

\* The hours taken of a day.
LEMMA HoursTaken ==
  ASSUME QueryType, query.open, GapInv
  PROVE  /\ Len(hours) \in Nat /\ Len(hours) <= Len(AllHours)
         /\ hours = <<>> <=> Len(hours) = 0
         /\ hours # <<>> => HasHours
         /\ \A i \in 1 .. Len(hours) : /\ hours[i] = AllHours[i]
                                       /\ calcDayTimestamp(hours[i].timestamp) = DayTime(i)
         /\ \A d : /\ HoursOf(d) = {AllHours[i] : i \in {i \in 1 .. Len(hours) : DayTime(i) = d}}
                   /\ IsFiniteSet(HoursOf(d))
<1>1. /\ Len(hours) \in Nat /\ Len(AllHours) \in Nat /\ Given <= Len(AllHours)
      /\ hours \in Seq(Range(AllHours)) /\ \A i \in 1 .. Len(hours) : hours[i] = AllHours[i]
  BY LenHours DEF GapInv, HoursGiven
<1>2. Len(hours) <= Len(AllHours)
  <2>1. Given = Len(hours) \/ Given = Len(hours) + 1
    <3>. DEFINE n == Len(gap.current)
    <3>1. gap.current = <<>> => n = 0
      OBVIOUS
    <3>2. gap.current = <<>> \/ n = 1
      BY DEF GapInv
    <3>3. Given = Len(hours) + n
      BY DEF Given
    <3>. HIDE DEF n
    <3>. QED
      BY <1>1, <3>1, <3>2, <3>3
  <2>. QED
    BY <1>1, <2>1
<1>3. hours = <<>> <=> Len(hours) = 0
  BY <1>1
<1>4. hours # <<>> => HasHours
  <2>1. ~HasHours => Len(AllHours) = 0
    <3>1. ~HasHours => AllHours = <<>>
      BY AllHoursShape
    <3>. QED
      BY <3>1
  <2>. QED
    BY <1>1, <1>2, <1>3, <2>1
<1>5. \A i \in 1 .. Len(hours) : calcDayTimestamp(hours[i].timestamp) = DayTime(i)
  <2>1. SUFFICES ASSUME NEW i \in 1 .. Len(hours)
                 PROVE  calcDayTimestamp(hours[i].timestamp) = DayTime(i)
    OBVIOUS
  <2>2. HasHours /\ i \in 1 .. Len(AllHours)
    BY <1>1, <1>2, <1>3, <1>4
  <2>3. AllHours[i].timestamp = HourTime(i)
    BY <2>2, HourTimes
  <2>. QED
    BY <1>1, <2>3 DEF DayTime
<1>6. ASSUME NEW d
      PROVE  /\ HoursOf(d) = {AllHours[i] : i \in {i \in 1 .. Len(hours) : DayTime(i) = d}}
             /\ IsFiniteSet(HoursOf(d))
  <2>1. HoursOf(d) = {AllHours[i] : i \in {i \in 1 .. Len(hours) : DayTime(i) = d}}
    BY <1>1, <1>5 DEF HoursOf
  <2>. DEFINE D == {i \in 1 .. Len(hours) : DayTime(i) = d}
              f == [i \in D |-> AllHours[i]]
  <2>2. IsFiniteSet(1 .. Len(hours))
    BY <1>1, FS_Interval
  <2>3. IsFiniteSet(D)
    BY <2>2, FS_Subset
  <2>. HIDE DEF D
  <2>4. DOMAIN f = D /\ HoursOf(d) = {f[i] : i \in DOMAIN f}
    BY <2>1 DEF D
  <2>. HIDE DEF f
  <2>5. IsFiniteSet(HoursOf(d))
    BY <2>3, <2>4, FiniteImage
  <2>. QED
    BY <2>1, <2>5
<1>. QED
  BY <1>1, <1>2, <1>3, <1>4, <1>5, <1>6

\* Steps of the iterators before leave the days as they are.
LEMMA SameDay ==
  ASSUME QueryType, query.open, GapInv, UNCHANGED <<aggregation, stored, query, hours, day, days>>,
         DayInv, DaysGiven, Through => Through'
  PROVE  DayInv' /\ DaysGiven'
<1>1. AllDays' = AllDays /\ \A it, x : Gathered(it, x)' <=> Gathered(it, x)
  BY SameReference
<1>2. DaysOut' = DaysOut /\ \A d : HoursOf(d)' = HoursOf(d)
  BY DEF DaysOut, HoursOf
<1>3. DaysGiven'
  <2>1. days' \in Seq(Range(AllDays'))
    BY <1>1 DEF DaysGiven
  <2>2. /\ DaysOut' <= Len(AllDays') /\ \A i \in 1 .. Len(days') : days'[i] = AllDays'[i]
        /\ day'.current # <<>> => day'.current = <<AllDays'[Len(days') + 1]>>
    BY <1>1, <1>2 DEF DaysGiven
  <2>. QED
    BY <2>1, <2>2 DEF DaysGiven
<1>4. ASSUME ~Through, Through'
      PROVE  hours = <<>> /\ Gathered(day, {})
  <2>1. day.rows = 0
    BY <1>4 DEF Through
  <2>2. Gathered(day, HoursOf(day.timestamp))
    BY <1>4 DEF DayInv
  <2>3. HoursOf(day.timestamp) = {}
    BY <2>1, <2>2 DEF Gathered
  <2>4. ASSUME hours # <<>>
        PROVE  FALSE
    <3>1. Len(hours) \in Nat \ {0}
      BY <2>4, HoursTaken
    <3>2. hours[Len(hours)] \in HoursOf(day.timestamp)
      BY <2>4, <3>1 DEF DayInv, HoursOf
    <3>. QED
      BY <2>3, <3>2
  <2>. QED
    BY <2>2, <2>3, <2>4
<1>5. DayInv'
  <2>1. Through' \/ Gathered(day, HoursOf(day.timestamp))'
    BY <1>1, <1>2 DEF DayInv
  <2>2. Through' => Gathered(day, {})'
    BY <1>1, <1>4 DEF DayInv
  <2>3. hours' # <<>> /\ Through' => DaysOut' = Len(AllDays')
    BY <1>1, <1>2, <1>4 DEF DayInv
  <2>4. hours' # <<>> /\ ~Through' =>
          day'.timestamp = calcDayTimestamp(hours'[1].timestamp) + (DaysOut' * Day)
    BY <1>2 DEF DayInv
  <2>5. day'.closed => Through' /\ day'.current = <<>>
    BY DEF DayInv
  <2>. QED
    BY <1>2, <2>1, <2>2, <2>3, <2>4, <2>5 DEF DayInv
<1>. QED
  BY <1>3, <1>5

\* The hours of the days with one hour more.
LEMMA HoursAppended ==
  ASSUME NEW S, hours \in Seq(S), NEW row \in S, hours' = Append(hours, row)
  PROVE  \A d : HoursOf(d)' = HoursOf(d) \cup (IF calcDayTimestamp(row.timestamp) = d THEN {row} ELSE {})
<1>1. /\ Len(hours) \in Nat /\ Len(hours') = Len(hours) + 1
      /\ \A i \in 1 .. Len(hours) : hours'[i] = hours[i]
      /\ hours'[Len(hours) + 1] = row
  OBVIOUS
<1>2. SUFFICES ASSUME NEW d
               PROVE  HoursOf(d)' = HoursOf(d) \cup (IF calcDayTimestamp(row.timestamp) = d THEN {row} ELSE {})
  OBVIOUS
<1>3. HoursOf(d)' = {hours'[i] : i \in {i \in 1 .. Len(hours') : calcDayTimestamp(hours'[i].timestamp) = d}}
  BY DEF HoursOf, calcDayTimestamp
<1>4. \A i : i \in 1 .. Len(hours') <=> i \in 1 .. Len(hours) \/ i = Len(hours) + 1
  BY <1>1
<1>5. ASSUME NEW x
      PROVE  x \in HoursOf(d)' <=>
               x \in HoursOf(d) \/ (calcDayTimestamp(row.timestamp) = d /\ x = row)
  <2>1. x \in HoursOf(d)' <=>
          \E i \in 1 .. Len(hours') : calcDayTimestamp(hours'[i].timestamp) = d /\ x = hours'[i]
    BY <1>3
  <2>2. x \in HoursOf(d) <=>
          \E i \in 1 .. Len(hours) : calcDayTimestamp(hours[i].timestamp) = d /\ x = hours[i]
    BY DEF HoursOf
  <2>. QED
    BY <1>1, <1>4, <2>1, <2>2
<1>. QED
  BY <1>5

\* All hours of the open day are taken: its row is the next one of the reference.
LEMMA DayCloses ==
  ASSUME QueryType, query.open, GapInv, DayInv, DaysGiven, ~Through, hours # <<>>, day.current = <<>>,
         \A i \in 1 .. Len(AllHours) : i > Len(hours) => DayTime(i) > day.timestamp
  PROVE  /\ DaysOut = Len(days) /\ Len(days) \in Nat /\ Len(AllDays) \in Nat
         /\ Len(days) < Len(AllDays)
         /\ DayResult(day) = <<AllDays[Len(days) + 1]>>
         /\ Len(hours) = Len(AllHours) => Len(days) + 1 = Len(AllDays)
<1>. DEFINE n == Len(hours)
            N == Len(AllHours)
            d == day.timestamp
<1>1. /\ HasHours /\ n \in Nat \ {0} /\ N \in Nat \ {0} /\ n <= N
      /\ calcDayTimestamp(hours[n].timestamp) = DayTime(n)
      /\ calcDayTimestamp(hours[1].timestamp) = DayTime(1)
      /\ HoursOf(d) = {AllHours[i] : i \in {i \in 1 .. n : DayTime(i) = d}}
      /\ IsFiniteSet(HoursOf(d))
  <2>1. HasHours /\ n \in Nat \ {0} /\ n <= N
    BY HoursTaken
  <2>2. N \in Nat \ {0}
    BY <2>1, HourTimes
  <2>. QED
    BY <2>1, <2>2, HoursTaken
<1>2. DaysOut = Len(days) /\ Len(days) \in Nat
  BY DEF DaysOut, DaysGiven
<1>3. d = DayTime(n) /\ d = DayTime(1) + (DaysOut * Day)
  BY <1>1 DEF DayInv
<1>. HIDE DEF n, N, d
<1>4. /\ \A i \in 1 .. N : DayTime(i) \in Nat
      /\ \A i, j \in 1 .. N : i <= j => DayTime(i) <= DayTime(j)
  BY <1>1, HourTimes DEF N
<1>5. n \in 1 .. N /\ 1 \in 1 .. N /\ N \in 1 .. N /\ n \in 1 .. n /\ n <= N
  BY <1>1
<1>6. d \in Nat /\ DayTime(1) \in Nat /\ d <= DayTime(N) /\ DayTime(N) \in Nat
  <2>1. DayTime(n) <= DayTime(N)
    BY <1>4, <1>5
  <2>2. DayTime(n) \in Nat /\ DayTime(1) \in Nat /\ DayTime(N) \in Nat
    BY <1>4, <1>5
  <2>. QED
    BY <1>3, <2>1, <2>2
<1>7. HoursOf(d) = DayHours(d)
  <2>1. \A i \in 1 .. N : i > n => DayTime(i) # d
    BY <1>1, <1>3, <1>4 DEF n, N, d
  <2>2. \A i : i \in 1 .. N /\ DayTime(i) = d <=> i \in 1 .. n /\ DayTime(i) = d
    BY <1>1, <2>1
  <2>3. DayHours(d) = {AllHours[i] : i \in {i \in 1 .. N : DayTime(i) = d}}
    BY DEF DayHours, N
  <2>4. {i \in 1 .. N : DayTime(i) = d} = {i \in 1 .. n : DayTime(i) = d}
    BY <2>2
  <2>. QED
    BY <1>1, <2>3, <2>4
<1>8. HoursOf(d) # {}
  <2>1. n \in {i \in 1 .. n : DayTime(i) = d}
    BY <1>3, <1>5
  <2>2. AllHours[n] \in HoursOf(d)
    BY <1>1, <2>1
  <2>. QED
    BY <2>2
<1>9. IsAggregator(day) /\ Gathered(day, HoursOf(d))
  BY DEF DayInv, d
<1>10. DayResult(day) = <<DayOf(d, DayHours(d))>>
  BY <1>1, <1>7, <1>8, <1>9, DayDone DEF d
<1>11. PICK M \in Nat \ {0} :
        /\ AllDays = [m \in 1 .. M |-> DayOf(DayTime(1) + ((m - 1) * Day),
                                             DayHours(DayTime(1) + ((m - 1) * Day)))]
        /\ \A k \in Nat : k < M <=> DayTime(1) + (k * Day) <= DayTime(N)
  BY <1>1, AllDaysShape DEF N
<1>12. Len(AllDays) = M
  BY <1>11
<1>13. Len(days) < M
  BY <1>2, <1>3, <1>6, <1>11
<1>14. AllDays[Len(days) + 1] = DayOf(d, DayHours(d))
  <2>1. Len(days) + 1 \in 1 .. M /\ (Len(days) + 1) - 1 = Len(days)
    BY <1>2, <1>13
  <2>2. AllDays[Len(days) + 1] = DayOf(DayTime(1) + (Len(days) * Day), DayHours(DayTime(1) + (Len(days) * Day)))
    BY <1>11, <2>1
  <2>. QED
    BY <1>2, <1>3, <2>2
<1>15. ASSUME n = N
       PROVE  Len(days) + 1 = M
  <2>1. (Len(days) + 1) * Day = (Len(days) * Day) + Day /\ Len(days) * Day \in Nat
    BY <1>2, Widths
  <2>2. DayTime(1) \in Nat /\ d \in Nat /\ d = DayTime(N)
    BY <1>3, <1>6, <1>15
  <2>3. ~(DayTime(1) + ((Len(days) + 1) * Day) <= DayTime(N))
    BY <1>2, <1>3, <2>1, <2>2, Widths
  <2>4. ~(Len(days) + 1 < M)
    BY <1>2, <1>11, <2>3
  <2>. QED
    BY <1>2, <1>13, <2>4
<1>. QED
  BY <1>2, <1>10, <1>12, <1>13, <1>14, <1>15 DEF n, N

\* A day given is the next one of the reference.
LEMMA DayGiven ==
  ASSUME QueryType, query.open, GapInv, DayInv, DaysGiven, day.current = <<>>,
         UNCHANGED <<aggregation, stored, query, days>>,
         \/ day'.current = <<>>
         \/ /\ day'.current = <<AllDays[Len(days) + 1]>>
            /\ Len(days) < Len(AllDays) /\ Len(AllDays) \in Nat
  PROVE  /\ DaysGiven'
         /\ day'.current = <<>> => DaysOut' = DaysOut
         /\ day'.current # <<>> => DaysOut' = DaysOut + 1
<1>1. AllDays' = AllDays
  BY SameReference
<1>2. /\ DaysOut = Len(days) /\ Len(days) \in Nat /\ days \in Seq(Range(AllDays))
      /\ DaysOut <= Len(AllDays) /\ \A i \in 1 .. Len(days) : days[i] = AllDays[i]
  BY DEF DaysOut, DaysGiven
<1>3. CASE day'.current = <<>>
  <2>1. DaysOut' = DaysOut
    BY <1>2, <1>3 DEF DaysOut
  <2>. QED
    BY <1>1, <1>2, <1>3, <2>1 DEF DaysGiven
<1>4. CASE /\ day'.current = <<AllDays[Len(days) + 1]>>
           /\ Len(days) < Len(AllDays) /\ Len(AllDays) \in Nat
  <2>1. DaysOut' = DaysOut + 1
    BY <1>2, <1>4 DEF DaysOut
  <2>2. DaysOut' <= Len(AllDays)
    BY <1>2, <1>4, <2>1
  <2>. QED
    BY <1>1, <1>2, <1>4, <2>1, <2>2 DEF DaysGiven
<1>. QED
  BY <1>3, <1>4

\* An hour is taken: it joins its day, or opens the next and ends the one before.
LEMMA DayRowOK ==
  ASSUME QueryType, query.open, GapInv, DayInv, DaysGiven, DayRow, GapInv',
         gap.current[1] = AllHours[Len(hours) + 1], Len(hours) < Len(AllHours)
  PROVE  DayInv' /\ DaysGiven'
<1>. DEFINE row == gap.current[1]
            n == Len(hours)
            t == day.timestamp
            period == calcDayTimestamp(row.timestamp)
            out == DayResult(day)
<1>1. /\ UNCHANGED <<aggregation, stored, query, days>>
      /\ day.current = <<>> /\ ~day.closed /\ gap.current # <<>>
      /\ day' = ReadRow(day, row, period, out)
      /\ hours' = Append(hours, row)
  BY DEF DayRow, Wanting
<1>2. ~Through
  BY <1>1 DEF Through
<1>3. /\ n \in Nat /\ hours \in Seq(Range(AllHours)) /\ Len(AllHours) \in Nat
      /\ (hours = <<>> <=> n = 0)
  BY LenHours, HoursTaken DEF GapInv, HoursGiven
<1>4. HasHours
  <2>1. ~HasHours => AllHours = <<>>
    BY AllHoursShape
  <2>2. AllHours = <<>> => Len(AllHours) = 0
    OBVIOUS
  <2>. QED
    BY <1>3, <2>1, <2>2
<1>5. /\ n + 1 \in 1 .. Len(AllHours)
      /\ period = DayTime(n + 1) /\ period \in Nat
      /\ row \in Range(AllHours)
  <2>1. n + 1 \in 1 .. Len(AllHours)
    BY <1>3
  <2>2. /\ AllHours[n + 1].timestamp = HourTime(n + 1) /\ DayTime(n + 1) \in Nat
        /\ DOMAIN AllHours = 1 .. Len(AllHours)
    BY <1>4, <2>1, HourTimes
  <2>3. row.timestamp = HourTime(n + 1)
    BY <2>2
  <2>4. row \in Range(AllHours)
    BY <2>1, <2>2 DEF Range
  <2>. QED
    BY <2>1, <2>2, <2>3, <2>4 DEF DayTime
<1>6. /\ Len(hours') = n + 1 /\ hours' # <<>> /\ hours'[Len(hours')] = row
      /\ hours'[1] = IF n = 0 THEN row ELSE hours[1]
      /\ \A d : HoursOf(d)' = HoursOf(d) \cup (IF period = d THEN {row} ELSE {})
  <2>1. \A d : HoursOf(d)' = HoursOf(d) \cup (IF period = d THEN {row} ELSE {})
    BY <1>1, <1>3, <1>5, HoursAppended
  <2>2. /\ Len(hours') = n + 1 /\ hours'[n + 1] = row
        /\ \A i \in 1 .. n : hours'[i] = hours[i]
    BY <1>1, <1>3, <1>5
  <2>3. hours' # <<>>
    <3>1. Len(hours') # 0
      BY <1>3, <2>2
    <3>. QED
      BY <3>1
  <2>4. hours'[1] = IF n = 0 THEN row ELSE hours[1]
    BY <1>3, <2>2
  <2>. QED
    BY <2>1, <2>2, <2>3, <2>4
<1>7. IsAggregator(day) /\ Gathered(day, HoursOf(t))
  BY <1>2 DEF DayInv
<1>. HIDE DEF row, period, out
<1>8. /\ IsAggregator(day') /\ day'.closed = day.closed /\ day'.rows > 0
      /\ period > t =>
           /\ day'.timestamp = period
           /\ t > -1 => day'.current = out
           /\ ~(t > -1) => day'.current = <<>>
      /\ ~(period > t) =>
           /\ day'.timestamp = t
           /\ day'.current = day.current
      /\ period > t => Gathered(day', {row})
      /\ ~(period > t) => Gathered(day', HoursOf(t) \cup {row})
  <2>1. day' = ReadRow(day, row, period, out) /\ period \in Int
    BY <1>1, <1>5
  <2>. DEFINE rows == HoursOf(t)
  <2>2. Gathered(day, rows)
    BY <1>7
  <2>. HIDE DEF rows
  <2>3. /\ IsAggregator(day') /\ day'.closed = day.closed /\ day'.rows > 0
        /\ period > t =>
             /\ day'.timestamp = period
             /\ t > -1 => day'.current = out
             /\ ~(t > -1) => day'.current = <<>>
        /\ ~(period > t) =>
             /\ day'.timestamp = t
             /\ day'.current = day.current
    BY <1>7, <2>1, <2>2, ReadRowOK
  <2>4. period > t => Gathered(day', {row})
    BY <1>7, <2>1, ReadRowOpens
  <2>5. ~(period > t) => Gathered(day', rows \cup {row})
    BY <1>7, <2>1, <2>2, ReadRowJoins
  <2>. QED
    BY <2>3, <2>4, <2>5 DEF rows
\* A constant, for the hours of this day before and after the step.
<1>9. PICK p : p = period
  OBVIOUS
<1>10. /\ \A it, x : Gathered(it, x)' <=> Gathered(it, x)
      /\ ~Through'
  <2>1. \A it, x : Gathered(it, x)' <=> Gathered(it, x)
    BY <1>1, SameReference
  <2>. QED
    BY <1>8, <2>1 DEF Through
<1>11. ASSUME day'.timestamp = period, Gathered(day', HoursOf(p)'), DaysGiven',
              period = calcDayTimestamp(hours'[1].timestamp) + (DaysOut' * Day),
              day'.current = <<>> \/ Len(day'.current) = 1
       PROVE  DayInv' /\ DaysGiven'
  <2>1. Gathered(day, HoursOf(day.timestamp))'
    <3>1. HoursOf(p)' = HoursOf(day.timestamp)'
      BY <1>9, <1>11 DEF HoursOf
    <3>. QED
      BY <1>10, <1>11, <3>1
  <2>2. day'.timestamp = calcDayTimestamp(hours'[Len(hours')].timestamp)
    BY <1>6, <1>11 DEF period
  <2>. QED
    BY <1>1, <1>6, <1>8, <1>10, <1>11, <2>1, <2>2 DEF DayInv
<1>12. CASE hours = <<>>
  <2>1. n = 0 /\ t = -1 /\ DaysOut = 0
    BY <1>3, <1>12 DEF DayInv
  <2>2. period > t /\ ~(t > -1)
    BY <1>5, <2>1
  <2>3. day'.timestamp = period /\ day'.current = <<>> /\ Gathered(day', {row})
    BY <1>8, <2>2
  <2>4. HoursOf(p)' = {row}
    <3>1. HoursOf(p) = {}
      BY <2>1 DEF HoursOf
    <3>. QED
      BY <1>6, <1>9, <3>1
  <2>5. DaysGiven' /\ DaysOut' = 0
    BY <1>1, <2>1, <2>3, DayGiven
  <2>6. period = calcDayTimestamp(hours'[1].timestamp) + (DaysOut' * Day)
    <3>1. hours'[1] = row
      BY <1>6, <2>1
    <3>2. calcDayTimestamp(hours'[1].timestamp) = period
      BY <3>1 DEF period
    <3>. QED
      BY <1>5, <2>5, <3>2, Widths
  <2>. QED
    BY <1>11, <2>3, <2>4, <2>5, <2>6
<1>13. CASE hours # <<>>
  <2>1. /\ n \in 1 .. Len(AllHours) /\ n \in Nat \ {0}
        /\ calcDayTimestamp(hours[n].timestamp) = DayTime(n)
        /\ calcDayTimestamp(hours[1].timestamp) = DayTime(1)
        /\ \A d : HoursOf(d) = {AllHours[i] : i \in {i \in 1 .. n : DayTime(i) = d}}
    BY <1>3, <1>13, HoursTaken
  <2>2. /\ t = DayTime(n) /\ t = DayTime(1) + (DaysOut * Day)
    BY <1>2, <1>13, <2>1 DEF DayInv
  <2>. HIDE DEF t, n
  <2>3. /\ t \in Nat /\ t <= period /\ DayTime(1) \in Nat
        /\ period > t => period = t + Day
        /\ \A i \in 1 .. n : DayTime(i) \in Nat /\ DayTime(i) <= t
        /\ \A i \in 1 .. Len(AllHours) : i > n => DayTime(i) \in Nat /\ period <= DayTime(i)
    <3>1. /\ \A i \in 1 .. Len(AllHours) : DayTime(i) \in Nat
          /\ \A i, j \in 1 .. Len(AllHours) : i <= j => DayTime(i) <= DayTime(j)
          /\ \A i \in 1 .. Len(AllHours) : i + 1 <= Len(AllHours) /\ DayTime(i + 1) > DayTime(i) =>
               DayTime(i + 1) = DayTime(i) + Day
      BY <1>4, HourTimes
    <3>2. n <= n + 1 /\ n + 1 <= Len(AllHours) /\ 1 \in 1 .. Len(AllHours)
      BY <1>3, <1>5, <2>1
    <3>3. t \in Nat /\ DayTime(1) \in Nat
      BY <2>1, <2>2, <3>1, <3>2
    <3>4. t <= period
      BY <1>5, <2>1, <2>2, <3>1, <3>2
    <3>5. period > t => period = t + Day
      BY <1>5, <2>1, <2>2, <3>1, <3>2
    <3>6. ASSUME NEW i \in 1 .. n
          PROVE  DayTime(i) \in Nat /\ DayTime(i) <= t
      <4>1. i \in 1 .. Len(AllHours) /\ i <= n
        BY <2>1
      <4>. QED
        BY <2>1, <2>2, <3>1, <4>1
    <3>7. ASSUME NEW i \in 1 .. Len(AllHours), i > n
          PROVE  DayTime(i) \in Nat /\ period <= DayTime(i)
      <4>1. n + 1 <= i /\ n + 1 \in 1 .. Len(AllHours)
        BY <1>5, <2>1, <3>7 DEF n
      <4>. QED
        BY <1>5, <3>1, <4>1 DEF n
    <3>. QED
      BY <3>3, <3>4, <3>5, <3>6, <3>7
  <2>4. hours'[1] = hours[1]
    BY <1>6, <2>1 DEF n
  <2>5. CASE period > t
    <3>1. \A i \in 1 .. Len(AllHours) : i > n => DayTime(i) > t
      BY <1>5, <2>3, <2>5
    <3>2. /\ DaysOut = Len(days) /\ Len(days) \in Nat /\ Len(AllDays) \in Nat
          /\ Len(days) < Len(AllDays)
          /\ out = <<AllDays[Len(days) + 1]>>
      BY <1>1, <1>2, <1>13, <3>1, DayCloses DEF n, t, out
    <3>3. t > -1
      BY <2>3
    <3>4. day'.timestamp = period /\ day'.current = out /\ Gathered(day', {row})
      BY <1>8, <2>5, <3>3 DEF t
    <3>5. DaysGiven' /\ DaysOut' = DaysOut + 1
      <4>1. day'.current = <<AllDays[Len(days) + 1]>>
        BY <3>2, <3>4
      <4>2. day'.current # <<>>
        BY <4>1
      <4>. QED
        BY <1>1, <3>2, <4>1, <4>2, DayGiven
    <3>6. HoursOf(p)' = {row}
      <4>1. HoursOf(p) = {}
        <5>1. \A i \in 1 .. n : DayTime(i) # p
          BY <1>5, <1>9, <2>3, <2>5
        <5>. QED
          BY <2>1, <5>1
      <4>. QED
        BY <1>6, <1>9, <4>1
    <3>7. period = calcDayTimestamp(hours'[1].timestamp) + (DaysOut' * Day)
      <4>1. (DaysOut + 1) * Day = (DaysOut * Day) + Day /\ DaysOut * Day \in Nat
        BY <3>2, Widths
      <4>. QED
        BY <2>1, <2>2, <2>3, <2>4, <2>5, <3>5, <4>1, Widths
    <3>. QED
      BY <1>11, <3>2, <3>4, <3>5, <3>6, <3>7
  <2>6. CASE ~(period > t)
    <3>1. period = t
      BY <1>5, <2>3, <2>6
    <3>2. day'.timestamp = period /\ day'.current = <<>> /\ Gathered(day', HoursOf(t) \cup {row})
      BY <1>1, <1>8, <2>6, <3>1 DEF t
    <3>3. DaysGiven' /\ DaysOut' = DaysOut
      BY <1>1, <3>2, DayGiven
    <3>4. HoursOf(p)' = HoursOf(t) \cup {row}
      <4>1. HoursOf(p)' = HoursOf(p) \cup {row}
        BY <1>6, <1>9
      <4>. QED
        BY <1>9, <3>1, <4>1
    <3>5. period = calcDayTimestamp(hours'[1].timestamp) + (DaysOut' * Day)
      BY <2>1, <2>2, <2>4, <3>1, <3>3
    <3>. QED
      BY <1>11, <3>2, <3>3, <3>4, <3>5
  <2>. QED
    BY <2>5, <2>6
<1>. QED
  BY <1>12, <1>13

\* No hour is left: the last day is given, and then the end.
LEMMA DayEndOK ==
  ASSUME QueryType, query.open, GapInv, DayInv, DaysGiven, DayEnd
  PROVE  DayInv' /\ DaysGiven'
<1>. DEFINE out == DayResult(day)
<1>1. /\ UNCHANGED <<aggregation, stored, query, gap, hours, days>>
      /\ day.current = <<>> /\ ~day.closed /\ gap.closed
      /\ day' = ReadEnd(day, out)
  BY DEF DayEnd, Wanting
<1>2. /\ AllDays' = AllDays
      /\ \A it, x : Gathered(it, x)' <=> Gathered(it, x)
  BY <1>1, SameReference
<1>3. IsAggregator(day)
  BY DEF DayInv
<1>4. /\ gap.current = <<>> /\ Len(hours) = Len(AllHours) /\ Len(hours) \in Nat /\ Len(AllHours) \in Nat
  BY <1>1, LenHours DEF GapInv, Given
<1>. HIDE DEF out
<1>5. /\ IsAggregator(day') /\ Gathered(day', {}) /\ day'.rows = 0
      /\ day'.timestamp = day.timestamp /\ day'.current = out /\ day'.closed = (out = <<>>)
  BY <1>1, <1>3, ReadEndOK
<1>6. Through' /\ (Through <=> day.rows = 0)
  BY <1>1, <1>4, <1>5 DEF Through
<1>7. /\ out = <<>> \/ Len(out) = 1
      /\ DaysGiven'
      /\ hours = <<>> => DaysOut' = 0
      /\ hours # <<>> => DaysOut' = Len(AllDays)
  <2>1. CASE Through
    <3>1. out = <<>>
      <4>1. IsFiniteSet({})
        BY FS_EmptySet
      <4>2. Gathered(day, {})
        BY <2>1 DEF DayInv
      <4>. QED
        BY <1>3, <4>1, <4>2, DayDone DEF out
    <3>2. DaysGiven' /\ DaysOut' = DaysOut
      BY <1>1, <1>5, <3>1, DayGiven
    <3>. QED
      BY <2>1, <3>1, <3>2 DEF DayInv
  <2>2. CASE ~Through
    <3>1. Gathered(day, HoursOf(day.timestamp)) /\ day.rows > 0
      BY <1>3, <1>6, <2>2 DEF DayInv, IsAggregator
    <3>2. hours # <<>>
      <4>1. HoursOf(day.timestamp) # {}
        BY <3>1 DEF Gathered
      <4>2. hours = <<>> => HoursOf(day.timestamp) = {}
        BY DEF HoursOf
      <4>. QED
        BY <4>1, <4>2
    <3>3. \A i \in 1 .. Len(AllHours) : i > Len(hours) => DayTime(i) > day.timestamp
      BY <1>4
    <3>4. /\ DaysOut = Len(days) /\ Len(days) \in Nat /\ Len(AllDays) \in Nat
          /\ Len(days) < Len(AllDays)
          /\ out = <<AllDays[Len(days) + 1]>>
          /\ Len(days) + 1 = Len(AllDays)
      BY <1>1, <1>4, <2>2, <3>2, <3>3, DayCloses DEF out
    <3>5. day'.current = <<AllDays[Len(days) + 1]>> /\ day'.current # <<>> /\ Len(out) = 1
      BY <1>5, <3>4
    <3>6. DaysGiven' /\ DaysOut' = DaysOut + 1
      BY <1>1, <3>4, <3>5, DayGiven
    <3>. QED
      BY <3>2, <3>4, <3>5, <3>6
  <2>. QED
    BY <2>1, <2>2
<1>8. DayInv'
  <2>1. Gathered(day, {})'
    BY <1>2, <1>5
  <2>2. day'.timestamp = IF hours' = <<>> THEN -1 ELSE calcDayTimestamp(hours'[Len(hours')].timestamp)
    BY <1>1, <1>5 DEF DayInv
  <2>3. hours' = <<>> => DaysOut' = 0
    BY <1>1, <1>7
  <2>4. hours' # <<>> /\ Through' => DaysOut' = Len(AllDays')
    BY <1>1, <1>2, <1>7
  <2>5. day'.closed => Through' /\ day'.current = <<>>
    BY <1>5, <1>6
  <2>6. day'.current = <<>> \/ Len(day'.current) = 1
    BY <1>5, <1>7
  <2>. QED
    BY <1>5, <1>6, <2>1, <2>2, <2>3, <2>4, <2>5, <2>6 DEF DayInv
<1>. QED
  BY <1>7, <1>8

\* The client takes a day.
LEMMA TakeDayOK ==
  ASSUME QueryType, query.open, GapInv, DayInv, DaysGiven, TakeDay
  PROVE  DayInv' /\ DaysGiven'
<1>1. /\ UNCHANGED <<aggregation, stored, query, gap, hours>>
      /\ day.current # <<>>
      /\ days' = days \o day.current /\ day' = Taken(day)
  BY DEF TakeDay
<1>2. /\ AllDays' = AllDays
      /\ \A it, x : Gathered(it, x)' <=> Gathered(it, x)
  BY <1>1, SameReference
<1>3. /\ IsAggregator(day')
      /\ \A rows : Gathered(day, rows) => Gathered(day', rows)
      /\ day'.timestamp = day.timestamp /\ day'.rows = day.rows
      /\ day'.current = <<>> /\ day'.closed = day.closed
  BY <1>1, TakenOK DEF DayInv
<1>4. /\ day.current = <<AllDays[Len(days) + 1]>> /\ Len(day.current) = 1
      /\ days \in Seq(Range(AllDays)) /\ DaysOut <= Len(AllDays)
      /\ \A i \in 1 .. Len(days) : days[i] = AllDays[i]
  BY <1>1 DEF DayInv, DaysGiven
<1>5. Len(days) \in Nat /\ DaysOut = Len(days) + 1
  BY <1>4 DEF DaysOut
<1>6. Len(AllDays) \in Nat /\ DOMAIN AllDays = 1 .. Len(AllDays)
  <2>1. CASE ~HasHours
    BY <2>1, AllDaysShape
  <2>2. CASE HasHours
    BY <2>2, AllDaysShape
  <2>. QED
    BY <2>1, <2>2
<1>7. AllDays[Len(days) + 1] \in Range(AllDays)
  BY <1>4, <1>5, <1>6 DEF Range
<1>8. /\ days' \in Seq(Range(AllDays)) /\ Len(days') = Len(days) + 1
      /\ \A i \in 1 .. Len(days') : days'[i] = AllDays[i]
  <2>. DEFINE x == AllDays[Len(days) + 1]
  <2>1. days' = days \o <<x>> /\ x \in Range(AllDays)
    BY <1>1, <1>4, <1>7
  <2>2. x = AllDays[Len(days) + 1]
    OBVIOUS
  <2>. HIDE DEF x
  <2>3. /\ days' \in Seq(Range(AllDays)) /\ Len(days') = Len(days) + 1
        /\ days'[Len(days) + 1] = x /\ \A i \in 1 .. Len(days) : days'[i] = days[i]
    BY <1>4, <1>5, <2>1
  <2>. QED
    BY <1>4, <1>5, <2>2, <2>3
<1>9. DaysOut' = DaysOut
  BY <1>3, <1>5, <1>8 DEF DaysOut
<1>10. DaysGiven'
  BY <1>2, <1>3, <1>4, <1>8, <1>9 DEF DaysGiven
<1>11. DayInv'
  <2>1. (Through' <=> Through) /\ \A d : HoursOf(d)' = HoursOf(d)
    BY <1>1, <1>3 DEF Through, HoursOf
  <2>2. HoursOf(day.timestamp)' = HoursOf(day.timestamp)
    BY <1>1, <1>3 DEF HoursOf
  <2>3. Through' \/ Gathered(day, HoursOf(day.timestamp))'
    BY <1>2, <1>3, <2>1, <2>2 DEF DayInv
  <2>4. Through' => Gathered(day, {})'
    BY <1>2, <1>3, <2>1 DEF DayInv
  <2>5. hours' # <<>> /\ Through' => DaysOut' = Len(AllDays')
    BY <1>1, <1>2, <1>9, <2>1 DEF DayInv
  <2>6. hours' # <<>> /\ ~Through' =>
          day'.timestamp = calcDayTimestamp(hours'[1].timestamp) + (DaysOut' * Day)
    BY <1>1, <1>3, <1>9, <2>1 DEF DayInv
  <2>7. /\ day'.timestamp = IF hours' = <<>> THEN -1 ELSE calcDayTimestamp(hours'[Len(hours')].timestamp)
        /\ hours' = <<>> => DaysOut' = 0
        /\ day'.closed => Through' /\ day'.current = <<>>
    BY <1>1, <1>3, <1>9, <2>1 DEF DayInv
  <2>. QED
    BY <1>3, <2>3, <2>4, <2>5, <2>6, <2>7 DEF DayInv
<1>. QED
  BY <1>10, <1>11

-----------------------------------------------------------------------------
(* The chain                                                               *)

\* A query begins with new iterators.
Opening ==
  /\ QueryType /\ query.open
  /\ position = -1 /\ base = NewAggregator /\ gap = NoGap /\ day = NewAggregator
  /\ hours = <<>> /\ days = <<>>

\* An aggregating iterator begins before all periods.
LEMMA NewFields ==
  /\ NewAggregator.timestamp = -1 /\ NewAggregator.rows = 0
  /\ NewAggregator.current = <<>> /\ ~NewAggregator.closed
BY DEF NewAggregator

\* The invariant holds when a query begins.
LEMMA OpeningOK == Opening => BaseInv /\ GapInv /\ DayInv /\ DaysGiven
<1>. SUFFICES ASSUME Opening
              PROVE  BaseInv /\ GapInv /\ DayInv /\ DaysGiven
  OBVIOUS
<1>1. QueryType /\ query.open
  BY DEF Opening
<1>2. Source \subseteq Nat /\ FilledHours \subseteq Nat
  BY <1>1, SourceFacts, FilledFacts
<1>3. /\ IsAggregator(base) /\ Gathered(base, {}) /\ base.timestamp = -1 /\ base.rows = 0
      /\ base.current = <<>> /\ ~base.closed
      /\ IsAggregator(day) /\ Gathered(day, {}) /\ day.timestamp = -1 /\ day.rows = 0
      /\ day.current = <<>> /\ ~day.closed
  BY NewOK, NewFields DEF Opening
<1>4. position = -1
  BY DEF Opening
<1>5. Read = {}
  <2>1. \A s \in Source : ~(s <= position)
    BY <1>2, <1>4
  <2>. QED
    BY <2>1 DEF Read
<1>6. Rest = FilledHours
  <2>1. CASE Drained
    <3>1. Source = {}
      <4>1. \A s \in Source : position < s
        BY <1>2, <1>4
      <4>. QED
        BY <2>1, <4>1 DEF Drained, Left
    <3>2. FilledHours = {}
      BY <3>1 DEF FilledHours
    <3>. QED
      BY <1>3, <2>1, <3>2 DEF Rest, Coming
  <2>2. CASE ~Drained
    <3>1. \A h \in FilledHours : h >= base.timestamp
      <4>1. base.timestamp = -1
        BY <1>3
      <4>2. \A h \in FilledHours : h \in Nat
        BY <1>2
      <4>. QED
        BY <4>1, <4>2
    <3>. QED
      BY <1>3, <2>2, <3>1 DEF Rest, Coming
  <2>. QED
    BY <2>1, <2>2
<1>7. BaseInv
  <2>1. {RawRow(s) : s \in Read} = {}
    BY <1>5
  <2>2. position = -1
    BY DEF Opening
  <2>. QED
    BY <1>3, <2>1, <2>2 DEF BaseInv
<1>8. /\ IsGap(gap) /\ ~gap.failed /\ ~gap.opened /\ ~gap.closed /\ gap.current = <<>> /\ hours = <<>>
      /\ gap = NoGap
  BY NoGapOK DEF Opening
<1>9. Len(AllHours) \in Nat /\ Len(AllDays) \in Nat
  <2>1. CASE ~HasHours
    <3>1. AllHours = <<>> /\ AllDays = <<>>
      BY <1>1, <2>1, AllDaysShape
    <3>. QED
      BY <3>1
  <2>2. CASE HasHours
    BY <1>1, <2>2, HourTimes, AllDaysShape
  <2>. QED
    BY <2>1, <2>2
<1>10. HoursGiven
  BY <1>8, <1>9 DEF HoursGiven, Given
<1>11. GapInv
  BY <1>6, <1>8, <1>10 DEF GapInv, Unopened, GapBegins, NextRow
<1>12. days = <<>> /\ DaysOut = 0
  BY <1>3 DEF DaysOut, Opening
<1>13. DaysGiven
  BY <1>3, <1>9, <1>12 DEF DaysGiven
<1>14. DayInv
  <2>1. ~Through
    BY <1>8 DEF Through
  <2>2. HoursOf(day.timestamp) = {}
    BY <1>8 DEF HoursOf
  <2>. QED
    BY <1>3, <1>8, <1>12, <2>1, <2>2 DEF DayInv
<1>. QED
  BY <1>7, <1>11, <1>13, <1>14

\* The same after the step that opens a query.
LEMMA OpeningNext == Opening' => BaseInv' /\ GapInv' /\ DayInv' /\ DaysGiven'
BY OpeningOK, PTL

\* The invariant holds initially,
LEMMA ChainInit == Init => ChainInv
<1>. SUFFICES ASSUME Init
              PROVE  ChainInv
  OBVIOUS
<1>1. query.open = FALSE
  BY DEF Init, NoQuery
<1>2. QueryType
  BY <1>1 DEF Init, QueryType
<1>3. Closed
  BY DEF Init, Closed
<1>. QED
  BY <1>1, <1>2, <1>3 DEF ChainInv

\* is kept by every step,
LEMMA ChainStep == ChainInv /\ [Next]_vars => ChainInv'
<1>. SUFFICES ASSUME ChainInv, [Next]_vars
              PROVE  ChainInv'
  OBVIOUS
<1>1. QueryType /\ Closed /\ (query.open => BaseInv /\ GapInv /\ DayInv /\ DaysGiven)
  BY DEF ChainInv
<1>2. ASSUME query.open, UNCHANGED <<aggregation, stored, query>>,
             BaseInv' /\ GapInv' /\ DayInv' /\ DaysGiven'
      PROVE  ChainInv'
  BY <1>1, <1>2 DEF ChainInv, QueryType, Closed
<1>3. CASE BaseRow
  <2>1. query.open /\ UNCHANGED <<aggregation, stored, query, gap, day, hours, days>>
    BY <1>3 DEF BaseRow
  <2>2. BaseInv' /\ Rest' = Rest
    BY <1>1, <1>3, <2>1, BaseRowOK
  <2>3. Through' <=> Through
    BY <2>1 DEF Through
  <2>. QED
    BY <1>1, <1>2, <2>1, <2>2, <2>3, SameGap, SameDay
<1>4. CASE BaseEnd
  <2>1. query.open /\ UNCHANGED <<aggregation, stored, query, gap, day, hours, days>>
    BY <1>4 DEF BaseEnd
  <2>2. BaseInv' /\ Rest' = Rest
    BY <1>1, <1>4, <2>1, BaseEndOK
  <2>3. Through' <=> Through
    BY <2>1 DEF Through
  <2>. QED
    BY <1>1, <1>2, <2>1, <2>2, <2>3, SameGap, SameDay
<1>5. CASE GapOpen
  <2>1. query.open /\ ~gap.opened /\ UNCHANGED <<aggregation, stored, query, day, hours, days>>
    BY <1>5 DEF GapOpen
  <2>2. BaseInv' /\ GapInv'
    BY <1>1, <1>5, <2>1, GapOpenOK
  <2>3. ~Through
    BY <1>1, <2>1 DEF Through, GapInv
  <2>. QED
    BY <1>1, <1>2, <2>1, <2>2, <2>3, SameDay
<1>6. CASE GapNext
  <2>1. query.open /\ Wanting(gap) /\ UNCHANGED <<aggregation, stored, query, day, hours, days>>
    BY <1>6 DEF GapNext
  <2>2. BaseInv' /\ GapInv'
    BY <1>1, <1>6, <2>1, GapNextOK
  <2>3. ~Through
    BY <2>1 DEF Through, Wanting
  <2>. QED
    BY <1>1, <1>2, <2>1, <2>2, <2>3, SameDay
<1>7. CASE DayRow
  <2>1. /\ query.open /\ UNCHANGED <<aggregation, stored, query, position, base, days>>
        /\ gap.current # <<>>
        /\ gap' = Taken(gap) /\ hours' = Append(hours, gap.current[1])
    BY <1>7 DEF DayRow
  <2>2. BaseInv' /\ Rest' = Rest
    BY <1>1, <2>1, SameBase
  <2>3. /\ GapInv'
        /\ gap.current[1] = AllHours[Len(hours) + 1]
        /\ Len(hours) < Len(AllHours)
    BY <1>1, <2>1, <2>2, TakeHour
  <2>4. DayInv' /\ DaysGiven'
    BY <1>1, <1>7, <2>1, <2>3, DayRowOK
  <2>. QED
    BY <1>2, <2>1, <2>2, <2>3, <2>4
<1>8. CASE DayEnd
  <2>1. query.open /\ UNCHANGED <<aggregation, stored, query, position, base, gap, hours>>
    BY <1>8 DEF DayEnd
  <2>2. BaseInv' /\ Rest' = Rest
    BY <1>1, <2>1, SameBase
  <2>3. GapInv'
    BY <1>1, <2>1, <2>2, SameGap
  <2>4. DayInv' /\ DaysGiven'
    BY <1>1, <1>8, <2>1, DayEndOK
  <2>. QED
    BY <1>2, <2>1, <2>2, <2>3, <2>4
<1>9. CASE TakeDay
  <2>1. query.open /\ UNCHANGED <<aggregation, stored, query, position, base, gap, hours>>
    <3>1. day.current # <<>> /\ UNCHANGED <<aggregation, stored, query, position, base, gap, hours>>
      BY <1>9 DEF TakeDay
    <3>2. ~query.open => day.current = <<>>
      BY <1>1, NewFields DEF Closed
    <3>. QED
      BY <3>1, <3>2
  <2>2. BaseInv' /\ Rest' = Rest
    BY <1>1, <2>1, SameBase
  <2>3. GapInv'
    BY <1>1, <2>1, <2>2, SameGap
  <2>4. DayInv' /\ DaysGiven'
    BY <1>1, <1>9, <2>1, TakeDayOK
  <2>. QED
    BY <1>2, <2>1, <2>2, <2>3, <2>4
<1>10. CASE CloseQuery
  <2>1. query'.open = FALSE
    BY <1>10 DEF CloseQuery, NoQuery
  <2>2. Closed'
    BY <1>10 DEF CloseQuery, Closed, NewAggregator, NoGap
  <2>3. QueryType'
    BY <1>1, <1>10, <2>1 DEF CloseQuery, QueryType
  <2>. QED
    BY <2>1, <2>2, <2>3 DEF ChainInv
<1>11. ASSUME NEW start \in Bound, NEW end \in Bound, OpenQuery(start, end)
       PROVE  ChainInv'
  <2>1. /\ ~query.open /\ query' = [open |-> TRUE, start |-> start, end |-> end]
        /\ UNCHANGED <<aggregation, stored, position, base, gap, day, hours, days>>
    BY <1>11 DEF OpenQuery
  <2>2. QueryType' /\ query'.open
    BY <1>1, <2>1 DEF QueryType
  <2>3. Opening'
    BY <1>1, <2>1, <2>2 DEF Opening, Closed, NewAggregator, NoGap
  <2>4. BaseInv' /\ GapInv' /\ DayInv' /\ DaysGiven'
    BY <2>3, OpeningNext
  <2>. QED
    BY <2>2, <2>4 DEF ChainInv, Closed
<1>12. CASE UNCHANGED vars
  <2>1. UNCHANGED <<aggregation, stored, query, position, base, gap, day, hours, days>>
    BY <1>12 DEF vars
  <2>2. CASE query.open
    <3>1. BaseInv' /\ Rest' = Rest
      BY <1>1, <2>1, <2>2, SameBase
    <3>2. Through' <=> Through
      BY <2>1 DEF Through
    <3>. QED
      BY <1>1, <1>2, <2>1, <2>2, <3>1, <3>2, SameGap, SameDay
  <2>3. CASE ~query.open
    BY <1>1, <2>1, <2>3 DEF ChainInv, QueryType, Closed, NewAggregator, NoGap
  <2>. QED
    BY <2>2, <2>3
<1>. QED
  BY <1>3, <1>4, <1>5, <1>6, <1>7, <1>8, <1>9, <1>10, <1>11, <1>12 DEF Next, Pull

-----------------------------------------------------------------------------
(* Theorems                                                                *)

\* and holds always.
LEMMA ChainHolds == Spec => []ChainInv
BY ChainInit, ChainStep, PTL DEF Spec

\* A sequence whose elements are the first ones of another begins it.
LEMMA PrefixOK ==
  ASSUME NEW S, NEW s \in Seq(S), NEW t \in Seq(S), Len(s) <= Len(t),
         \A i \in 1 .. Len(s) : s[i] = t[i]
  PROVE  IsPrefix(s, t) /\ (Len(s) = Len(t) => s = t)
<1>1. SubSeq(s, 1, Len(s)) = s
  OBVIOUS
<1>2. SubSeq(s, 1, Len(s)) = SubSeq(t, 1, Len(s))
  OBVIOUS
<1>. QED
  BY <1>2 DEF IsPrefix

\* Numbered rows are a sequence.
LEMMA RowsAreSequence ==
  ASSUME NEW f, NEW N \in Nat, DOMAIN f = 1 .. N, f = [i \in 1 .. N |-> f[i]]
  PROVE  f \in Seq(Range(f))
<1>1. \A i \in 1 .. N : f[i] \in Range(f)
  BY DEF Range
<1>2. f \in [1 .. N -> Range(f)]
  BY <1>1
<1>. QED
  BY <1>2

\* All hours and all days are sequences of rows.
LEMMA AllAreSequences ==
  ASSUME QueryType, query.open
  PROVE  AllHours \in Seq(Range(AllHours)) /\ AllDays \in Seq(Range(AllDays))
<1>1. CASE ~HasHours
  <2>1. AllHours = <<>> /\ AllDays = <<>>
    BY <1>1, AllDaysShape
  <2>. QED
    BY <2>1
<1>2. CASE HasHours
  <2>1. PICK N \in Nat \ {0} : AllHours = [i \in 1 .. N |-> HourRow(First + ((i - 1) * Hour))]
    BY <1>2, AllHoursShape
  <2>2. PICK M \in Nat \ {0} :
          AllDays = [m \in 1 .. M |-> DayOf(DayTime(1) + ((m - 1) * Day),
                                            DayHours(DayTime(1) + ((m - 1) * Day)))]
    BY <1>2, AllDaysShape
  <2>3. DOMAIN AllHours = 1 .. N /\ AllHours = [i \in 1 .. N |-> AllHours[i]]
    BY <2>1
  <2>4. DOMAIN AllDays = 1 .. M /\ AllDays = [m \in 1 .. M |-> AllDays[m]]
    BY <2>2
  <2>. QED
    BY <2>3, <2>4, RowsAreSequence
<1>. QED
  BY <1>1, <1>2

\* Whatever rows are missing, none comes to NanGapIterator behind the hour that is due: its
\* exception is never thrown.
THEOREM GapNeverFails == Spec => []~gap.failed
<1>1. ChainInv => ~gap.failed
  BY NoGapOK DEF ChainInv, Closed, QueryType, GapInv
<1>. QED
  BY <1>1, ChainHolds, PTL

\* For any stored rows, columns, bounds of a query and widths of hour and day: the rows that
\* leave NanGapIterator are those of the reference, in order, none left out and none twice.
THEOREM HoursCorrect == Spec => []HoursExact
<1>1. ChainInv => HoursExact
  <2>. SUFFICES ASSUME ChainInv, query.open
                PROVE  IsPrefix(hours, AllHours) /\ (day.closed => hours = AllHours)
    BY DEF HoursExact
  <2>1. QueryType /\ GapInv /\ DayInv
    BY DEF ChainInv
  <2>2. /\ hours \in Seq(Range(AllHours)) /\ AllHours \in Seq(Range(AllHours))
        /\ Len(hours) <= Len(AllHours) /\ Len(hours) \in Nat
        /\ \A i \in 1 .. Len(hours) : hours[i] = AllHours[i]
    BY <2>1, AllAreSequences, HoursTaken DEF GapInv, HoursGiven
  <2>3. day.closed => Len(hours) = Len(AllHours)
    <3>1. day.closed => gap.closed /\ gap.current = <<>>
      BY <2>1 DEF DayInv, Through
    <3>2. day.closed => Given = Len(hours)
      BY <2>2, <3>1 DEF Given
    <3>. QED
      BY <2>1, <3>1, <3>2 DEF GapInv
  <2>. QED
    BY <2>2, <2>3, PrefixOK
<1>. QED
  BY <1>1, ChainHolds, PTL

\* For the same: the days a client gets are the aggregates of those hours, a day with too few
\* of them as a row of NaN, none left out and none twice.
THEOREM DaysCorrect == Spec => []DaysExact
<1>1. ChainInv => DaysExact
  <2>. SUFFICES ASSUME ChainInv, query.open
                PROVE  IsPrefix(days, AllDays) /\ (day.closed => days = AllDays)
    BY DEF DaysExact
  <2>1. QueryType /\ GapInv /\ DayInv /\ DaysGiven
    BY DEF ChainInv
  <2>2. /\ days \in Seq(Range(AllDays)) /\ AllDays \in Seq(Range(AllDays))
        /\ DaysOut <= Len(AllDays)
        /\ \A i \in 1 .. Len(days) : days[i] = AllDays[i]
    BY <2>1, AllAreSequences DEF DaysGiven
  <2>3. day.current = <<>> => DaysOut = Len(days)
    BY <2>2 DEF DaysOut
  <2>4. Len(days) <= Len(AllDays)
    <3>1. day.current # <<>> => DaysOut = Len(days) + 1
      BY <2>1, <2>2 DEF DaysOut, DayInv
    <3>. QED
      BY <2>2, <2>3, <3>1
  <2>5. day.closed => Len(days) = Len(AllDays)
    <3>1. CASE hours # <<>>
      BY <2>1, <2>3, <3>1 DEF DayInv
    <3>2. CASE hours = <<>>
      <4>1. day.closed => Through /\ day.current = <<>> /\ DaysOut = 0
        BY <2>1, <3>2 DEF DayInv
      <4>2. day.closed => Len(days) = 0
        BY <2>3, <4>1
      <4>3. day.closed => Len(AllHours) = 0
        <5>1. Through => Given = Len(hours) /\ Given = Len(AllHours)
          <6>1. Through => gap.closed /\ gap.current = <<>>
            BY DEF Through
          <6>. QED
            BY <2>1, <6>1, LenHours DEF GapInv, Given
        <5>2. Len(hours) = 0
          BY <3>2
        <5>. QED
          BY <4>1, <5>1, <5>2
      <4>4. day.closed => AllDays = <<>>
        <5>1. HasHours => Len(AllHours) # 0
          BY <2>1, HourTimes
        <5>. QED
          BY <2>1, <4>3, <5>1, AllDaysShape
      <4>. QED
        BY <4>2, <4>4
    <3>. QED
      BY <3>1, <3>2
  <2>. QED
    BY <2>2, <2>4, <2>5, PrefixOK
<1>. QED
  BY <1>1, ChainHolds, PTL
=============================================================================
