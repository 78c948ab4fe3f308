---------------------------- MODULE MasksProofs ----------------------------
(***************************************************************************)
(* The masks, in two parts: addInterval and MaskIterator for any ints, any *)
(* intervals and any number of additions, unless open starts and open ends *)
(* are mixed (MaskIntervals); and the rows of the mask files and the masks *)
(* made from them, for any rows and any number of requests (MaskRegistry). *)
(***************************************************************************)
EXTENDS MaskIntervals, MaskRegistry, TLAPS


(***************************************************************************)
(* The loop invariant of addInterval: the result is in order and ends      *)
(* before both the interval to place and the rest of the list, and result, *)
(* interval and rest together hold the minutes of the old list and of the  *)
(* argument.                                                               *)
(***************************************************************************)
In(s, t) == \E k \in 1..Len(s) : t \in Minutes(s[k])
InRest(t) == \E k \in pos..Len(intervals) : t \in Minutes(intervals[k])

Before(s, i) == \A k \in 1..Len(s) : s[k].end + 1 < i.start

\* Intervals touch the ends of the ints only if some input does.
Bordered(i) ==
  /\ i.start = IntMin => \E j \in Inputs : j.start = IntMin
  /\ i.end = IntMax => \E j \in Inputs : j.end = IntMax

LoopInv ==
  adding =>
    /\ Separate(result)
    /\ \A k \in 1..Len(result) : Bordered(result[k])
    /\ HasCurrent => Before(result, Current)
    /\ pending => Before(result, interval) /\ Bordered(interval)
    /\ \A t \in Int32 :
         t \in masked \cup Minutes(added) <=>
           In(result, t) \/ InRest(t) \/ (pending /\ t \in Minutes(interval))

ListInv ==
  /\ Separate(intervals)
  /\ \A k \in 1..Len(intervals) : Bordered(intervals[k])
  /\ \A t \in Int32 : In(intervals, t) <=> t \in masked
  /\ ~adding => result = <<>>

QueryInv ==
  query.open =>
    /\ Separate(query.list)
    /\ \A t \in Int32 : In(query.list, t) <=> t \in query.expected
    /\ \A j \in 1..(query.index - 1) : \E s \in query.seen : query.list[j].end < s
    /\ query.hidden = query.seen \cap query.expected

IntervalsInv == TypeOK /\ LoopInv /\ ListInv /\ QueryInv

-----------------------------------------------------------------------------
(* Lists and intervals                                                     *)

\* Appending an interval behind all others keeps a list separate and adds
\* the minutes of the interval.
LEMMA AppendLast ==
  ASSUME NEW s \in Seq(Interval), NEW i \in Interval, Separate(s), Before(s, i)
  PROVE  /\ Append(s, i) \in Seq(Interval)
         /\ Separate(Append(s, i))
         /\ \A t : In(Append(s, i), t) <=> In(s, t) \/ t \in Minutes(i)
         /\ \A k \in 1..Len(Append(s, i)) :
              Append(s, i)[k] = i \/ \E j \in 1..Len(s) : Append(s, i)[k] = s[j]
<1>. DEFINE a == Append(s, i)
<1>1. /\ a \in Seq(Interval)
      /\ Len(a) = Len(s) + 1
      /\ Len(s) \in Nat
      /\ \A k \in 1..Len(s) : a[k] = s[k]
      /\ a[Len(s) + 1] = i
  OBVIOUS
<1>. HIDE DEF a
<1>2. Separate(a)
  BY <1>1 DEF Separate, Before
<1>3. \A k \in 1..Len(a) : a[k] = i \/ \E j \in 1..Len(s) : a[k] = s[j]
  <2>1. \A k \in 1..Len(a) : k = Len(s) + 1 \/ k \in 1..Len(s)
    BY <1>1
  <2>. QED
    BY <1>1, <2>1
<1>4. \A t : In(a, t) <=> In(s, t) \/ t \in Minutes(i)
  <2>1. \A k \in 1..Len(s) : k \in 1..Len(a)
    BY <1>1
  <2>2. Len(s) + 1 \in 1..Len(a)
    BY <1>1
  <2>. QED
    BY <1>1, <1>3, <2>1, <2>2 DEF In
<1>. QED
  BY <1>1, <1>2, <1>3, <1>4 DEF a

\* What is before j stays so when an interval apart from j is appended.
LEMMA AppendBefore ==
  ASSUME NEW s \in Seq(Interval), NEW i \in Interval, NEW j, Before(s, j),
         i.end + 1 < j.start
  PROVE  Before(Append(s, i), j)
BY DEF Before

\* Intervals that do not touch are apart, without overflow or with it.
LEMMA Apart ==
  ASSUME NEW a \in Interval, NEW b \in Interval, ~isAdjacentOrOverlap(a, b), less(a, b)
  PROVE  a.end + 1 < b.start
BY IntAssumption DEF isAdjacentOrOverlap, less, Inc, Interval, Int32

\* Intervals that touch have an envelope without foreign minutes, unless an
\* open end is taken to touch an open start.
LEMMA Envelope ==
  ASSUME NoWrap, NEW a \in Interval, NEW b \in Interval, Bordered(a), Bordered(b),
         isAdjacentOrOverlap(a, b)
  PROVE  /\ getEnvelope(a, b) \in Interval
         /\ \A t \in Int32 :
              t \in Minutes(getEnvelope(a, b)) <=> t \in Minutes(a) \/ t \in Minutes(b)
         /\ Bordered(getEnvelope(a, b))
<1>1. /\ a.start \in Int32 /\ a.end \in Int32 /\ a.start <= a.end
      /\ b.start \in Int32 /\ b.end \in Int32 /\ b.start <= b.end
  BY DEF Interval
<1>2. ~(a.end = IntMax /\ b.start = IntMin) /\ ~(b.end = IntMax /\ a.start = IntMin)
  BY DEF NoWrap, Bordered
<1>3. a.end + 1 >= b.start /\ b.end + 1 >= a.start
  BY <1>1, <1>2, IntAssumption DEF isAdjacentOrOverlap, Inc, Int32
<1>4. /\ getEnvelope(a, b).start = Smaller(a.start, b.start)
      /\ getEnvelope(a, b).end = Larger(a.end, b.end)
      /\ getEnvelope(a, b) \in [start : Int32, end : Int32]
  BY <1>1 DEF getEnvelope, Smaller, Larger
<1>5. getEnvelope(a, b) \in Interval
  BY <1>1, <1>4, IntAssumption DEF Interval, Smaller, Larger, Int32
<1>6. ASSUME NEW t \in Int32
      PROVE  t \in Minutes(getEnvelope(a, b)) <=> t \in Minutes(a) \/ t \in Minutes(b)
  BY <1>1, <1>3, <1>4, IntAssumption DEF Minutes, Smaller, Larger, Int32
<1>7. Bordered(getEnvelope(a, b))
  BY <1>4 DEF Bordered, Smaller, Larger
<1>. QED
  BY <1>5, <1>6, <1>7

\* What is before two intervals is before their envelope.
LEMMA EnvelopeBefore ==
  ASSUME NEW s, NEW a, NEW b, Before(s, a), Before(s, b)
  PROVE  Before(s, getEnvelope(a, b))
BY DEF Before, getEnvelope, Smaller

-----------------------------------------------------------------------------
(* The invariant is inductive                                              *)

LEMMA NoIntervalType == NoInterval \in Interval
BY IntAssumption DEF NoInterval, Interval, Int32

LEMMA IntervalsInitOK == IntervalsInit => IntervalsInv
<1>. SUFFICES ASSUME IntervalsInit
              PROVE  IntervalsInv
  OBVIOUS
<1>1. /\ <<>> \in Seq(Interval)
      /\ Len(<<>>) = 0
      /\ Separate(<<>>)
      /\ \A t : ~In(<<>>, t)
  BY DEF Separate, In
<1>2. TypeOK
  <2>1. NoQuery \in QueryType
    BY <1>1 DEF NoQuery, QueryType
  <2>2. NoQuery.index \in 1..(Len(NoQuery.list) + 1)
    BY <1>1 DEF NoQuery
  <2>3. IsList(intervals) /\ IsList(result) /\ pos \in 1..(Len(intervals) + 1)
    BY <1>1 DEF IntervalsInit, IsList
  <2>4. adding \in BOOLEAN /\ pending \in BOOLEAN /\ masked \subseteq Int32
    BY DEF IntervalsInit
  <2>5. interval \in Interval /\ added \in Interval /\ query = NoQuery
    BY NoIntervalType DEF IntervalsInit
  <2>. QED
    BY <2>1, <2>2, <2>3, <2>4, <2>5 DEF TypeOK
<1>3. LoopInv /\ QueryInv
  BY DEF IntervalsInit, LoopInv, QueryInv, NoQuery
<1>4. ListInv
  BY <1>1 DEF IntervalsInit, ListInv
<1>. QED
  BY <1>2, <1>3, <1>4 DEF IntervalsInv

\* Steps that leave the list, the masked minutes and the query alone leave
\* what the invariant says of them alone.
LEMMA SameList ==
  ASSUME ListInv, adding, UNCHANGED <<intervals, masked, adding>>
  PROVE  ListInv'
BY DEF ListInv, Separate, In, Bordered

LEMMA SameQuery ==
  ASSUME QueryInv, UNCHANGED query
  PROVE  QueryInv'
BY DEF QueryInv, Separate, In

LEMMA SameLoop ==
  ASSUME LoopInv, UNCHANGED <<intervals, locals, masked>>
  PROVE  LoopInv'
BY DEF LoopInv, locals, Separate, Bordered, HasCurrent, Current, Before, In, InRest

\* The current interval: an interval of the list, before the rest of it.
LEMMA CurrentInterval ==
  ASSUME TypeOK, ListInv, HasCurrent
  PROVE  /\ Current \in Interval
         /\ Bordered(Current)
         /\ pos \in 1..Len(intervals)
         /\ pos + 1 \in 1..(Len(intervals) + 1)
         /\ pos + 1 <= Len(intervals) =>
              intervals[pos + 1] \in Interval /\ Current.end + 1 < intervals[pos + 1].start
         /\ \A t : InRest(t) <=>
              t \in Minutes(Current) \/ \E k \in (pos + 1)..Len(intervals) : t \in Minutes(intervals[k])
<1>1. pos \in 1..Len(intervals) /\ Len(intervals) \in Nat
  BY DEF TypeOK, IsList, HasCurrent
<1>2. intervals \in Seq(Interval)
  BY DEF TypeOK, IsList
<1>3. Current \in Interval /\ Bordered(Current)
  BY <1>1, <1>2 DEF Current, ListInv
<1>4. pos + 1 <= Len(intervals) => Current.end + 1 < intervals[pos + 1].start
  BY <1>1 DEF Current, ListInv, Separate
<1>5. \A k : k \in pos..Len(intervals) <=> k = pos \/ k \in (pos + 1)..Len(intervals)
  BY <1>1
<1>. QED
  BY <1>1, <1>2, <1>3, <1>4, <1>5 DEF InRest, Current

LEMMA AddIntervalOK ==
  ASSUME IntervalsInv, NEW i \in Inputs, AddInterval(i)
  PROVE  IntervalsInv'
<1>1. TypeOK'
  BY InputsAssumption DEF IntervalsInv, TypeOK, AddInterval, IsList
<1>2. QueryInv'
  BY SameQuery DEF IntervalsInv, AddInterval
<1>3. ListInv'
  BY DEF IntervalsInv, AddInterval, ListInv, Separate, In, Bordered
<1>4. Len(intervals) \in Nat
  BY DEF IntervalsInv, TypeOK, IsList
<1>5. LoopInv'
  <2>1. \A t \in Int32 : InRest(t)' <=> t \in masked
    BY <1>4 DEF IntervalsInv, ListInv, AddInterval, In, InRest
  <2>2. Bordered(i)
    BY DEF Bordered
  <2>3. ~In(<<>>, 0) /\ \A t : ~In(<<>>, t)
    BY DEF In
  <2>. QED
    BY <2>1, <2>2, <2>3 DEF AddInterval, LoopInv, Separate, Before, Bordered, In
<1>. QED
  BY <1>1, <1>2, <1>3, <1>5 DEF IntervalsInv

\* What the steps that append to the result have in common.
LEMMA AppendOK ==
  ASSUME IntervalsInv, adding, NEW i \in Interval, Bordered(i), Before(result, i),
         result' = Append(result, i)
  PROVE  /\ IsList(result)' /\ Separate(result)'
         /\ \A k \in 1..Len(result') : Bordered(result'[k])
         /\ \A t : In(result', t) <=> In(result, t) \/ t \in Minutes(i)
         /\ \A j : Before(result, j) /\ i.end + 1 < j.start => Before(result', j)
<1>1. result \in Seq(Interval) /\ Separate(result)
  BY DEF IntervalsInv, TypeOK, IsList, LoopInv
<1>2. /\ result' \in Seq(Interval)
      /\ Separate(result')
      /\ \A t : In(result', t) <=> In(result, t) \/ t \in Minutes(i)
      /\ \A k \in 1..Len(result') : result'[k] = i \/ \E j \in 1..Len(result) : result'[k] = result[j]
  BY <1>1, AppendLast
<1>3. \A k \in 1..Len(result') : Bordered(result'[k])
  BY <1>2 DEF IntervalsInv, LoopInv
<1>4. ASSUME NEW j, Before(result, j), i.end + 1 < j.start
      PROVE  Before(result', j)
  BY <1>1, <1>4, AppendBefore
<1>. QED
  BY <1>2, <1>3, <1>4 DEF IsList, Separate

\* What is before an interval is before everything behind it.
LEMMA BeforeLater ==
  ASSUME NEW s \in Seq(Interval), NEW a \in Interval, NEW b \in Interval, Before(s, a),
         a.end + 1 < b.start
  PROVE  Before(s, b)
<1>. SUFFICES ASSUME NEW k \in 1..Len(s)
              PROVE  s[k].end + 1 < b.start
  BY DEF Before
<1>1. s[k] \in Interval /\ s[k].end + 1 < a.start
  BY DEF Before
<1>. QED
  BY <1>1, IntAssumption DEF Interval, Int32

\* The loop keeps the current interval and goes on to the next one.
LEMMA KeepOK ==
  ASSUME IntervalsInv, adding, HasCurrent,
         pending => Current.end + 1 < interval.start,
         result' = Append(result, Current), pos' = pos + 1,
         UNCHANGED <<intervals, adding, interval, pending, added, query, masked>>
  PROVE  IntervalsInv'
<1>1. TypeOK /\ ListInv /\ LoopInv /\ QueryInv
  BY DEF IntervalsInv
<1>2. ListInv' /\ QueryInv'
  BY <1>1, SameList, SameQuery
<1>3. /\ Current \in Interval /\ Bordered(Current)
      /\ pos + 1 \in 1..(Len(intervals) + 1)
      /\ pos + 1 <= Len(intervals) =>
              intervals[pos + 1] \in Interval /\ Current.end + 1 < intervals[pos + 1].start
      /\ \A t : InRest(t) <=> t \in Minutes(Current) \/ InRest(t)'
  BY <1>1, CurrentInterval DEF InRest
<1>4. Before(result, Current) /\ result \in Seq(Interval) /\ interval \in Interval
  BY <1>1 DEF LoopInv, TypeOK, IsList
<1>5. /\ IsList(result)' /\ Separate(result)'
      /\ \A k \in 1..Len(result') : Bordered(result'[k])
      /\ \A t : In(result', t) <=> In(result, t) \/ t \in Minutes(Current)
      /\ \A j : Before(result, j) /\ Current.end + 1 < j.start => Before(result', j)
  BY <1>3, <1>4, AppendOK
<1>6. TypeOK'
  BY <1>1, <1>3, <1>5 DEF TypeOK, IsList
<1>7. HasCurrent' => Before(result, Current)' 
  <2>1. SUFFICES ASSUME HasCurrent'
                 PROVE  Before(result', Current')
    BY DEF Before
  <2>2. Current' = intervals[pos + 1] /\ pos + 1 <= Len(intervals)
    BY <2>1 DEF Current, HasCurrent
  <2>3. Before(result, intervals[pos + 1])
    BY <1>3, <1>4, <2>2, BeforeLater
  <2>. QED
    BY <1>3, <1>5, <2>2, <2>3
<1>8. pending' => Before(result, interval)' /\ Bordered(interval)'
  <2>1. pending => Before(result, interval) /\ Bordered(interval)
    BY <1>1 DEF LoopInv
  <2>2. pending => Before(result', interval)
    BY <1>5, <2>1
  <2>. QED
    BY <2>1, <2>2 DEF Before, Bordered
<1>9. LoopInv'
  <2>1. \A t \in Int32 :
         t \in masked \cup Minutes(added) <=>
           In(result, t) \/ InRest(t) \/ (pending /\ t \in Minutes(interval))
    BY <1>1 DEF LoopInv
  <2>2. \A t \in Int32 :
         t \in masked' \cup Minutes(added') <=>
           In(result', t) \/ InRest(t)' \/ (pending' /\ t \in Minutes(interval'))
    BY <1>3, <1>5, <2>1
  <2>. QED
    BY <1>5, <1>7, <1>8, <2>2 DEF LoopInv, Bordered, Separate, In, Before, Minutes
<1>. QED
  BY <1>2, <1>6, <1>9 DEF IntervalsInv

LEMMA KeepRestOK ==
  ASSUME IntervalsInv, KeepRest
  PROVE  IntervalsInv'
BY KeepOK DEF KeepRest

LEMMA KeepBeforeOK ==
  ASSUME IntervalsInv, KeepBefore
  PROVE  IntervalsInv'
<1>1. Current \in Interval /\ interval \in Interval
  BY CurrentInterval DEF IntervalsInv, KeepBefore, TypeOK
<1>2. ~isAdjacentOrOverlap(interval, Current) <=> ~isAdjacentOrOverlap(Current, interval)
  BY <1>1 DEF isAdjacentOrOverlap
<1>3. Current.end + 1 < interval.start
  BY <1>1, <1>2, Apart DEF KeepBefore
<1>. QED
  BY <1>3, KeepOK DEF KeepBefore

\* The loop puts the new interval into the result, before the current one or
\* at the end.
LEMMA PutOK ==
  ASSUME IntervalsInv, adding, pending,
         HasCurrent => interval.end + 1 < Current.start,
         result' = Append(result, interval), pending' = FALSE,
         UNCHANGED <<intervals, adding, interval, pos, added, query, masked>>
  PROVE  IntervalsInv'
<1>1. TypeOK /\ ListInv /\ LoopInv /\ QueryInv
  BY DEF IntervalsInv
<1>2. ListInv' /\ QueryInv'
  BY <1>1, SameList, SameQuery
<1>3. interval \in Interval /\ Bordered(interval) /\ Before(result, interval)
  BY <1>1 DEF TypeOK, LoopInv
<1>4. /\ IsList(result)' /\ Separate(result)'
      /\ \A k \in 1..Len(result') : Bordered(result'[k])
      /\ \A t : In(result', t) <=> In(result, t) \/ t \in Minutes(interval)
      /\ \A j : Before(result, j) /\ interval.end + 1 < j.start => Before(result', j)
  BY <1>3, AppendOK
<1>5. TypeOK'
  BY <1>1, <1>4 DEF TypeOK, IsList
<1>6. HasCurrent => Before(result', Current)
  BY <1>1, <1>4 DEF LoopInv
<1>7. HasCurrent' = HasCurrent /\ Current' = Current /\ \A t : InRest(t)' <=> InRest(t)
  BY DEF HasCurrent, Current, InRest
<1>8. \A t \in Int32 :
        t \in masked \cup Minutes(added) <=> In(result', t) \/ InRest(t)
  BY <1>1, <1>4 DEF LoopInv
<1>9. LoopInv'
  BY <1>4, <1>6, <1>7, <1>8 DEF LoopInv, Bordered, Separate, In, Before, Minutes
<1>. QED
  BY <1>2, <1>5, <1>9 DEF IntervalsInv

LEMMA PutLastOK ==
  ASSUME IntervalsInv, PutLast
  PROVE  IntervalsInv'
BY PutOK DEF PutLast

LEMMA PutBeforeOK ==
  ASSUME IntervalsInv, PutBefore
  PROVE  IntervalsInv'
<1>1. Current \in Interval /\ interval \in Interval
  BY CurrentInterval DEF IntervalsInv, PutBefore, TypeOK
<1>2. interval.end + 1 < Current.start
  BY <1>1, Apart DEF PutBefore
<1>. QED
  BY <1>2, PutOK DEF PutBefore

LEMMA MergeOK ==
  ASSUME NoWrap, IntervalsInv, Merge
  PROVE  IntervalsInv'
<1>1. TypeOK /\ ListInv /\ LoopInv /\ QueryInv
  BY DEF IntervalsInv
<1>2. ListInv' /\ QueryInv'
  BY <1>1, SameList, SameQuery DEF Merge
<1>3. /\ Current \in Interval /\ Bordered(Current)
      /\ pos + 1 \in 1..(Len(intervals) + 1)
      /\ pos + 1 <= Len(intervals) =>
              intervals[pos + 1] \in Interval /\ Current.end + 1 < intervals[pos + 1].start
      /\ \A t : InRest(t) <=> t \in Minutes(Current) \/ InRest(t)'
  BY <1>1, CurrentInterval DEF InRest, Merge
<1>4. /\ interval \in Interval /\ Bordered(interval) /\ Before(result, interval)
      /\ Before(result, Current) /\ result \in Seq(Interval)
  BY <1>1 DEF LoopInv, TypeOK, IsList, Merge
<1>5. /\ interval' \in Interval /\ Bordered(interval') /\ Before(result, interval')
      /\ \A t \in Int32 : t \in Minutes(interval') <=> t \in Minutes(interval) \/ t \in Minutes(Current)
  <2>1. interval' = getEnvelope(interval, Current) /\ isAdjacentOrOverlap(interval, Current)
    BY DEF Merge
  <2>. QED
    BY <1>3, <1>4, <2>1, Envelope, EnvelopeBefore
<1>6. TypeOK'
  BY <1>1, <1>3, <1>5 DEF TypeOK, Merge, IsList
<1>7. HasCurrent' => Before(result, Current')
  <2>1. SUFFICES ASSUME HasCurrent'
                 PROVE  Before(result, Current')
    OBVIOUS
  <2>2. Current' = intervals[pos + 1] /\ pos + 1 <= Len(intervals)
    BY <2>1 DEF Current, HasCurrent, Merge
  <2>3. Before(result, intervals[pos + 1])
    BY <1>3, <1>4, <2>2, BeforeLater
  <2>. QED
    BY <2>2, <2>3
<1>8. \A t \in Int32 :
         t \in masked \cup Minutes(added) <=>
           In(result, t) \/ InRest(t)' \/ t \in Minutes(interval')
  BY <1>1, <1>3, <1>5 DEF LoopInv, Merge
<1>9. LoopInv'
  BY <1>1, <1>5, <1>7, <1>8 DEF LoopInv, Merge, Bordered, Separate, In, Before, Minutes
<1>. QED
  BY <1>2, <1>6, <1>9 DEF IntervalsInv

LEMMA FinishOK ==
  ASSUME IntervalsInv, Finish
  PROVE  IntervalsInv'
<1>1. TypeOK /\ ListInv /\ LoopInv /\ QueryInv
  BY DEF IntervalsInv
<1>2. QueryInv'
  BY <1>1, SameQuery DEF Finish
<1>3. \A t : ~InRest(t)
  <2>1. pos \in Nat /\ Len(intervals) \in Nat /\ pos > Len(intervals)
    BY <1>1 DEF Finish, HasCurrent, TypeOK, IsList
  <2>. QED
    BY <2>1 DEF InRest
<1>4. Minutes(added) \subseteq Int32
  BY <1>1, IntAssumption DEF TypeOK, Interval, Minutes, Int32
<1>5. TypeOK'
  <2>1. Len(result) \in Nat /\ <<>> \in Seq(Interval)
    BY <1>1 DEF TypeOK, IsList
  <2>2. 1 \in 1..(Len(result) + 1)
    BY <2>1
  <2>. QED
    BY <1>1, <1>4, <2>1, <2>2, NoIntervalType DEF TypeOK, Finish, IsList
<1>6. LoopInv'
  BY DEF LoopInv, Finish
<1>7. \A t \in Int32 : In(result, t) <=> t \in masked \cup Minutes(added)
  BY <1>1, <1>3 DEF LoopInv, Finish
<1>8. ListInv'
  BY <1>1, <1>7 DEF ListInv, LoopInv, Finish, Separate, Bordered, In, Minutes
<1>. QED
  BY <1>2, <1>5, <1>6, <1>8 DEF IntervalsInv

\* Queries leave the mask and the loop alone.
LEMMA OpenQueryOK ==
  ASSUME IntervalsInv, OpenQuery
  PROVE  IntervalsInv'
<1>1. TypeOK /\ ListInv /\ LoopInv /\ QueryInv
  BY DEF IntervalsInv
<1>2. LoopInv' /\ ListInv'
  BY <1>1, SameLoop DEF OpenQuery, locals, ListInv, Separate, In, Bordered
<1>3. query' = [open |-> TRUE, list |-> intervals, index |-> 1, seen |-> {}, hidden |-> {},
                expected |-> masked]
  BY DEF OpenQuery, NoQuery
<1>4. Len(intervals) \in Nat /\ intervals \in Seq(Interval) /\ masked \subseteq Int32
  BY <1>1 DEF TypeOK, IsList
<1>5. TypeOK'
  <2>1. query' \in QueryType /\ query'.index \in 1..(Len(query'.list) + 1)
    BY <1>3, <1>4 DEF QueryType
  <2>. QED
    BY <1>1, <2>1 DEF OpenQuery, TypeOK, IsList, locals
<1>6. QueryInv'
  BY <1>1, <1>3, <1>4 DEF QueryInv, ListInv, Separate, In
<1>. QED
  BY <1>2, <1>5, <1>6 DEF IntervalsInv

\* The entry is hidden iff some interval holds it: intervals before index end
\* before earlier entries, those between index and k before this one, and those
\* behind k start behind the end of k.
LEMMA NextEntryOK ==
  ASSUME IntervalsInv, NEW t \in Timestamps, NextEntry(t)
  PROVE  IntervalsInv'
<1>1. TypeOK /\ ListInv /\ LoopInv /\ QueryInv /\ query.open
  BY DEF IntervalsInv, NextEntry
<1>. DEFINE L == query.list
<1>2. /\ L \in Seq(Interval) /\ Len(L) \in Nat
      /\ query.index \in 1..(Len(L) + 1)
      /\ query.seen \subseteq Timestamps /\ t \in Int32
      /\ \A s \in query.seen : s \in Int /\ s < t
      /\ \A j \in 1..Len(L) : L[j].start \in Int /\ L[j].end \in Int /\ L[j].start <= L[j].end
  <2>1. L \in Seq(Interval) /\ query.index \in 1..(Len(L) + 1) /\ query.seen \subseteq Timestamps
    BY <1>1 DEF TypeOK, IsList, QueryType
  <2>2. \A x \in Int32 : x \in Int
    BY IntAssumption DEF Int32
  <2>3. \A i \in Interval : i.start \in Int /\ i.end \in Int /\ i.start <= i.end
    BY <2>2 DEF Interval
  <2>. QED
    BY <2>1, <2>2, <2>3, TimestampsAssumption DEF NextEntry
<1>3. PICK k \in query.index..(Len(L) + 1) :
        /\ nextInterval(L, query.index, k, t)
        /\ query' = [query EXCEPT
                      !.index = k,
                      !.seen = @ \cup {t},
                      !.hidden = IF k <= Len(query.list) /\ query.list[k].start <= t
                                   THEN @ \cup {t}
                                   ELSE @]
  BY DEF NextEntry
<1>4. k \in 1..(Len(L) + 1)
  BY <1>2, <1>3
<1>5. \A j \in 1..(k - 1) : L[j].end < t
  <2>1. ASSUME NEW j \in 1..(k - 1), j < query.index
        PROVE  L[j].end < t
    <3>1. PICK s \in query.seen : L[j].end < s
      BY <1>1, <1>2, <2>1 DEF QueryInv
    <3>2. j \in 1..Len(L)
      BY <1>2, <1>4
    <3>. QED
      BY <1>2, <3>1, <3>2 DEF Int32
  <2>2. ASSUME NEW j \in 1..(k - 1), ~(j < query.index)
        PROVE  L[j].end < t
    BY <1>2, <1>3, <1>4, <2>2 DEF nextInterval
  <2>. QED
    BY <2>1, <2>2
<1>6. k <= Len(L) => t <= L[k].end
  BY <1>3 DEF nextInterval
<1>7. t \in query.expected <=> k <= Len(L) /\ L[k].start <= t
  <2>1. t \in query.expected <=> \E j \in 1..Len(L) : t \in Minutes(L[j])
    BY <1>1, <1>2 DEF QueryInv, In
  <2>2. ASSUME k <= Len(L), L[k].start <= t
        PROVE  t \in Minutes(L[k]) /\ k \in 1..Len(L)
    BY <1>2, <1>4, <1>6, <2>2, IntAssumption DEF Minutes, Int32
  <2>3. ASSUME NEW j \in 1..Len(L), t \in Minutes(L[j])
        PROVE  k <= Len(L) /\ L[k].start <= t
    <3>1. L[j].start <= t /\ t <= L[j].end
      BY <1>2, <2>3 DEF Minutes
    <3>2. k <= j
      <4>1. ASSUME j < k
            PROVE  FALSE
        <5>1. L[j].end < t
          BY <1>4, <1>5, <4>1
        <5>. QED
          BY <1>2, <3>1, <5>1, IntAssumption DEF Int32
      <4>. QED
        BY <1>4, <4>1
    <3>3. CASE k = j
      BY <3>1, <3>3
    <3>4. CASE k < j
      <4>1. k \in 1..Len(L) /\ k \in 1..(j - 1)
        BY <1>4, <3>4
      <4>2. L[k].end + 1 < L[j].start
        BY <1>1, <4>1 DEF QueryInv, Separate
      <4>. QED
        BY <1>2, <3>1, <4>1, <4>2, IntAssumption DEF Int32
    <3>. QED
      BY <1>4, <3>2, <3>3, <3>4
  <2>. QED
    BY <2>1, <2>2, <2>3
<1>8. /\ query'.open /\ query'.list = L /\ query'.index = k
      /\ query'.seen = query.seen \cup {t}
      /\ query'.expected = query.expected
      /\ query'.hidden = IF t \in query.expected THEN query.hidden \cup {t} ELSE query.hidden
  BY <1>1, <1>3, <1>7 DEF TypeOK, QueryType
<1>9. QueryInv'
  <2>1. query'.hidden = query'.seen \cap query'.expected
    BY <1>1, <1>8 DEF QueryInv
  <2>2. \A j \in 1..(query'.index - 1) : \E s \in query'.seen : query'.list[j].end < s
    BY <1>5, <1>8
  <2>. QED
    BY <1>1, <1>8, <2>1, <2>2 DEF QueryInv, Separate, In
<1>10. TypeOK'
  <2>1. query \in QueryType /\ k \in Nat
    BY <1>1, <1>4 DEF TypeOK
  <2>2. query' \in QueryType
    BY <1>3, <2>1 DEF QueryType
  <2>. QED
    BY <1>1, <1>4, <1>8, <2>2 DEF TypeOK, IsList, NextEntry, locals
<1>11. LoopInv' /\ ListInv'
  BY <1>1, SameLoop DEF NextEntry, locals, ListInv, Separate, In, Bordered
<1>. QED
  BY <1>9, <1>10, <1>11 DEF IntervalsInv

LEMMA CloseQueryOK ==
  ASSUME IntervalsInv, CloseQuery
  PROVE  IntervalsInv'
<1>1. TypeOK /\ ListInv /\ LoopInv /\ QueryInv
  BY DEF IntervalsInv
<1>2. LoopInv' /\ ListInv'
  BY <1>1, SameLoop DEF CloseQuery, locals, ListInv, Separate, In, Bordered
<1>3. NoQuery \in QueryType
  BY DEF NoQuery, QueryType
<1>4. NoQuery.index \in 1..(Len(NoQuery.list) + 1) /\ ~NoQuery.open
  BY DEF NoQuery
<1>5. TypeOK' /\ QueryInv'
  BY <1>1, <1>3, <1>4 DEF TypeOK, IsList, QueryInv, CloseQuery, locals
<1>. QED
  BY <1>2, <1>5 DEF IntervalsInv

LEMMA IntervalsNextOK ==
  ASSUME NoWrap, IntervalsInv, [IntervalsNext]_intervalsVars
  PROVE  IntervalsInv'
<1>1. CASE \E i \in Inputs : AddInterval(i)
  BY <1>1, AddIntervalOK
<1>2. CASE KeepRest
  BY <1>2, KeepRestOK
<1>3. CASE PutLast
  BY <1>3, PutLastOK
<1>4. CASE Merge
  BY <1>4, MergeOK
<1>5. CASE PutBefore
  BY <1>5, PutBeforeOK
<1>6. CASE KeepBefore
  BY <1>6, KeepBeforeOK
<1>7. CASE Finish
  BY <1>7, FinishOK
<1>8. CASE OpenQuery
  BY <1>8, OpenQueryOK
<1>9. CASE \E t \in Timestamps : NextEntry(t)
  BY <1>9, NextEntryOK
<1>10. CASE CloseQuery
  BY <1>10, CloseQueryOK
<1>11. CASE UNCHANGED intervalsVars
  <2>1. ListInv' /\ LoopInv' /\ QueryInv'
    BY <1>11, SameLoop, SameQuery DEF IntervalsInv, intervalsVars, ListInv, Separate, In, Bordered, locals
  <2>2. TypeOK'
    BY <1>11 DEF IntervalsInv, TypeOK, IsList, intervalsVars, locals
  <2>. QED
    BY <2>1, <2>2 DEF IntervalsInv
<1>. QED
  BY <1>1, <1>2, <1>3, <1>4, <1>5, <1>6, <1>7, <1>8, <1>9, <1>10, <1>11 DEF IntervalsNext

-----------------------------------------------------------------------------
(* The theorems                                                            *)

\* Unless open starts and open ends are mixed, the loop invariant holds.
THEOREM IntervalsInductive == NoWrap => (IntervalsSpec => []IntervalsInv)
<1>. SUFFICES ASSUME NoWrap
             PROVE  IntervalsSpec => []IntervalsInv
  OBVIOUS
<1>1. IntervalsInv /\ [IntervalsNext]_intervalsVars => IntervalsInv'
  BY IntervalsNextOK
<1>. QED
  BY <1>1, IntervalsInitOK, PTL DEF IntervalsSpec

\* Lists of intervals, positions and queries have the types of the code.
THEOREM TypeCorrect == NoWrap => (IntervalsSpec => []TypeOK)
<1>. SUFFICES ASSUME NoWrap
             PROVE  IntervalsSpec => []TypeOK
  OBVIOUS
<1>1. IntervalsInv => TypeOK
  BY DEF IntervalsInv
<1>. QED
  BY <1>1, IntervalsInductive, PTL

\* The lists stay in order and without touching neighbours.
THEOREM SeparateCorrect == NoWrap => (IntervalsSpec => []IntervalsSeparate)
<1>. SUFFICES ASSUME NoWrap
             PROVE  IntervalsSpec => []IntervalsSeparate
  OBVIOUS
<1>1. IntervalsInv => IntervalsSeparate
  <2>1. result = <<>> => Separate(result)
    BY DEF Separate
  <2>. QED
    BY <2>1 DEF IntervalsInv, TypeOK, ListInv, LoopInv, IntervalsSeparate
<1>. QED
  BY <1>1, IntervalsInductive, PTL

\* A mask hides exactly the minutes that were added to it.
THEOREM MaskCorrect == NoWrap => (IntervalsSpec => []MaskExact)
<1>. SUFFICES ASSUME NoWrap
             PROVE  IntervalsSpec => []MaskExact
  OBVIOUS
<1>1. IntervalsInv => MaskExact
  BY DEF IntervalsInv, TypeOK, ListInv, MaskExact, Cover, In
<1>. QED
  BY <1>1, IntervalsInductive, PTL

\* A query hides exactly the entries masked when it began.
THEOREM QueryCorrect == NoWrap => (IntervalsSpec => []MaskedEntriesHidden)
<1>. SUFFICES ASSUME NoWrap
             PROVE  IntervalsSpec => []MaskedEntriesHidden
  OBVIOUS
<1>1. IntervalsInv => MaskedEntriesHidden
  BY DEF IntervalsInv, QueryInv, MaskedEntriesHidden
<1>. QED
  BY <1>1, IntervalsInductive, PTL

-----------------------------------------------------------------------------
(***************************************************************************)
(* MaskRegistry:                                                           *)
(*   - what is stored of acknowledged rows stays in the mask files, as     *)
(*     long as requests do not overlap (AckedRowsCorrect, from IInv);      *)
(*   - a reload that is alone makes the masks of the files (ReloadCorrect) *)
(*     and requests that do not overlap leave the masks of the files       *)
(*     (QuietMasksCorrect), both from MaskInv, which needs IInv.           *)
(***************************************************************************)
Kept(rows, row) == \E k \in DOMAIN rows : rows[k] = row

FileType == file \in [MaskType -> [rows : Seq(Row), version : Nat]]

AckedRow == [by : {"mask", "masklist"}, row : Row]

AckedType == acked \in [MaskType -> SUBSET AckedRow]

AdderType == adder = Idle \/ (adder.type \in MaskType /\ adder.row \in Row)

ListerType ==
  /\ lister.pc = "write" => /\ lister.type \in MaskType /\ lister.rows \in Seq(Row)
                            /\ lister.added \subseteq AckedRow
  /\ lister.pc = "clear" => DOMAIN lister = {"pc", "types"}

\* One request at a time, its file is still the one it opened or read, and what it is
\* about to write has the acknowledged rows.
OneRequest ==
  /\ adder = Idle \/ lister = Idle
  /\ adder # Idle => adder.version = file[adder.type].version
  /\ lister.pc = "write" =>
       \A a \in (acked[lister.type] \ lister.removed) \cup lister.added :
         Kept(lister.rows, Stored(a))

RowsKept == \A type \in MaskType : \A a \in acked[type] : Kept(file[type].rows, Stored(a))

IInv ==
  /\ FileType
  /\ AckedType
  /\ AdderType
  /\ ListerType
  /\ undisturbed => OneRequest /\ RowsKept

\* What Handler_mask stores is the row, what Handler_masklist stores has no station.
LEMMA StoredIs ==
  \A row : /\ Stored(Acked("mask", row)) = row
           /\ Stored(Acked("masklist", row)) = [row EXCEPT !.known = FALSE]
BY DEF Stored, Acked

\* Only a row without its station can be stored as another row than the one sent: a
\* stored row of a known station is a row that Handler_mask took.
LEMMA StoredKnown ==
  ASSUME NEW a, NEW row, a.row \in Row, row.known, Stored(a) = row,
         a = Acked(a.by, a.row), a.by \in {"mask", "masklist"}
  PROVE  a = Acked("mask", row)
<1>1. CASE a.by = "masklist"
  <2>1. ~[a.row EXCEPT !.known = FALSE].known
    BY DEF Row
  <2>. QED
    BY <1>1, <2>1 DEF Stored
<1>2. CASE a.by = "mask"
  BY <1>2 DEF Stored
<1>. QED
  BY <1>1, <1>2

\* A row stays where another is appended ...
LEMMA AppendKeeps ==
  ASSUME NEW rows \in Seq(Row), NEW new \in Row
  PROVE  /\ Append(rows, new) \in Seq(Row)
         /\ Kept(Append(rows, new), new)
         /\ \A row : Kept(rows, row) => Kept(Append(rows, new), row)
<1>1. /\ Append(rows, new) \in Seq(Row)
      /\ DOMAIN rows = 1..Len(rows) /\ Len(rows) \in Nat
      /\ DOMAIN Append(rows, new) = 1..(Len(rows) + 1)
      /\ Append(rows, new)[Len(rows) + 1] = new
      /\ \A k \in 1..Len(rows) : Append(rows, new)[k] = rows[k]
  OBVIOUS
<1>. QED
  BY <1>1 DEF Kept

\* ... and where another line is written anew.
LEMMA RewriteKeeps ==
  ASSUME NEW rows \in Seq(Row), NEW line \in DOMAIN rows, NEW s \in Sensor
  PROVE  LET new == [rows EXCEPT ![line] = RemovedRow(@, s)]
         IN  /\ new \in Seq(Row)
             /\ \A row : Kept(rows, row) /\ row # rows[line] => Kept(new, row)
<1>1. rows[line] \in Row
  OBVIOUS
<1>2. RemovedRow(rows[line], s) \in Row
  BY <1>1 DEF RemovedRow, Row
<1>. HIDE DEF Row, RemovedRow
<1>3. [rows EXCEPT ![line] = RemovedRow(@, s)] \in Seq(Row)
  BY <1>2
<1>. QED
  BY <1>3 DEF Kept

LEMMA InitOK == Init => IInv
<1>. SUFFICES ASSUME Init PROVE IInv
  OBVIOUS
<1>1. <<>> \in Seq(Row)
  OBVIOUS
<1>2. FileType
  BY <1>1 DEF Init, FileType
<1>3. Idle.pc = "idle"
  BY DEF Idle
<1>. QED
  BY <1>2, <1>3 DEF Init, IInv, AckedType, AdderType, ListerType, OneRequest, RowsKept

\* The handler of single masks.
LEMMA AdderOK ==
  ASSUME IInv,
         \/ \E type \in MaskType, row \in NewRows : AddOpen(type, row)
         \/ AddReject \/ AddGet \/ AddPut \/ AddCommit
  PROVE  IInv'
<1>1. \A pc, type, row, version, minutes, ok :
        /\ AdderAt(pc, type, row, version, minutes, ok).pc = pc
        /\ AdderAt(pc, type, row, version, minutes, ok).type = type
        /\ AdderAt(pc, type, row, version, minutes, ok).row = row
        /\ AdderAt(pc, type, row, version, minutes, ok).version = version
  BY DEF AdderAt
<1>2. Idle.pc = "idle"
  BY DEF Idle
<1>3. ASSUME NEW type \in MaskType, NEW row \in NewRows, AddOpen(type, row)
      PROVE  IInv'
  <2>1. /\ adder'.pc = "get" /\ adder'.type = type /\ adder'.row = row
        /\ adder'.version = file[type].version /\ row \in Row
    <3>1. adder' = AdderAt("get", type, row, file[type].version, {}, FALSE)
      BY <1>3 DEF AddOpen
    <3>2. row \in Row
      BY RowsAssumption
    <3>. QED
      BY <3>1, <3>2 DEF AdderAt
  <2>2. UNCHANGED <<file, lister, acked>> /\ (undisturbed' => undisturbed /\ lister = Idle)
    BY <1>3 DEF AddOpen
  <2>. QED
    BY <1>2, <2>1, <2>2
    DEF IInv, FileType, AckedType, AdderType, ListerType, OneRequest, RowsKept
<1>4. ASSUME AddReject \/ AddGet \/ AddPut \/ AddCommit
      PROVE  IInv'
  <2>1. \E pc, minutes, ok : AdderGoesOn(pc, minutes, ok)
    BY <1>4 DEF AddReject, AddGet, AddPut, AddCommit
  <2>2. adder'.type = adder.type /\ adder'.row = adder.row /\ adder'.version = adder.version
    BY <1>1, <2>1 DEF AdderGoesOn
  <2>3. adder.pc # "idle"
    BY <1>4 DEF AddReject, AddGet, AddPut, AddCommit
  <2>4. UNCHANGED <<file, lister, acked, undisturbed>>
    BY <1>4 DEF AddReject, AddGet, AddPut, AddCommit, history
  <2>. QED
    BY <1>2, <2>2, <2>3, <2>4
    DEF IInv, FileType, AckedType, AdderType, ListerType, OneRequest, RowsKept
<1>. QED
  BY <1>3, <1>4

\* The row is appended to the file that was opened, or lost with it.
LEMMA CloseOK ==
  ASSUME IInv, AddClose
  PROVE  IInv'
<1>. DEFINE type == adder.type
            new == Append(file[type].rows, adder.row)
<1>1. Idle.pc = "idle"
  BY DEF Idle
<1>2. /\ adder # Idle /\ type \in MaskType /\ adder.row \in Row
      /\ file[type].rows \in Seq(Row)
  BY <1>1 DEF AddClose, IInv, AdderType, FileType
<1>3. /\ new \in Seq(Row) /\ Kept(new, adder.row)
      /\ \A row : Kept(file[type].rows, row) => Kept(new, row)
  BY <1>2, AppendKeeps
<1>4. file' = IF adder.version = file[type].version THEN [file EXCEPT ![type].rows = new] ELSE file
  BY DEF AddClose
<1>5. acked' = IF adder.ok THEN [acked EXCEPT ![type] = @ \cup {Acked("mask", adder.row)}]
             ELSE acked
  BY DEF AddClose
<1>6. adder' = Idle /\ UNCHANGED <<lister, undisturbed>>
  BY DEF AddClose
<1>. HIDE DEF new
<1>7. FileType' /\ AckedType' /\ AdderType' /\ ListerType'
  <2>1. FileType'
    BY <1>2, <1>3, <1>4 DEF IInv, FileType
  <2>2. Acked("mask", adder.row) \in AckedRow
    BY <1>2 DEF Acked, AckedRow
  <2>3. AckedType'
    BY <1>2, <1>5, <2>2 DEF IInv, AckedType
  <2>4. AdderType' /\ ListerType'
    BY <1>6 DEF IInv, AdderType, ListerType
  <2>. QED
    BY <2>1, <2>3, <2>4
<1>8. ASSUME undisturbed
      PROVE  OneRequest' /\ RowsKept'
  <2>1. lister = Idle /\ adder.version = file[type].version /\ RowsKept
    BY <1>2, <1>8 DEF IInv, OneRequest
  <2>2. OneRequest'
    BY <1>1, <1>6, <2>1 DEF OneRequest
  <2>3. /\ file'[type].rows = new
        /\ \A t \in MaskType : t # type => file'[t] = file[t]
    BY <1>2, <1>4, <2>1 DEF IInv, FileType
  <2>4. /\ \A a \in acked'[type] : a \in acked[type] \/ a = Acked("mask", adder.row)
        /\ \A t \in MaskType : t # type => acked'[t] = acked[t]
    BY <1>2, <1>5 DEF IInv, AckedType
  <2>5. RowsKept'
    BY <1>3, <2>1, <2>3, <2>4, StoredIs DEF RowsKept
  <2>. QED
    BY <2>2, <2>5
<1>. QED
  BY <1>6, <1>7, <1>8 DEF IInv

\* The handler of the list begins: what it will write has all rows but the one it removes.
LEMMA ListOK ==
  ASSUME IInv,
         \/ \E type \in MaskType, row \in NewRows : ListAdd(type, row)
         \/ \E type \in MaskType : \E line \in DOMAIN file[type].rows, s \in Sensor :
              ListRemove(type, line, s)
  PROVE  IInv'
<1>1. Idle.pc = "idle"
  BY DEF Idle
<1>. DEFINE Begins ==
        /\ lister'.pc = "write" /\ lister'.type \in MaskType /\ lister'.rows \in Seq(Row)
        /\ lister'.added \in SUBSET AckedRow
        /\ \A a \in AckedRow :
             Kept(file[lister'.type].rows, Stored(a)) /\ a \notin lister'.removed
               => Kept(lister'.rows, Stored(a))
        /\ \A a \in lister'.added : Kept(lister'.rows, Stored(a))
        /\ undisturbed' = (undisturbed /\ adder = Idle)
        /\ UNCHANGED <<file, adder, acked>>
<1>2. Begins
  <2>1. ASSUME NEW type \in MaskType, NEW row \in NewRows, ListAdd(type, row)
        PROVE  Begins
    <3>. DEFINE new == [row EXCEPT !.known = FALSE]
                rows == Append(file[type].rows, new)
    <3>1. file[type].rows \in Seq(Row)
      BY DEF IInv, FileType
    <3>2. new \in Row /\ row \in Row
      BY RowsAssumption DEF Row
    <3>3. /\ rows \in Seq(Row) /\ Kept(rows, new)
          /\ \A r : Kept(file[type].rows, r) => Kept(rows, r)
      BY <3>1, <3>2, AppendKeeps
    <3>4. /\ lister' = [pc |-> "write", type |-> type, reload |-> FALSE, removed |-> {},
                        added |-> {Acked("masklist", row)}, rows |-> rows]
          /\ undisturbed' = (undisturbed /\ adder = Idle)
          /\ UNCHANGED <<file, adder, acked>>
      BY <2>1 DEF ListAdd
    <3>7. /\ lister'.pc = "write" /\ lister'.type = type /\ lister'.rows = rows
          /\ lister'.removed = {} /\ lister'.added = {Acked("masklist", row)}
      BY <3>4
    <3>5. {Acked("masklist", row)} \in SUBSET AckedRow
      BY <3>2 DEF Acked, AckedRow
    <3>6. Stored(Acked("masklist", row)) = new
      BY StoredIs
    <3>. HIDE DEF new, rows
    <3>. QED
      BY ZenonT(40), <3>3, <3>4, <3>5, <3>6, <3>7
  <2>2. ASSUME NEW type \in MaskType, NEW line \in DOMAIN file[type].rows, NEW s \in Sensor,
               ListRemove(type, line, s)
        PROVE  Begins
    <3>. DEFINE rows == file[type].rows
                new == [rows EXCEPT ![line] = RemovedRow(@, s)]
    <3>1. rows \in Seq(Row) /\ rows[line].known
      BY <2>2 DEF IInv, FileType, ListRemove
    <3>2. /\ new \in Seq(Row)
          /\ \A row : Kept(rows, row) /\ row # rows[line] => Kept(new, row)
      BY <3>1, RewriteKeeps
    <3>3. /\ lister' = [pc |-> "write", type |-> type, reload |-> TRUE,
                        removed |-> {Acked("mask", rows[line])}, added |-> {}, rows |-> new]
          /\ undisturbed' = (undisturbed /\ adder = Idle)
          /\ UNCHANGED <<file, adder, acked>>
      BY <2>2 DEF ListRemove
    <3>6. /\ lister'.pc = "write" /\ lister'.type = type /\ lister'.rows = new
          /\ lister'.removed = {Acked("mask", rows[line])} /\ lister'.added = {}
      BY <3>3
    <3>. HIDE DEF new, rows
    <3>4. \A a \in AckedRow : Stored(a) = rows[line] => a = Acked("mask", rows[line])
      <4>1. \A a \in AckedRow : /\ a.row \in Row /\ a.by \in {"mask", "masklist"}
                               /\ a = Acked(a.by, a.row)
        BY DEF AckedRow, Acked
      <4>. QED
        BY <3>1, <4>1, StoredKnown
    <3>5. \A a \in AckedRow : /\ Kept(rows, Stored(a))
                             /\ a \notin {Acked("mask", rows[line])}
                             => Kept(new, Stored(a))
      BY <3>2, <3>4
    <3>. QED
      BY ZenonT(40), <3>2, <3>3, <3>5, <3>6 DEF rows
  <2>. QED
    BY <2>1, <2>2
<1>3. \A type \in MaskType : \A a \in acked[type] : a \in AckedRow
  BY DEF IInv, AckedType
<1>. HIDE DEF Begins
<1>4. FileType' /\ AckedType' /\ AdderType' /\ ListerType'
  BY <1>2 DEF Begins, IInv, FileType, AckedType, AdderType, ListerType
<1>5. ASSUME undisturbed'
      PROVE  OneRequest' /\ RowsKept'
  <2>1. adder = Idle /\ RowsKept /\ UNCHANGED <<file, adder, acked>> /\ lister'.pc = "write"
    BY <1>2, <1>5 DEF Begins, IInv
  <2>2. \A a \in (acked'[lister'.type] \ lister'.removed) \cup lister'.added :
          Kept(lister'.rows, Stored(a))
    BY <1>2, <1>3, <1>5 DEF Begins, IInv, RowsKept
  <2>. QED
    BY <2>1, <2>2 DEF OneRequest, RowsKept
<1>. QED
  BY <1>4, <1>5 DEF IInv

\* The new file has the rows that have to stay.
LEMMA WriteOK ==
  ASSUME IInv, ListWrite
  PROVE  IInv'
<1>. DEFINE type == lister.type
<1>1. Idle.pc = "idle"
  BY DEF Idle
<1>2. /\ lister # Idle /\ type \in MaskType /\ lister.rows \in Seq(Row)
      /\ file[type].version \in Nat
  BY <1>1 DEF ListWrite, IInv, ListerType, FileType
<1>3. /\ file' = [file EXCEPT ![type] = [rows |-> lister.rows, version |-> file[type].version + 1]]
      /\ acked' = [acked EXCEPT ![type] = (@ \ lister.removed) \cup lister.added]
      /\ lister' = Idle \/ lister' = [pc |-> "clear", types |-> {}]
      /\ UNCHANGED <<adder, undisturbed>>
  BY DEF ListWrite
<1>4. FileType' /\ AckedType' /\ AdderType' /\ ListerType'
  <2>1. FileType'
    BY <1>2, <1>3 DEF IInv, FileType
  <2>2. lister.added \subseteq AckedRow
    BY DEF ListWrite, IInv, ListerType
  <2>3. AckedType'
    BY <1>2, <1>3, <2>2 DEF IInv, AckedType
  <2>4. AdderType' /\ ListerType'
    BY <1>1, <1>3 DEF IInv, AdderType, ListerType
  <2>. QED
    BY <2>1, <2>3, <2>4
<1>5. ASSUME undisturbed
      PROVE  OneRequest' /\ RowsKept'
  <2>1. /\ adder = Idle /\ RowsKept
        /\ \A a \in (acked[type] \ lister.removed) \cup lister.added : Kept(lister.rows, Stored(a))
    BY <1>2, <1>5 DEF IInv, OneRequest, ListWrite
  <2>2. OneRequest'
    BY <1>1, <1>3, <2>1 DEF OneRequest
  <2>3. /\ file'[type].rows = lister.rows /\ acked'[type] = (acked[type] \ lister.removed) \cup lister.added
        /\ \A t \in MaskType : t # type => file'[t] = file[t] /\ acked'[t] = acked[t]
    BY <1>2, <1>3 DEF IInv, FileType, AckedType
  <2>4. RowsKept'
    BY <2>1, <2>3 DEF RowsKept
  <2>. QED
    BY <2>2, <2>4
<1>. QED
  BY <1>3, <1>4, <1>5 DEF IInv

\* Reloading changes masks only.
LEMMA ReloadOK ==
  ASSUME IInv, ClearMasks \/ Load \/ LoadGet \/ LoadPut \/ LoadCommit \/ LoadDone
  PROVE  IInv'
<1>1. Idle.pc = "idle"
  BY DEF Idle
<1>2. /\ lister.pc # "idle" /\ lister.pc # "write"
      /\ UNCHANGED <<file, adder, acked, undisturbed>>
  BY DEF ClearMasks, Load, LoadGet, LoadPut, LoadCommit, LoadDone, history
<1>3. lister'.pc # "write" /\ ListerType'
  <2>1. CASE ClearMasks
    BY <2>1 DEF ClearMasks, IInv, ListerType
  <2>2. CASE Load \/ LoadGet \/ LoadPut \/ LoadCommit \/ LoadDone
    BY <1>1, <2>2 DEF Load, LoadGet, LoadPut, LoadCommit, LoadDone, ListerType
  <2>. QED
    BY <2>1, <2>2
<1>. QED
  BY <1>1, <1>2, <1>3 DEF IInv, FileType, AckedType, AdderType, OneRequest, RowsKept

LEMMA NextOK == IInv /\ [Next]_vars => IInv'
<1>. SUFFICES ASSUME IInv, [Next]_vars PROVE IInv'
  OBVIOUS
<1>1. CASE Crash
  <2>1. Idle.pc = "idle"
    BY DEF Idle
  <2>. QED
    BY <1>1, <2>1 DEF Crash, IInv, FileType, AckedType, AdderType, ListerType, OneRequest, RowsKept
<1>2. CASE UNCHANGED vars
  BY <1>2 DEF vars, history, IInv, FileType, AckedType, AdderType, ListerType, OneRequest, RowsKept
<1>. QED
  BY <1>1, <1>2, AdderOK, CloseOK, ListOK, WriteOK, ReloadOK DEF Next

\* What is stored of a row that either handler acknowledged (of Handler_masklist all but
\* the station) stays in its file until the row is removed, through appends, rewrites,
\* reloads and crashes, if requests did not overlap and none was cut off.
THEOREM AckedRowsCorrect == Spec => []AckedRowsStay
<1>1. IInv => AckedRowsStay
  BY DEF IInv, RowsKept, Kept, AckedRowsStay
<1>. QED
  BY InitOK, NextOK, <1>1, PTL DEF Spec

(***************************************************************************)
(* Reloading.  While a reload is alone, the masks are those of the files   *)
(* it has loaded, less what it has still to insert.  Requests that do not  *)
(* overlap start and end with the masks of the files.                      *)
(***************************************************************************)

\* The masks that the first n files of LoadMasks make.
SourcesMask(n, type, s) ==
  UNION {RowsMask(SourceRows(i), s) : i \in {i \in 1..4 : i <= n /\ SourceType(i) = type}}

\* What is still to be inserted of the file that is being loaded.
TodoMask(type, s) ==
  UNION {t.minutes : t \in {t \in lister.todo : type = SourceType(lister.source) /\ t.sensor = s}}

\* The mask that was read and merged, and will be written back.
Held(type, s) ==
  IF lister.pc = "put" /\ type = SourceType(lister.source) /\ s = lister.sensor
    THEN lister.mask ELSE {}

Masks == [MaskType -> [Sensor \cup {Star} -> SUBSET Minute]]

ToInsert == [line : Nat, sensor : Sensor, minutes : SUBSET Minute]

RegistryType ==
  /\ mask \in Masks
  /\ committed \in Masks
  /\ adder.pc = "put" => adder.mask \subseteq Minute
  /\ lister.pc \in {"idle", "write", "clear", "load", "insert", "put"}
  /\ lister.pc = "clear" => lister.types \in {{}, {"invalid"}}
  /\ lister.pc = "load" => lister.source \in 1..5
  /\ lister.pc \in {"insert", "put"} => lister.source \in 1..4 /\ lister.todo \subseteq ToInsert
  /\ lister.pc = "put" => lister.sensor \in Sensor /\ lister.mask \subseteq Minute

\* The lister has begun to clear the masks.
Reloading ==
  \/ lister.pc = "clear" /\ lister.types # {}
  \/ lister.pc \in {"load", "insert", "put"}

\* While a reload is alone, the masks are those of the files loaded so far, less what is
\* still to be inserted.
Cleared ==
  lister.pc = "clear" /\ lister.types # {} => mask["invalid"] = NoMasks["invalid"]
StarEmpty ==
  lister.pc \in {"load", "insert", "put"} => \A type \in MaskType : mask[type][Star] = {}
LoadedSoFar ==
  lister.pc = "load" =>
    \A type \in MaskType, s \in Sensor : mask[type][s] = SourcesMask(lister.source - 1, type, s)
NoMoreThanFiles ==
  lister.pc \in {"insert", "put"} =>
    \A type \in MaskType, s \in Sensor :
      mask[type][s] \cup Held(type, s) \cup TodoMask(type, s) \subseteq SourcesMask(lister.source, type, s)
NoLessThanFiles ==
  lister.pc \in {"insert", "put"} =>
    \A type \in MaskType, s \in Sensor :
      SourcesMask(lister.source, type, s) \subseteq mask[type][s] \cup Held(type, s) \cup TodoMask(type, s)
HeldIsMerged ==
  lister.pc = "put" => mask[SourceType(lister.source)][lister.sensor] \subseteq lister.mask

LoadInv ==
  Reloading /\ alone =>
    /\ adder = Idle
    /\ Cleared
    /\ StarEmpty
    /\ LoadedSoFar
    /\ NoMoreThanFiles
    /\ NoLessThanFiles
    /\ HeldIsMerged

\* The masks are those of the files and of the minutes of one more row.
MasksAre(type, s, minutes) == mask[type][Star] = {} => mask[type][s] = FileMask(type, s) \cup minutes

\* The minutes that the row of the adder masks once it is in the file.
Added(type, s) ==
  IF type = adder.type /\ Effective(adder.row) /\ s \in TargetSensors(adder.row)
    THEN adder.row.minutes ELSE {}

\* Until they are put, the masks are those of the file without the row.
BeforePut ==
  \A type \in MaskType, s \in Sensor :
    IF adder.pc = "put" /\ type = adder.type /\ s = adder.row.sensor /\ adder.row.known
      THEN mask[type][Star] = {} => adder.mask = FileMask(type, s) \cup adder.row.minutes
      ELSE MasksAre(type, s, {})

AdderInv ==
  /\ ~adder.row.removed
  /\ adder.pc \in {"get", "put"} => BeforePut
  /\ adder.pc \in {"put", "commit"} => adder.row.minutes # {}
  /\ adder.pc = "put" => adder.row.minutes \subseteq adder.mask
  /\ adder.pc \in {"get", "close"} => committed = mask
  /\ adder.pc \in {"commit", "close"} =>
       \A type \in MaskType :
         /\ \A s \in Sensor : MasksAre(type, s, Added(type, s))
         /\ type = adder.type /\ Effective(adder.row) /\ adder.row.sensor = Star => mask[type][Star] # {}

ListerInv ==
  /\ lister.pc \in {"idle", "write"} =>
       committed = mask /\ \A type \in MaskType, s \in Sensor : MasksAre(type, s, {})
  /\ lister.pc = "write" /\ ~lister.reload =>
       \A s \in Sensor : RowsMask(lister.rows, s) = RowsMask(file[lister.type].rows, s)
  /\ lister.pc = "load" /\ lister.source > 1 => committed = mask
  /\ Reloading => alone

QuietInv == undisturbed => IF adder = Idle THEN ListerInv ELSE AdderInv

MaskInv == RegistryType /\ LoadInv /\ QuietInv

-----------------------------------------------------------------------------
(* The masks that files make                                               *)

\* What is to be inserted of a file are its masks.
LEMMA TargetsExact ==
  ASSUME NEW rows \in Seq(Row)
  PROVE  LET todo == UNION {Targets(k, rows[k]) : k \in DOMAIN rows}
         IN  /\ todo \subseteq ToInsert
             /\ \A s \in Sensor : UNION {t.minutes : t \in {t \in todo : t.sensor = s}} = RowsMask(rows, s)
<1>. DEFINE todo == UNION {Targets(k, rows[k]) : k \in DOMAIN rows}
<1>1. /\ \A k \in DOMAIN rows : k \in Nat /\ rows[k] \in Row
      /\ \A k \in DOMAIN rows : rows[k].minutes \subseteq Minute /\ TargetSensors(rows[k]) \subseteq Sensor
  <2>1. \A k \in DOMAIN rows : k \in Nat /\ rows[k] \in Row
    OBVIOUS
  <2>2. \A row \in Row : row.minutes \subseteq Minute /\ row.sensor \in Sensor \cup {Star}
    BY DEF Row
  <2>. HIDE DEF Row
  <2>3. \A row \in Row : TargetSensors(row) \subseteq Sensor
    BY <2>2 DEF TargetSensors
  <2>. QED
    BY <2>1, <2>2, <2>3
<1>2. \A k, s, m : Target(k, s, m).line = k /\ Target(k, s, m).sensor = s /\ Target(k, s, m).minutes = m
  BY DEF Target
<1>3. \A k \in Nat, s \in Sensor, m \in SUBSET Minute : Target(k, s, m) \in ToInsert
  BY DEF Target, ToInsert
<1>. HIDE DEF Target
<1>4. \A t : t \in todo <=>
        \E k \in DOMAIN rows : \E s \in TargetSensors(rows[k]) :
          Effective(rows[k]) /\ t = Target(k, s, rows[k].minutes)
  BY DEF Targets
<1>. HIDE DEF todo
<1>5. todo \subseteq ToInsert
  BY <1>1, <1>3, <1>4
<1>6. ASSUME NEW s \in Sensor
      PROVE  UNION {t.minutes : t \in {t \in todo : t.sensor = s}} = RowsMask(rows, s)
  <2>1. ASSUME NEW x, NEW t \in todo, t.sensor = s, x \in t.minutes
        PROVE  x \in RowsMask(rows, s)
    <3>1. PICK k \in DOMAIN rows : \E u \in TargetSensors(rows[k]) :
            Effective(rows[k]) /\ t = Target(k, u, rows[k].minutes)
      BY <1>4
    <3>. QED
      BY <1>2, <2>1, <3>1 DEF RowsMask
  <2>2. ASSUME NEW x \in RowsMask(rows, s)
        PROVE  \E t \in todo : t.sensor = s /\ x \in t.minutes
    <3>1. PICK k \in DOMAIN rows : Effective(rows[k]) /\ s \in TargetSensors(rows[k]) /\ x \in rows[k].minutes
      BY DEF RowsMask
    <3>2. Target(k, s, rows[k].minutes) \in todo
      BY <1>4, <3>1
    <3>. QED
      BY <1>2, <3>1, <3>2
  <2>. QED
    BY <2>1, <2>2
<1>. QED
  BY <1>5, <1>6 DEF todo

\* A row more, a mask more.
LEMMA AppendMask ==
  ASSUME NEW rows \in Seq(Row), NEW row \in Row, NEW s
  PROVE  RowsMask(Append(rows, row), s)
           = RowsMask(rows, s) \cup (IF Effective(row) /\ s \in TargetSensors(row) THEN row.minutes ELSE {})
<1>. DEFINE new == Append(rows, row)
<1>1. /\ DOMAIN rows = 1..Len(rows) /\ Len(rows) \in Nat
      /\ DOMAIN new = 1..(Len(rows) + 1)
      /\ new[Len(rows) + 1] = row
      /\ \A k \in 1..Len(rows) : new[k] = rows[k]
  OBVIOUS
<1>2. DOMAIN new = DOMAIN rows \cup {Len(rows) + 1} /\ \A k \in DOMAIN rows : new[k] = rows[k]
  BY <1>1
<1>. HIDE DEF new
<1>. QED
  BY <1>1, <1>2 DEF RowsMask, new

\* The files of LoadMasks, one after the other.
LEMMA Sources ==
  /\ SourceType(1) = "invalid" /\ SourceType(2) = "suspect"
  /\ SourceType(3) = "invalid" /\ SourceType(4) = "suspect"
  /\ SourceRows(1) = file["invalid"].rows /\ SourceRows(2) = file["suspect"].rows
  /\ SourceRows(3) = RegionRows["invalid"] /\ SourceRows(4) = RegionRows["suspect"]
<1>1. 1 % 2 = 1 /\ 2 % 2 = 0 /\ 3 % 2 = 1 /\ 4 % 2 = 0
  OBVIOUS
<1>. QED
  BY <1>1 DEF SourceType, SourceRows

\* The n-th file adds its masks to those of its type, and four files are all of them.
LEMMA SourcesMasks ==
  ASSUME NEW type \in MaskType, NEW s
  PROVE  /\ SourcesMask(0, type, s) = {}
         /\ \A n \in 1..4 :
              SourcesMask(n, type, s) = SourcesMask(n - 1, type, s)
                \cup (IF SourceType(n) = type THEN RowsMask(SourceRows(n), s) ELSE {})
         /\ SourcesMask(4, type, s) = FileMask(type, s)
<1>. DEFINE M(i) == RowsMask(SourceRows(i), s)
            T(i) == SourceType(i)
<1>1. \A n \in 0..4 : SourcesMask(n, type, s) = UNION {M(i) : i \in {i \in 1..4 : i <= n /\ T(i) = type}}
  BY DEF SourcesMask
<1>. HIDE DEF M, T
<1>2. SourcesMask(0, type, s) = {}
  BY <1>1
<1>3. ASSUME NEW n \in 1..4
      PROVE  SourcesMask(n, type, s) = SourcesMask(n - 1, type, s) \cup (IF T(n) = type THEN M(n) ELSE {})
  <2>1. n \in 0..4 /\ n - 1 \in 0..4 /\ \A i \in 1..4 : i <= n <=> (i <= n - 1 \/ i = n)
    OBVIOUS
  <2>. QED
    BY <1>1, <2>1
<1>4. SourcesMask(4, type, s) = FileMask(type, s)
  <2>1. \A x : x \in SourcesMask(4, type, s) <=> \E i \in 1..4 : T(i) = type /\ x \in M(i)
    BY <1>1
  <2>2. 1..4 = {1, 2, 3, 4}
    OBVIOUS
  <2>3. /\ T(1) = "invalid" /\ T(2) = "suspect" /\ T(3) = "invalid" /\ T(4) = "suspect"
        /\ M(1) = RowsMask(file["invalid"].rows, s) /\ M(2) = RowsMask(file["suspect"].rows, s)
        /\ M(3) = RowsMask(RegionRows["invalid"], s) /\ M(4) = RowsMask(RegionRows["suspect"], s)
    BY Sources DEF M, T
  <2>4. CASE type = "invalid"
    <3>1. \A x : x \in SourcesMask(4, type, s) <=> (x \in M(1) \/ x \in M(3))
      BY <2>1, <2>2, <2>3, <2>4
    <3>2. FileMask(type, s) = M(1) \cup M(3)
      BY <2>3, <2>4 DEF FileMask
    <3>. QED
      BY <3>1, <3>2
  <2>5. CASE type = "suspect"
    <3>1. \A x : x \in SourcesMask(4, type, s) <=> (x \in M(2) \/ x \in M(4))
      BY <2>1, <2>2, <2>3, <2>5
    <3>2. FileMask(type, s) = M(2) \cup M(4)
      BY <2>3, <2>5 DEF FileMask
    <3>. QED
      BY <3>1, <3>2
  <2>. QED
    BY <2>4, <2>5 DEF MaskType
<1>. QED
  BY <1>2, <1>3, <1>4 DEF M, T

Replaced(type, s, m) == [mask EXCEPT ![type][s] = m]

\* One mask is replaced.
LEMMA PutMask ==
  ASSUME mask \in Masks, NEW type \in MaskType, NEW s \in Sensor \cup {Star}, NEW m \in SUBSET Minute,
         mask' = Replaced(type, s, m)
  PROVE  /\ mask' \in Masks
         /\ mask'[type][s] = m
         /\ \A t \in MaskType, x \in Sensor \cup {Star} :
              t # type \/ x # s => mask'[t][x] = mask[t][x]
<1>1. mask' = [mask EXCEPT ![type] = [mask[type] EXCEPT ![s] = m]]
  BY DEF Replaced
<1>2. [mask[type] EXCEPT ![s] = m] \in [Sensor \cup {Star} -> SUBSET Minute]
  BY DEF Masks
<1>. QED
  <2>. DEFINE g == [mask[type] EXCEPT ![s] = m]
  <2>1. g[s] = m /\ \A x \in Sensor \cup {Star} : x # s => g[x] = mask[type][x]
    BY DEF Masks
  <2>. HIDE DEF g
  <2>2. mask' = [mask EXCEPT ![type] = g] /\ g \in [Sensor \cup {Star} -> SUBSET Minute]
    BY <1>1, <1>2 DEF g
  <2>3. mask' \in Masks /\ mask'[type] = g /\ \A t \in MaskType : t # type => mask'[t] = mask[t]
    BY <2>2 DEF Masks
  <2>. QED
    BY <2>1, <2>3

\* insertMask merges in place or does not: in both cases only one mask may have grown.
LEMMA MergeMask ==
  ASSUME mask \in Masks, NEW type \in MaskType, NEW s \in Sensor \cup {Star}, NEW m \in SUBSET Minute,
         MergeInPlaceOrNot(type, s, m)
  PROVE  /\ mask' \in Masks
         /\ Merged(type, s, m) \in SUBSET Minute
         /\ mask'[type][s] = mask[type][s] \/ (mask[type][s] # {} /\ mask'[type][s] = Merged(type, s, m))
         /\ \A t \in MaskType, x \in Sensor \cup {Star} :
              t # type \/ x # s => mask'[t][x] = mask[t][x]
<1>1. Merged(type, s, m) \in SUBSET Minute
  BY DEF Masks, Merged
<1>2. CASE UNCHANGED mask
  BY <1>1, <1>2
<1>3. CASE mask[type][s] # {} /\ mask' = Replaced(type, s, Merged(type, s, m))
  BY <1>1, <1>3, PutMask
<1>. QED
  BY <1>2, <1>3 DEF MergeInPlaceOrNot, Replaced

-----------------------------------------------------------------------------
(* Types                                                                   *)

\* The request at Handler_mask, as far as its row goes.
LEMMA AdderRow ==
  ASSUME IInv, adder # Idle
  PROVE  /\ adder.type \in MaskType
         /\ adder.row \in Row
         /\ adder.row.sensor \in Sensor \cup {Star}
         /\ adder.row.minutes \in SUBSET Minute
BY DEF IInv, AdderType, Row

\* No request: its pc tells.
LEMMA IdlePc == Idle.pc = "idle"
BY DEF Idle

\* The variables of that request after a step.
LEMMA AdderFields ==
  ASSUME NEW pc, NEW minutes, NEW ok, AdderGoesOn(pc, minutes, ok)
  PROVE  /\ adder'.pc = pc /\ adder'.mask = minutes
         /\ adder'.type = adder.type /\ adder'.row = adder.row /\ adder'.version = adder.version
BY DEF AdderGoesOn, AdderAt

\* The source that is being loaded, and what it is loaded into.
LEMMA SourceFacts ==
  ASSUME IInv, NEW n \in 1..4
  PROVE  SourceType(n) \in MaskType /\ SourceRows(n) \in Seq(Row)
<1>1. n = 1 \/ n = 2 \/ n = 3 \/ n = 4
  OBVIOUS
<1>2. /\ file["invalid"].rows \in Seq(Row) /\ file["suspect"].rows \in Seq(Row)
      /\ RegionRows["invalid"] \in Seq(Row) /\ RegionRows["suspect"] \in Seq(Row)
  BY RowsAssumption DEF IInv, FileType, MaskType
<1>. QED
  BY <1>1, <1>2, Sources DEF MaskType

\* Masks hold minutes, and what is loaded is of the sensors of the station.
LEMMA TypeInit == Init => RegistryType
<1>. SUFFICES ASSUME Init PROVE RegistryType
  OBVIOUS
<1>1. ASSUME NEW rows \in Seq(Row), NEW s
      PROVE  RowsMask(rows, s) \in SUBSET Minute
  <2>1. \A k \in DOMAIN rows : rows[k] \in Row
    OBVIOUS
  <2>. QED
    BY <2>1 DEF RowsMask, Row
<1>2. \A type \in MaskType : RegionRows[type] \in Seq(Row)
  BY RowsAssumption
<1>3. mask \in Masks
  BY <1>1, <1>2 DEF Init, Masks
<1>. QED
  BY <1>3, IdlePc DEF Init, RegistryType

\* Handler_mask keeps the types ...
LEMMA TypeAdder ==
  ASSUME IInv, RegistryType,
         \/ \E type \in MaskType, row \in NewRows : AddOpen(type, row)
         \/ AddReject \/ AddGet \/ AddPut \/ AddCommit \/ AddClose
  PROVE  RegistryType'
<1>1. UNCHANGED lister
  BY DEF AddOpen, AddReject, AddGet, AddPut, AddCommit, AddClose
<1>2. ASSUME mask' \in Masks, committed' \in Masks, adder'.pc = "put" => adder'.mask \subseteq Minute
      PROVE  RegistryType'
  BY <1>1, <1>2 DEF RegistryType
<1>3. ASSUME NEW type \in MaskType, NEW row \in NewRows, AddOpen(type, row)
      PROVE  RegistryType'
  BY <1>2, <1>3 DEF AddOpen, AdderAt, RegistryType
<1>4. CASE AddReject
  <2>1. adder'.pc = "close"
    BY <1>4, AdderFields DEF AddReject
  <2>. QED
    BY <1>2, <1>4, <2>1 DEF AddReject, RegistryType
<1>5. CASE AddGet
  <2>1. adder # Idle
    BY <1>5, IdlePc DEF AddGet
  <2>2. adder'.mask = Merged(adder.type, adder.row.sensor, adder.row.minutes)
    BY <1>5, AdderFields DEF AddGet
  <2>3. Merged(adder.type, adder.row.sensor, adder.row.minutes) \in SUBSET Minute
    BY <2>1, AdderRow DEF RegistryType, Masks, Merged
  <2>4. mask' \in Masks
    BY <1>5, <2>1, AdderRow, MergeMask DEF AddGet, RegistryType
  <2>. QED
    BY <1>2, <1>5, <2>2, <2>3, <2>4 DEF AddGet, RegistryType
<1>6. CASE AddPut
  <2>1. adder # Idle /\ adder.mask \in SUBSET Minute
    BY <1>6, IdlePc DEF AddPut, RegistryType
  <2>2. mask' = mask \/ mask' = Replaced(adder.type, adder.row.sensor, adder.mask)
    BY <1>6 DEF AddPut, Replaced
  <2>3. mask' \in Masks
    BY <2>1, <2>2, AdderRow, PutMask DEF RegistryType
  <2>4. adder'.pc = "commit"
    BY <1>6, AdderFields DEF AddPut
  <2>. QED
    BY <1>2, <1>6, <2>3, <2>4 DEF AddPut, RegistryType
<1>7. CASE AddCommit
  <2>1. adder'.pc = "close"
    BY <1>7, AdderFields DEF AddCommit
  <2>. QED
    BY <1>2, <1>7, <2>1 DEF AddCommit, RegistryType
<1>8. CASE AddClose
  BY <1>2, <1>8, IdlePc DEF AddClose, RegistryType
<1>. QED
  BY <1>3, <1>4, <1>5, <1>6, <1>7, <1>8

\* ... and so does Handler_masklist.
LEMMA TypeLister ==
  ASSUME IInv, RegistryType,
         \/ \E type \in MaskType, row \in NewRows : ListAdd(type, row)
         \/ \E type \in MaskType : \E line \in DOMAIN file[type].rows, s \in Sensor :
              ListRemove(type, line, s)
         \/ ListWrite \/ ClearMasks \/ Load \/ LoadGet \/ LoadPut \/ LoadCommit \/ LoadDone
  PROVE  RegistryType'
<1>1. UNCHANGED adder
  BY DEF ListAdd, ListRemove, ListWrite, ClearMasks, Load, LoadGet, LoadPut, LoadCommit, LoadDone
<1>2. ASSUME NEW type \in MaskType, NEW row \in NewRows, ListAdd(type, row)
      PROVE  RegistryType'
  BY <1>2 DEF ListAdd, RegistryType
<1>3. ASSUME NEW type \in MaskType, NEW line \in DOMAIN file[type].rows, NEW s \in Sensor,
             ListRemove(type, line, s)
      PROVE  RegistryType'
  BY <1>3 DEF ListRemove, RegistryType
<1>4. CASE ListWrite
  BY <1>4, IdlePc DEF ListWrite, RegistryType
<1>5. CASE ClearMasks
  <2>1. \A type \in MaskType : [mask EXCEPT ![type] = NoMasks[type]] \in Masks
    BY DEF RegistryType, Masks, NoMasks
  <2>2. mask' \in Masks
    BY <1>5, <2>1 DEF ClearMasks, MaskType
  <2>3. /\ lister'.pc \in {"clear", "load"}
        /\ lister'.pc = "clear" => lister'.types = {"invalid"}
        /\ lister'.pc = "load" => lister'.source = 1
    <3>1. DOMAIN lister = {"pc", "types"}
      BY <1>5 DEF ClearMasks, IInv, ListerType
    <3>. QED
      BY <1>5, <3>1 DEF ClearMasks
  <2>. QED
    BY <1>1, <1>5, <2>2, <2>3 DEF ClearMasks, RegistryType
<1>6. CASE Load
  <2>1. lister.source \in 1..4
    BY <1>6 DEF Load, RegistryType
  <2>2. UNION {Targets(k, SourceRows(lister.source)[k]) : k \in DOMAIN SourceRows(lister.source)}
          \subseteq ToInsert
    BY <2>1, SourceFacts, TargetsExact
  <2>. QED
    BY <1>6, <2>1, <2>2 DEF Load, RegistryType
<1>7. CASE LoadGet
  <2>1. PICK t \in lister.todo :
          /\ lister' = [pc |-> "put", source |-> lister.source, todo |-> lister.todo \ {t},
                        sensor |-> t.sensor,
                        mask |-> Merged(SourceType(lister.source), t.sensor, t.minutes)]
          /\ MergeInPlaceOrNot(SourceType(lister.source), t.sensor, t.minutes)
    BY <1>7 DEF LoadGet
  <2>2. /\ lister.source \in 1..4 /\ lister.todo \subseteq ToInsert
        /\ t.sensor \in Sensor /\ t.minutes \in SUBSET Minute
    BY <1>7, <2>1 DEF LoadGet, RegistryType, ToInsert
  <2>3. mask' \in Masks /\ Merged(SourceType(lister.source), t.sensor, t.minutes) \in SUBSET Minute
    BY <2>1, <2>2, SourceFacts, MergeMask DEF RegistryType
  <2>. QED
    BY <1>1, <1>7, <2>1, <2>2, <2>3 DEF LoadGet, RegistryType
<1>8. CASE LoadPut
  <2>1. lister.source \in 1..4 /\ lister.sensor \in Sensor /\ lister.mask \in SUBSET Minute
    BY <1>8 DEF LoadPut, RegistryType
  <2>2. mask' = Replaced(SourceType(lister.source), lister.sensor, lister.mask)
    BY <1>8 DEF LoadPut, Replaced
  <2>3. mask' \in Masks
    BY <2>1, <2>2, SourceFacts, PutMask DEF RegistryType
  <2>. QED
    BY <1>1, <1>8, <2>3 DEF LoadPut, RegistryType
<1>9. CASE LoadCommit
  BY <1>9 DEF LoadCommit, RegistryType
<1>10. CASE LoadDone
  BY <1>10, IdlePc DEF LoadDone, RegistryType
<1>. QED
  BY <1>2, <1>3, <1>4, <1>5, <1>6, <1>7, <1>8, <1>9, <1>10

-----------------------------------------------------------------------------
(* A reload that is alone                                                  *)

\* What other requests do while masks are reloaded ends the reload's being alone.
LEMMA LoadOthers ==
  ASSUME IInv, LoadInv,
         \/ \E type \in MaskType, row \in NewRows : AddOpen(type, row)
         \/ AddReject \/ AddGet \/ AddPut \/ AddCommit \/ AddClose
  PROVE  LoadInv'
<1>1. CASE \E type \in MaskType, row \in NewRows : AddOpen(type, row)
  BY <1>1 DEF AddOpen, LoadInv
<1>2. CASE AddReject \/ AddGet \/ AddPut \/ AddCommit \/ AddClose
  <2>1. adder # Idle /\ UNCHANGED <<lister, alone>>
    BY <1>2, IdlePc DEF AddReject, AddGet, AddPut, AddCommit, AddClose, history
  <2>. QED
    BY <2>1 DEF LoadInv, Reloading
<1>. QED
  BY <1>1, <1>2

\* A rewrite comes before a reload.
LEMMA LoadBegins ==
  ASSUME LoadInv,
         \/ \E type \in MaskType, row \in NewRows : ListAdd(type, row)
         \/ \E type \in MaskType : \E line \in DOMAIN file[type].rows, s \in Sensor :
              ListRemove(type, line, s)
         \/ ListWrite
  PROVE  LoadInv'
<1>1. ~Reloading'
  <2>1. CASE \E type \in MaskType, row \in NewRows : ListAdd(type, row)
    BY <2>1 DEF ListAdd, Reloading
  <2>2. CASE \E type \in MaskType : \E line \in DOMAIN file[type].rows, s \in Sensor :
              ListRemove(type, line, s)
    BY <2>2 DEF ListRemove, Reloading
  <2>3. CASE ListWrite
    BY <2>3, IdlePc DEF ListWrite, Reloading
  <2>. QED
    BY <2>1, <2>2, <2>3
<1>. QED
  BY <1>1 DEF LoadInv

\* The masks are cleared; none of a file is loaded.
LEMMA LoadClear ==
  ASSUME IInv, RegistryType, LoadInv, ClearMasks
  PROVE  LoadInv'
<1>1. \A s \in Sensor \cup {Star} : NoMasks["invalid"][s] = {} /\ NoMasks["suspect"][s] = {}
  BY DEF NoMasks, MaskType
<1>2. CASE lister.types = {}
  <2>1. /\ mask' = [mask EXCEPT !["invalid"] = NoMasks["invalid"]]
        /\ lister' = [lister EXCEPT !.types = {"invalid"}]
        /\ alone' = (adder = Idle) /\ UNCHANGED adder /\ lister.pc = "clear"
    BY <1>2 DEF ClearMasks
  <2>2. DOMAIN lister = {"pc", "types"}
    BY <2>1 DEF IInv, ListerType
  <2>3. lister'.pc = "clear"
    BY <2>1, <2>2
  <2>4. mask'["invalid"] = NoMasks["invalid"]
    BY <2>1 DEF RegistryType, Masks, MaskType
  <2>5. ASSUME alone'
        PROVE  adder' = Idle /\ Cleared' /\ StarEmpty' /\ LoadedSoFar' /\ NoMoreThanFiles' /\ NoLessThanFiles'
                 /\ HeldIsMerged'
    BY <2>1, <2>3, <2>4, <2>5
    DEF Cleared, StarEmpty, LoadedSoFar, NoMoreThanFiles, NoLessThanFiles, HeldIsMerged
  <2>. QED
    BY <2>5 DEF LoadInv
<1>3. CASE lister.types = {"invalid"}
  <2>1. /\ mask' = [mask EXCEPT !["suspect"] = NoMasks["suspect"]]
        /\ lister' = [pc |-> "load", source |-> 1]
        /\ UNCHANGED <<alone, adder>> /\ lister.pc = "clear"
    BY <1>3 DEF ClearMasks
  <2>. SUFFICES ASSUME alone
                PROVE  adder = Idle /\ StarEmpty' /\ LoadedSoFar'
    BY <2>1 DEF LoadInv, Cleared, NoMoreThanFiles, NoLessThanFiles, HeldIsMerged
  <2>2. adder = Idle /\ mask["invalid"] = NoMasks["invalid"]
    BY <1>3, <2>1 DEF LoadInv, Reloading, Cleared
  <2>3. mask'["invalid"] = NoMasks["invalid"] /\ mask'["suspect"] = NoMasks["suspect"]
    BY <2>1, <2>2 DEF RegistryType, Masks, MaskType
  <2>4. \A type \in MaskType : \A s \in Sensor \cup {Star} : mask'[type][s] = {}
    BY <1>1, <2>3 DEF MaskType
  <2>5. \A type \in MaskType, s \in Sensor : SourcesMask(lister.source - 1, type, s)' = {}
    BY <2>1 DEF SourcesMask
  <2>. QED
    BY <2>1, <2>2, <2>4, <2>5 DEF StarEmpty, LoadedSoFar
<1>. QED
  BY <1>2, <1>3 DEF ClearMasks

\* A file is read: what its rows mask is still to be inserted.
LEMMA LoadLoad ==
  ASSUME IInv, RegistryType, LoadInv, Load
  PROVE  LoadInv'
<1>. DEFINE n == lister.source
            rows == SourceRows(n)
            todo == UNION {Targets(k, rows[k]) : k \in DOMAIN rows}
<1>1. /\ lister.pc = "load" /\ n \in 1..4
      /\ lister' = [pc |-> "insert", source |-> n, todo |-> todo]
      /\ UNCHANGED <<file, mask, adder, alone>>
  BY DEF Load, RegistryType, history
<1>2. \A s \in Sensor : UNION {t.minutes : t \in {t \in todo : t.sensor = s}} = RowsMask(rows, s)
  BY <1>1, SourceFacts, TargetsExact
<1>. HIDE DEF todo
<1>3. lister'.pc = "insert" /\ lister'.source = n /\ lister'.todo = todo
  BY <1>1
<1>. SUFFICES ASSUME alone
              PROVE  adder = Idle /\ StarEmpty' /\ NoMoreThanFiles' /\ NoLessThanFiles'
  BY <1>1, <1>3 DEF LoadInv, Cleared, LoadedSoFar, HeldIsMerged
<1>4. /\ adder = Idle /\ StarEmpty
      /\ \A type \in MaskType, s \in Sensor : mask[type][s] = SourcesMask(n - 1, type, s)
  BY <1>1 DEF LoadInv, Reloading, LoadedSoFar
<1>5. ASSUME NEW type \in MaskType, NEW s \in Sensor
      PROVE  /\ Held(type, s)' = {}
             /\ TodoMask(type, s)' = IF SourceType(n) = type THEN RowsMask(rows, s) ELSE {}
             /\ SourcesMask(n, type, s)' = SourcesMask(n, type, s)
             /\ SourcesMask(n, type, s) = mask[type][s]
                  \cup (IF SourceType(n) = type THEN RowsMask(rows, s) ELSE {})
  <2>1. Held(type, s)' = {}
    BY <1>3 DEF Held
  <2>2. TodoMask(type, s)' = IF SourceType(n) = type THEN RowsMask(rows, s) ELSE {}
    BY <1>2, <1>3 DEF TodoMask, SourceType
  <2>3. SourcesMask(n, type, s)' = SourcesMask(n, type, s)
    BY <1>1 DEF SourcesMask, SourceRows, SourceType
  <2>. QED
    BY <1>1, <1>4, <2>1, <2>2, <2>3, SourcesMasks
<1>6. StarEmpty'
  BY <1>1, <1>3, <1>4 DEF StarEmpty
<1>7. NoMoreThanFiles'
  <2>. SUFFICES ASSUME NEW type \in MaskType, NEW s \in Sensor
                PROVE  mask'[type][s] \cup Held(type, s)' \cup TodoMask(type, s)' \subseteq SourcesMask(n, type, s)'
    BY <1>3 DEF NoMoreThanFiles, SourcesMask, SourceRows, SourceType
  <2>. HIDE DEF n
  <2>. QED
    BY <1>1, <1>5
<1>8. NoLessThanFiles'
  <2>. SUFFICES ASSUME NEW type \in MaskType, NEW s \in Sensor
                PROVE  SourcesMask(n, type, s)' \subseteq mask'[type][s] \cup Held(type, s)' \cup TodoMask(type, s)'
    BY <1>3 DEF NoLessThanFiles, SourcesMask, SourceRows, SourceType
  <2>. HIDE DEF n
  <2>. QED
    BY <1>1, <1>5
<1>. QED
  BY <1>4, <1>6, <1>7, <1>8

\* A mask is read and merged, perhaps in place.
LEMMA LoadLoadGet ==
  ASSUME IInv, RegistryType, LoadInv, LoadGet
  PROVE  LoadInv'
<1>. DEFINE n == lister.source
            type == SourceType(n)
<1>1. PICK t \in lister.todo :
        /\ lister' = [pc |-> "put", source |-> n, todo |-> lister.todo \ {t},
                      sensor |-> t.sensor, mask |-> Merged(type, t.sensor, t.minutes)]
        /\ MergeInPlaceOrNot(type, t.sensor, t.minutes)
  BY DEF LoadGet
<1>2. /\ lister.pc = "insert" /\ n \in 1..4 /\ type \in MaskType
      /\ t.sensor \in Sensor /\ t.minutes \in SUBSET Minute
      /\ UNCHANGED <<file, adder, alone>>
  BY <1>1, SourceFacts DEF LoadGet, RegistryType, ToInsert, history
<1>3. /\ lister'.pc = "put" /\ lister'.source = n /\ lister'.todo = lister.todo \ {t}
      /\ lister'.sensor = t.sensor /\ lister'.mask = Merged(type, t.sensor, t.minutes)
  BY <1>1
<1>4. /\ \/ mask'[type][t.sensor] = mask[type][t.sensor]
         \/ mask'[type][t.sensor] = Merged(type, t.sensor, t.minutes)
      /\ \A u \in MaskType, x \in Sensor \cup {Star} :
           u # type \/ x # t.sensor => mask'[u][x] = mask[u][x]
  BY <1>1, <1>2, MergeMask DEF RegistryType
<1>. SUFFICES ASSUME alone
              PROVE  adder = Idle /\ StarEmpty' /\ NoMoreThanFiles' /\ NoLessThanFiles' /\ HeldIsMerged'
  BY <1>2, <1>3 DEF LoadInv, Cleared, LoadedSoFar
<1>5. adder = Idle /\ StarEmpty /\ NoMoreThanFiles /\ NoLessThanFiles
  BY <1>2 DEF LoadInv, Reloading
<1>6. StarEmpty'
  BY <1>2, <1>3, <1>4, <1>5, StarAssumption DEF StarEmpty
<1>7. ASSUME NEW u \in MaskType, NEW s \in Sensor
      PROVE  /\ SourcesMask(n, u, s)' = SourcesMask(n, u, s)
             /\ Held(u, s) = {}
             /\ u # type \/ s # t.sensor =>
                  Held(u, s)' = {} /\ mask'[u][s] = mask[u][s] /\ TodoMask(u, s)' = TodoMask(u, s)
             /\ u = type /\ s = t.sensor =>
                  /\ Held(u, s)' = mask[u][s] \cup t.minutes
                  /\ mask'[u][s] = mask[u][s] \/ mask'[u][s] = mask[u][s] \cup t.minutes
                  /\ TodoMask(u, s) = TodoMask(u, s)' \cup t.minutes
  <2>1. SourcesMask(n, u, s)' = SourcesMask(n, u, s)
    BY <1>2, <1>3 DEF SourcesMask, SourceRows, SourceType
  <2>2. Held(u, s) = {}
    BY <1>2 DEF Held
  <2>3. /\ Held(u, s)' = IF u = type /\ s = t.sensor THEN Merged(type, t.sensor, t.minutes) ELSE {}
        /\ TodoMask(u, s)' = UNION {x.minutes : x \in {x \in lister.todo \ {t} : u = type /\ x.sensor = s}}
        /\ TodoMask(u, s) = UNION {x.minutes : x \in {x \in lister.todo : u = type /\ x.sensor = s}}
    BY <1>3 DEF Held, TodoMask, SourceType
  <2>. HIDE DEF type
  <2>4. u # type \/ s # t.sensor => TodoMask(u, s)' = TodoMask(u, s)
    BY <2>3
  <2>5. u = type /\ s = t.sensor => TodoMask(u, s) = TodoMask(u, s)' \cup t.minutes
    BY <2>3
  <2>. QED
    BY <1>4, <2>1, <2>2, <2>3, <2>4, <2>5 DEF Merged
<1>8. NoMoreThanFiles'
  <2>. SUFFICES ASSUME NEW u \in MaskType, NEW s \in Sensor
                PROVE  mask'[u][s] \cup Held(u, s)' \cup TodoMask(u, s)' \subseteq SourcesMask(n, u, s)'
    BY <1>3 DEF NoMoreThanFiles, SourcesMask, SourceRows, SourceType
  <2>1. mask[u][s] \cup TodoMask(u, s) \subseteq SourcesMask(n, u, s)
    BY <1>2, <1>5 DEF NoMoreThanFiles
  <2>. HIDE DEF n, type
  <2>. QED
    BY <1>7, <2>1
<1>9. NoLessThanFiles'
  <2>. SUFFICES ASSUME NEW u \in MaskType, NEW s \in Sensor
                PROVE  SourcesMask(n, u, s)' \subseteq mask'[u][s] \cup Held(u, s)' \cup TodoMask(u, s)'
    BY <1>3 DEF NoLessThanFiles, SourcesMask, SourceRows, SourceType
  <2>1. SourcesMask(n, u, s) \subseteq mask[u][s] \cup Held(u, s) \cup TodoMask(u, s)
    BY <1>2, <1>5 DEF NoLessThanFiles
  <2>. HIDE DEF n, type
  <2>. QED
    BY <1>7, <2>1
<1>10. HeldIsMerged'
  <2>1. mask'[type][t.sensor] \subseteq Merged(type, t.sensor, t.minutes)
    BY <1>4 DEF Merged
  <2>2. SourceType(lister.source)' = type
    BY <1>3 DEF SourceType
  <2>. QED
    BY <1>3, <2>1, <2>2 DEF HeldIsMerged
<1>. QED
  BY <1>5, <1>6, <1>8, <1>9, <1>10

\* The merged mask is written back.
LEMMA LoadLoadPut ==
  ASSUME IInv, RegistryType, LoadInv, LoadPut
  PROVE  LoadInv'
<1>. DEFINE n == lister.source
            type == SourceType(n)
            held == lister.mask
<1>1. /\ lister.pc = "put" /\ n \in 1..4 /\ type \in MaskType
      /\ lister.sensor \in Sensor /\ held \in SUBSET Minute
      /\ mask' = Replaced(type, lister.sensor, held)
      /\ lister' = [pc |-> "insert", source |-> n, todo |-> lister.todo]
      /\ UNCHANGED <<file, adder, alone>>
  BY SourceFacts DEF LoadPut, RegistryType, Replaced, history
<1>2. /\ mask'[type][lister.sensor] = held
      /\ \A u \in MaskType, x \in Sensor \cup {Star} :
           u # type \/ x # lister.sensor => mask'[u][x] = mask[u][x]
  BY <1>1, PutMask DEF RegistryType
<1>3. lister'.pc = "insert" /\ lister'.source = n /\ lister'.todo = lister.todo
  BY <1>1
<1>. SUFFICES ASSUME alone
              PROVE  adder = Idle /\ StarEmpty' /\ NoMoreThanFiles' /\ NoLessThanFiles'
  BY <1>1, <1>3 DEF LoadInv, Cleared, LoadedSoFar, HeldIsMerged
<1>4. adder = Idle /\ StarEmpty /\ NoMoreThanFiles /\ NoLessThanFiles /\ mask[type][lister.sensor] \subseteq held
  BY <1>1 DEF LoadInv, Reloading, HeldIsMerged
<1>5. StarEmpty'
  BY <1>1, <1>2, <1>3, <1>4, StarAssumption DEF StarEmpty
<1>6. ASSUME NEW u \in MaskType, NEW s \in Sensor
      PROVE  /\ SourcesMask(n, u, s)' = SourcesMask(n, u, s)
             /\ Held(u, s)' = {}
             /\ TodoMask(u, s)' = TodoMask(u, s)
             /\ mask'[u][s] = mask[u][s] \cup Held(u, s)
  <2>1. SourcesMask(n, u, s)' = SourcesMask(n, u, s)
    BY <1>1 DEF SourcesMask, SourceRows, SourceType
  <2>2. Held(u, s)' = {} /\ TodoMask(u, s)' = TodoMask(u, s)
    BY <1>3 DEF Held, TodoMask, SourceType
  <2>3. Held(u, s) = IF u = type /\ s = lister.sensor THEN held ELSE {}
    BY <1>1 DEF Held
  <2>. HIDE DEF type, held
  <2>. QED
    BY <1>2, <1>4, <2>1, <2>2, <2>3
<1>7. NoMoreThanFiles' /\ NoLessThanFiles'
  <2>. SUFFICES ASSUME NEW u \in MaskType, NEW s \in Sensor
                PROVE  mask'[u][s] \cup Held(u, s)' \cup TodoMask(u, s)' = SourcesMask(n, u, s)'
    BY <1>3 DEF NoMoreThanFiles, NoLessThanFiles, SourcesMask, SourceRows, SourceType
  <2>1. /\ mask[u][s] \cup Held(u, s) \cup TodoMask(u, s) \subseteq SourcesMask(n, u, s)
        /\ SourcesMask(n, u, s) \subseteq mask[u][s] \cup Held(u, s) \cup TodoMask(u, s)
    BY <1>1, <1>4 DEF NoMoreThanFiles, NoLessThanFiles
  <2>. HIDE DEF n
  <2>. QED
    BY <1>6, <2>1
<1>. QED
  BY <1>4, <1>5, <1>7

\* With nothing left to insert a file is loaded, with all files loaded the request ends.
LEMMA LoadEnds ==
  ASSUME IInv, RegistryType, LoadInv, LoadCommit \/ LoadDone
  PROVE  LoadInv'
<1>1. CASE LoadDone
  BY <1>1, IdlePc DEF LoadDone, LoadInv, Reloading
<1>2. CASE LoadCommit
  <2>. DEFINE n == lister.source
  <2>1. /\ lister.pc = "insert" /\ lister.todo = {} /\ n \in 1..4
        /\ lister' = [pc |-> "load", source |-> n + 1]
        /\ UNCHANGED <<file, mask, adder, alone>>
    BY <1>2 DEF LoadCommit, RegistryType, history
  <2>2. lister'.pc = "load" /\ lister'.source = n + 1
    BY <2>1
  <2>. SUFFICES ASSUME alone
                PROVE  adder = Idle /\ StarEmpty' /\ LoadedSoFar'
    BY <2>1, <2>2 DEF LoadInv, Cleared, NoMoreThanFiles, NoLessThanFiles, HeldIsMerged
  <2>3. adder = Idle /\ StarEmpty /\ NoMoreThanFiles /\ NoLessThanFiles
    BY <2>1 DEF LoadInv, Reloading
  <2>4. StarEmpty'
    BY <2>1, <2>2, <2>3 DEF StarEmpty
  <2>5. ASSUME NEW u \in MaskType, NEW s \in Sensor
        PROVE  mask'[u][s] = SourcesMask(lister.source - 1, u, s)'
    <3>1. Held(u, s) = {} /\ TodoMask(u, s) = {}
      BY <2>1 DEF Held, TodoMask
    <3>2. mask[u][s] = SourcesMask(n, u, s)
      BY <2>1, <2>3, <3>1 DEF NoMoreThanFiles, NoLessThanFiles
    <3>3. lister'.source - 1 = n
      BY <2>1, <2>2
    <3>4. SourcesMask(lister.source - 1, u, s)' = SourcesMask(n, u, s)
      BY <2>1, <3>3 DEF SourcesMask, SourceRows, SourceType
    <3>. QED
      BY <2>1, <3>2, <3>4
  <2>. QED
    BY <2>3, <2>4, <2>5 DEF LoadedSoFar
<1>. QED
  BY <1>1, <1>2

\* When the last file is loaded the masks are those of the files.
LEMMA LoadExact ==
  ASSUME RegistryType, LoadInv, lister.pc = "load", lister.source > 4, alone
  PROVE  \A type \in MaskType :
           /\ \A s \in Sensor : mask[type][s] = FileMask(type, s)
           /\ mask[type][Star] = {}
<1>1. lister.source = 5 /\ 5 - 1 = 4
  BY DEF RegistryType
<1>2. StarEmpty /\ LoadedSoFar
  BY DEF LoadInv, Reloading
<1>. QED
  BY <1>1, <1>2, SourcesMasks DEF StarEmpty, LoadedSoFar

-----------------------------------------------------------------------------
(* Requests that do not overlap                                            *)

\* Files that stay mask the same.
LEMMA SameFileMask ==
  ASSUME UNCHANGED file
  PROVE  \A type \in MaskType, s \in Sensor : FileMask(type, s)' = FileMask(type, s)
BY DEF FileMask

\* A request for one more row begins with the masks of the files.
LEMMA QuietOpen ==
  ASSUME IInv, QuietInv, \E type \in MaskType, row \in NewRows : AddOpen(type, row)
  PROVE  QuietInv'
<1>. SUFFICES ASSUME undisturbed'
              PROVE  adder' # Idle /\ AdderInv'
  BY DEF QuietInv
<1>1. PICK type \in MaskType, row \in NewRows : AddOpen(type, row)
  OBVIOUS
<1>2. /\ adder'.pc = "get" /\ adder'.row = row /\ ~row.removed
      /\ adder = Idle /\ lister = Idle /\ undisturbed
      /\ UNCHANGED <<file, mask, committed>>
  BY <1>1 DEF AddOpen, AdderAt
<1>3. /\ committed = mask
      /\ \A t \in MaskType, s \in Sensor : MasksAre(t, s, {})
  BY <1>2, IdlePc DEF QuietInv, ListerInv
<1>4. \A t \in MaskType, s \in Sensor : MasksAre(t, s, {})'
  BY <1>2, <1>3, SameFileMask DEF MasksAre
<1>5. BeforePut'
  BY <1>2, <1>4 DEF BeforePut
<1>. QED
  BY <1>2, <1>3, <1>5, IdlePc DEF AdderInv

\* An empty interval changes no mask.
LEMMA QuietReject ==
  ASSUME IInv, QuietInv, AddReject
  PROVE  QuietInv'
<1>1. /\ adder.pc = "get" /\ adder.row.minutes = {} /\ adder # Idle
      /\ adder'.pc = "close" /\ adder'.row = adder.row /\ adder' # Idle
      /\ UNCHANGED <<file, mask, committed, undisturbed>>
  <2>1. adder'.pc = "close" /\ adder'.row = adder.row
    BY AdderFields DEF AddReject
  <2>. QED
    BY <2>1, IdlePc DEF AddReject, history
<1>. SUFFICES ASSUME undisturbed
              PROVE  AdderInv'
  BY <1>1 DEF QuietInv
<1>2. /\ ~adder.row.removed /\ committed = mask
      /\ \A t \in MaskType, s \in Sensor : MasksAre(t, s, {})
  BY <1>1 DEF QuietInv, AdderInv, BeforePut
<1>3. ~Effective(adder'.row) /\ \A t, s : Added(t, s)' = {}
  BY <1>1 DEF Effective, Added
<1>4. \A t \in MaskType, s \in Sensor : MasksAre(t, s, Added(t, s))'
  BY <1>1, <1>2, <1>3, SameFileMask DEF MasksAre
<1>. QED
  BY <1>1, <1>2, <1>3, <1>4 DEF AdderInv

\* The mask that was read, with the row, is the mask of the files with the row.
LEMMA QuietGet ==
  ASSUME IInv, RegistryType, QuietInv, AddGet
  PROVE  QuietInv'
<1>. DEFINE type == adder.type
            sensor == adder.row.sensor
            minutes == adder.row.minutes
<1>1. /\ adder.pc = "get" /\ minutes # {} /\ adder # Idle
      /\ adder'.pc = "put" /\ adder'.row = adder.row /\ adder'.type = type /\ adder' # Idle
      /\ adder'.mask = mask[type][sensor] \cup minutes
      /\ IF adder.row.known THEN MergeInPlaceOrNot(type, sensor, minutes) ELSE UNCHANGED mask
      /\ UNCHANGED <<file, undisturbed>>
  BY AdderFields, IdlePc DEF AddGet, Merged, history
<1>2. type \in MaskType /\ sensor \in Sensor \cup {Star} /\ minutes \in SUBSET Minute
  BY <1>1, AdderRow
<1>. SUFFICES ASSUME undisturbed
              PROVE  AdderInv'
  BY <1>1 DEF QuietInv
<1>3. /\ ~adder.row.removed
      /\ \A t \in MaskType, s \in Sensor : MasksAre(t, s, {})
  BY <1>1 DEF QuietInv, AdderInv, BeforePut
<1>4. /\ \A t \in MaskType, x \in Sensor \cup {Star} :
           mask'[t][x] = mask[t][x] \/ (t = type /\ x = sensor /\ adder.row.known)
      /\ \A t \in MaskType : mask'[t][Star] = {} => mask[t][Star] = {}
  <2>1. CASE adder.row.known
    <3>1. /\ \/ mask'[type][sensor] = mask[type][sensor]
             \/ mask[type][sensor] # {} /\ mask'[type][sensor] = mask[type][sensor] \cup minutes
          /\ \A t \in MaskType, x \in Sensor \cup {Star} :
               t # type \/ x # sensor => mask'[t][x] = mask[t][x]
      BY <1>1, <1>2, <2>1, MergeMask DEF RegistryType, Merged
    <3>. QED
      BY <2>1, <3>1
  <2>2. CASE ~adder.row.known
    BY <1>1, <2>2
  <2>. QED
    BY <2>1, <2>2
<1>. HIDE DEF type, sensor, minutes
<1>5. ASSUME NEW t \in MaskType, NEW s \in Sensor
      PROVE  IF t = type /\ s = sensor /\ adder.row.known
               THEN mask'[t][Star] = {} => adder'.mask = FileMask(t, s)' \cup minutes
               ELSE mask'[t][Star] = {} => mask'[t][s] = FileMask(t, s)'
  <2>1. FileMask(t, s)' = FileMask(t, s)
    BY <1>1, SameFileMask
  <2>2. mask[t][Star] = {} => mask[t][s] = FileMask(t, s)
    BY <1>3 DEF MasksAre
  <2>3. (t = type /\ s = sensor /\ adder.row.known) \/ mask'[t][s] = mask[t][s]
    BY <1>4
  <2>. QED
    BY <1>1, <1>4, <2>1, <2>2, <2>3
<1>6. BeforePut'
  BY <1>1, <1>5 DEF BeforePut, MasksAre, type, sensor, minutes
<1>. QED
  BY <1>1, <1>3, <1>6 DEF AdderInv, sensor, minutes

\* The mask is put: the masks are those of the files with the row.
LEMMA QuietPut ==
  ASSUME IInv, RegistryType, QuietInv, AddPut
  PROVE  QuietInv'
<1>. DEFINE type == adder.type
            row == adder.row
<1>1. /\ adder.pc = "put" /\ adder # Idle
      /\ adder'.pc = "commit" /\ adder'.row = row /\ adder'.type = type /\ adder' # Idle
      /\ mask' = IF row.known THEN Replaced(type, row.sensor, adder.mask) ELSE mask
      /\ UNCHANGED <<file, undisturbed>>
  BY AdderFields, IdlePc DEF AddPut, Replaced, history
<1>2. type \in MaskType /\ row.sensor \in Sensor \cup {Star} /\ adder.mask \in SUBSET Minute
  BY <1>1, AdderRow DEF RegistryType
<1>. SUFFICES ASSUME undisturbed
              PROVE  AdderInv'
  BY <1>1 DEF QuietInv
<1>3. /\ ~row.removed /\ row.minutes # {} /\ row.minutes \subseteq adder.mask
      /\ \A t \in MaskType, s \in Sensor :
           IF t = type /\ s = row.sensor /\ row.known
             THEN mask[t][Star] = {} => adder.mask = FileMask(t, s) \cup row.minutes
             ELSE mask[t][Star] = {} => mask[t][s] = FileMask(t, s)
  BY <1>1 DEF QuietInv, AdderInv, BeforePut, MasksAre
<1>4. /\ Effective(row) <=> row.known
      /\ row.known => mask'[type][row.sensor] = adder.mask
      /\ \A t \in MaskType, x \in Sensor \cup {Star} :
           mask'[t][x] = mask[t][x] \/ (t = type /\ x = row.sensor /\ row.known)
  <2>1. Effective(row) <=> row.known
    BY <1>3 DEF Effective
  <2>2. CASE row.known
    <3>1. mask' = Replaced(type, row.sensor, adder.mask)
      BY <1>1, <2>2
    <3>. QED
      BY <1>2, <2>1, <2>2, <3>1, PutMask DEF RegistryType
  <2>3. CASE ~row.known
    BY <1>1, <2>1, <2>3
  <2>. QED
    BY <2>2, <2>3
<1>5. ASSUME NEW t \in MaskType, NEW s \in Sensor
      PROVE  mask'[t][Star] = {} =>
               mask'[t][s] = FileMask(t, s)'
                 \cup (IF t = type /\ row.known /\ s \in TargetSensors(row) THEN row.minutes ELSE {})
  <2>1. FileMask(t, s)' = FileMask(t, s)
    BY <1>1, SameFileMask
  <2>2. CASE t = type /\ row.known /\ row.sensor = Star
    BY <1>3, <1>4, <2>2
  <2>3. CASE ~(t = type /\ row.known /\ row.sensor = Star)
    <3>1. mask'[t][Star] = mask[t][Star]
      BY <1>4, <2>3
    <3>2. t = type /\ row.known => TargetSensors(row) = {row.sensor}
      BY <2>3 DEF TargetSensors
    <3>3. s # row.sensor \/ t # type \/ ~row.known => mask'[t][s] = mask[t][s]
      BY <1>4
    <3>. HIDE DEF type, row
    <3>. QED
      BY <1>3, <1>4, <2>1, <3>1, <3>2, <3>3
  <2>. QED
    BY <2>2, <2>3
<1>6. \A t \in MaskType, s \in Sensor :
        Added(t, s)' = IF t = type /\ row.known /\ s \in TargetSensors(row) THEN row.minutes ELSE {}
  BY <1>1, <1>4 DEF Added
<1>7. \A t \in MaskType, s \in Sensor : MasksAre(t, s, Added(t, s))'
  BY <1>5, <1>6 DEF MasksAre
<1>8. Effective(row) /\ row.sensor = Star => mask'[type][Star] # {}
  BY <1>3, <1>4
<1>. QED
  BY <1>1, <1>3, <1>7, <1>8 DEF AdderInv

\* The masks are on disk.
LEMMA QuietCommit ==
  ASSUME IInv, QuietInv, AddCommit
  PROVE  QuietInv'
<1>1. /\ adder.pc = "commit" /\ adder # Idle
      /\ adder'.pc = "close" /\ adder'.row = adder.row /\ adder'.type = adder.type /\ adder' # Idle
      /\ committed' = mask
      /\ UNCHANGED <<file, mask, undisturbed>>
  BY AdderFields, IdlePc DEF AddCommit, history
<1>. SUFFICES ASSUME undisturbed
              PROVE  AdderInv'
  BY <1>1 DEF QuietInv
<1>2. AdderInv
  BY <1>1 DEF QuietInv
<1>3. \A t \in MaskType, s \in Sensor : MasksAre(t, s, Added(t, s))'
  <2>1. \A t, s : Added(t, s)' = Added(t, s)
    BY <1>1 DEF Added
  <2>. QED
    BY <1>1, <1>2, <2>1, SameFileMask DEF AdderInv, MasksAre
<1>. QED
  BY <1>1, <1>2, <1>3 DEF AdderInv

\* The row is in the file: the masks are those of the files.
LEMMA QuietClose ==
  ASSUME IInv, QuietInv, AddClose
  PROVE  QuietInv'
<1>. DEFINE type == adder.type
<1>1. /\ adder.pc = "close" /\ adder # Idle /\ adder' = Idle
      /\ UNCHANGED <<mask, committed, lister, undisturbed>>
  BY IdlePc DEF AddClose
<1>2. type \in MaskType /\ adder.row \in Row
  BY <1>1, AdderRow
<1>. SUFFICES ASSUME undisturbed
              PROVE  ListerInv'
  BY <1>1 DEF QuietInv
<1>3. lister = Idle /\ adder.version = file[type].version /\ AdderInv
  BY <1>1 DEF QuietInv, IInv, OneRequest
<1>4. file' = [file EXCEPT ![type].rows = Append(file[type].rows, adder.row)]
  BY <1>3 DEF AddClose
<1>5. ASSUME NEW t \in MaskType, NEW s \in Sensor
      PROVE  FileMask(t, s)' = FileMask(t, s) \cup Added(t, s)
  <2>1. CASE t = type
    <3>. DEFINE new == Append(file[type].rows, adder.row)
    <3>1. file'[t].rows = new /\ file[t].rows \in Seq(Row)
      BY <1>2, <1>4, <2>1 DEF IInv, FileType
    <3>2. RowsMask(new, s) = RowsMask(file[t].rows, s) \cup Added(t, s)
      BY <1>2, <2>1, <3>1, AppendMask DEF Added
    <3>. HIDE DEF new
    <3>. QED
      BY <3>1, <3>2 DEF FileMask
  <2>2. CASE t # type
    <3>1. file'[t] = file[t] /\ Added(t, s) = {}
      BY <1>2, <1>4, <2>2 DEF IInv, FileType, Added
    <3>. QED
      BY <3>1 DEF FileMask
  <2>. QED
    BY <2>1, <2>2
<1>6. /\ committed = mask
      /\ \A t \in MaskType, s \in Sensor : MasksAre(t, s, Added(t, s))
  BY <1>1, <1>3 DEF AdderInv
<1>7. \A t \in MaskType, s \in Sensor : MasksAre(t, s, {})'
  BY ZenonT(40), <1>1, <1>5, <1>6 DEF MasksAre
<1>8. lister'.pc = "idle"
  BY <1>1, <1>3, IdlePc
<1>. QED
  BY <1>1, <1>6, <1>7, <1>8 DEF ListerInv, Reloading

\* A request of the list begins: a row without station masks nothing.
LEMMA QuietList ==
  ASSUME IInv, QuietInv,
         \/ \E type \in MaskType, row \in NewRows : ListAdd(type, row)
         \/ \E type \in MaskType : \E line \in DOMAIN file[type].rows, s \in Sensor :
              ListRemove(type, line, s)
  PROVE  QuietInv'
<1>. SUFFICES ASSUME undisturbed'
              PROVE  adder' = Idle /\ ListerInv'
  BY DEF QuietInv
<1>1. /\ adder = Idle /\ adder' = Idle /\ lister = Idle /\ undisturbed
      /\ UNCHANGED <<file, mask, committed>>
  BY DEF ListAdd, ListRemove
<1>2. committed = mask /\ \A t \in MaskType, s \in Sensor : MasksAre(t, s, {})
  BY <1>1, IdlePc DEF QuietInv, ListerInv
<1>3. \A t \in MaskType, s \in Sensor : MasksAre(t, s, {})'
  BY <1>1, <1>2, SameFileMask DEF MasksAre
<1>4. /\ lister'.pc = "write"
      /\ ~lister'.reload => \A s \in Sensor : RowsMask(lister'.rows, s) = RowsMask(file'[lister'.type].rows, s)
  <2>1. ASSUME NEW type \in MaskType, NEW row \in NewRows, ListAdd(type, row)
        PROVE  /\ lister'.pc = "write"
               /\ \A s \in Sensor : RowsMask(lister'.rows, s) = RowsMask(file'[lister'.type].rows, s)
    <3>. DEFINE new == [row EXCEPT !.known = FALSE]
                rows == Append(file[type].rows, new)
    <3>1. new \in Row /\ ~Effective(new) /\ file[type].rows \in Seq(Row)
      BY RowsAssumption DEF Row, Effective, IInv, FileType
    <3>2. \A s \in Sensor : RowsMask(rows, s) = RowsMask(file[type].rows, s)
      BY ZenonT(40), <3>1, AppendMask
    <3>3. lister' = [pc |-> "write", type |-> type, reload |-> FALSE, removed |-> {},
                     added |-> {Acked("masklist", row)}, rows |-> rows]
      BY <2>1 DEF ListAdd
    <3>. HIDE DEF rows
    <3>. QED
      BY <1>1, <3>2, <3>3
  <2>2. ASSUME NEW type \in MaskType, NEW line \in DOMAIN file[type].rows, NEW s \in Sensor,
               ListRemove(type, line, s)
        PROVE  lister'.pc = "write" /\ lister'.reload
    BY <2>2 DEF ListRemove
  <2>. QED
    BY <2>1, <2>2
<1>. QED
  BY <1>1, <1>2, <1>3, <1>4 DEF ListerInv, Reloading

\* The file is written: it masks the same, or the masks are made anew.
LEMMA QuietWrite ==
  ASSUME IInv, QuietInv, ListWrite
  PROVE  QuietInv'
<1>. DEFINE type == lister.type
<1>1. /\ lister.pc = "write" /\ lister # Idle /\ type \in MaskType
      /\ file' = [file EXCEPT ![type] = [rows |-> lister.rows, version |-> file[type].version + 1]]
      /\ UNCHANGED <<mask, committed, adder, undisturbed>>
  BY IdlePc DEF ListWrite, IInv, ListerType
<1>. SUFFICES ASSUME undisturbed
              PROVE  adder = Idle /\ ListerInv'
  BY <1>1 DEF QuietInv
<1>2. adder = Idle /\ ListerInv
  BY <1>1 DEF IInv, OneRequest, QuietInv
<1>3. CASE lister.reload
  <2>1. lister' = [pc |-> "clear", types |-> {}]
    BY <1>3 DEF ListWrite
  <2>. QED
    BY <1>2, <2>1 DEF ListerInv, Reloading
<1>4. CASE ~lister.reload
  <2>1. lister' = Idle
    BY <1>4 DEF ListWrite
  <2>2. /\ committed = mask
        /\ \A t \in MaskType, s \in Sensor : MasksAre(t, s, {})
        /\ \A s \in Sensor : RowsMask(lister.rows, s) = RowsMask(file[type].rows, s)
    BY <1>1, <1>2, <1>4 DEF ListerInv
  <2>3. /\ file'[type].rows = lister.rows
        /\ \A t \in MaskType : t # type => file'[t] = file[t]
    BY <1>1 DEF IInv, FileType
  <2>4. \A t \in MaskType, s \in Sensor : FileMask(t, s)' = FileMask(t, s)
    BY <2>2, <2>3 DEF FileMask
  <2>5. \A t \in MaskType, s \in Sensor : MasksAre(t, s, {})'
    BY <1>1, <2>2, <2>4 DEF MasksAre
  <2>. QED
    BY <1>1, <1>2, <2>1, <2>2, <2>5, IdlePc DEF ListerInv, Reloading
<1>. QED
  BY <1>3, <1>4

\* Masks are made anew, alone; at the end they are those of the files.
LEMMA QuietReload ==
  ASSUME IInv, RegistryType, LoadInv, QuietInv,
         ClearMasks \/ Load \/ LoadGet \/ LoadPut \/ LoadCommit \/ LoadDone
  PROVE  QuietInv'
<1>1. lister # Idle /\ UNCHANGED <<adder, undisturbed>>
  BY IdlePc DEF ClearMasks, Load, LoadGet, LoadPut, LoadCommit, LoadDone, history
<1>. SUFFICES ASSUME undisturbed
              PROVE  adder = Idle /\ ListerInv'
  BY <1>1 DEF QuietInv
<1>2. adder = Idle /\ ListerInv
  BY <1>1 DEF IInv, OneRequest, QuietInv
<1>3. CASE ClearMasks
  <2>1. DOMAIN lister = {"pc", "types"} /\ lister.pc = "clear"
    BY <1>3 DEF ClearMasks, IInv, ListerType
  <2>2. alone' /\ (lister'.pc = "clear" \/ (lister'.pc = "load" /\ lister'.source = 1))
    <3>1. CASE lister.types = {}
      <4>1. lister' = [lister EXCEPT !.types = {"invalid"}] /\ alone' = (adder = Idle)
        BY <1>3, <3>1 DEF ClearMasks
      <4>. QED
        BY <1>2, <2>1, <4>1
    <3>2. CASE lister.types = {"invalid"}
      <4>1. lister' = [pc |-> "load", source |-> 1] /\ alone' = alone
        BY <1>3, <3>2 DEF ClearMasks
      <4>2. alone
        BY <1>2, <2>1, <3>2 DEF ListerInv, Reloading
      <4>. QED
        BY <4>1, <4>2
    <3>. QED
      BY <1>3, <3>1, <3>2 DEF ClearMasks
  <2>. QED
    BY <1>2, <2>2 DEF ListerInv
<1>4. CASE Load \/ LoadGet \/ LoadPut
  <2>1. lister.pc \in {"load", "insert", "put"} /\ UNCHANGED alone
    BY <1>4 DEF Load, LoadGet, LoadPut, history
  <2>2. lister'.pc \in {"insert", "put"}
    <3>1. CASE Load
      BY <3>1 DEF Load
    <3>2. CASE LoadGet
      <4>1. PICK t \in lister.todo :
              lister' = [pc |-> "put", source |-> lister.source, todo |-> lister.todo \ {t},
                         sensor |-> t.sensor,
                         mask |-> Merged(SourceType(lister.source), t.sensor, t.minutes)]
        BY <3>2 DEF LoadGet
      <4>. QED
        BY <4>1
    <3>3. CASE LoadPut
      BY <3>3 DEF LoadPut
    <3>. QED
      BY <1>4, <3>1, <3>2, <3>3
  <2>3. alone'
    BY <1>2, <2>1 DEF ListerInv, Reloading
  <2>. QED
    BY <1>2, <2>2, <2>3 DEF ListerInv
<1>5. CASE LoadCommit
  <2>1. alone' /\ lister'.pc = "load" /\ committed' = mask'
    BY <1>2, <1>5 DEF LoadCommit, ListerInv, Reloading, history
  <2>. QED
    BY <1>2, <2>1 DEF ListerInv
<1>6. CASE LoadDone
  <2>1. /\ lister.pc = "load" /\ lister.source > 4 /\ lister' = Idle
        /\ UNCHANGED <<file, mask, committed>>
    BY <1>6 DEF LoadDone, history
  <2>2. alone /\ committed = mask
    BY <1>2, <2>1 DEF ListerInv, Reloading, RegistryType
  <2>3. \A t \in MaskType, s \in Sensor : mask[t][s] = FileMask(t, s)
    BY <2>1, <2>2, LoadExact
  <2>4. \A t \in MaskType, s \in Sensor : MasksAre(t, s, {})'
    BY <2>1, <2>3, SameFileMask DEF MasksAre
  <2>. QED
    BY <1>2, <2>1, <2>2, <2>4, IdlePc DEF ListerInv, Reloading
<1>. QED
  BY <1>3, <1>4, <1>5, <1>6

-----------------------------------------------------------------------------
(* The theorems                                                            *)

\* At first no mask is made but those of the region's files.
LEMMA MaskInitOK == Init => MaskInv
<1>. SUFFICES ASSUME Init PROVE MaskInv
  OBVIOUS
<1>1. adder = Idle /\ lister = Idle /\ committed = mask
  BY DEF Init
<1>2. RowsMask(<<>>, Star) = {} /\ \A s \in Sensor : RowsMask(<<>>, s) = {}
  BY DEF RowsMask
<1>3. \A t \in MaskType, s \in Sensor : MasksAre(t, s, {})
  <2>1. \A t \in MaskType : file[t].rows = <<>>
    BY DEF Init
  <2>2. \A t \in MaskType, s \in Sensor : mask[t][s] = RowsMask(RegionRows[t], s)
    BY StarAssumption DEF Init
  <2>. QED
    BY <1>2, <2>1, <2>2 DEF MasksAre, FileMask
<1>. QED
  BY <1>1, <1>3, TypeInit, IdlePc DEF MaskInv, LoadInv, QuietInv, ListerInv, Reloading

\* The invariant of the masks is kept by every step; a crash restores the masks on disk,
\* which are those of the files when no request was cut off.
LEMMA MaskNextOK == IInv /\ MaskInv /\ [Next]_vars => MaskInv'
<1>. SUFFICES ASSUME IInv, RegistryType, LoadInv, QuietInv, [Next]_vars PROVE MaskInv'
  BY DEF MaskInv
<1>1. CASE \E type \in MaskType, row \in NewRows : AddOpen(type, row)
  BY <1>1, TypeAdder, LoadOthers, QuietOpen DEF MaskInv
<1>2. CASE AddReject \/ AddGet \/ AddPut \/ AddCommit \/ AddClose
  BY <1>2, TypeAdder, LoadOthers, QuietReject, QuietGet, QuietPut, QuietCommit, QuietClose DEF MaskInv
<1>3. CASE \/ \E type \in MaskType, row \in NewRows : ListAdd(type, row)
           \/ \E type \in MaskType : \E line \in DOMAIN file[type].rows, s \in Sensor :
                ListRemove(type, line, s)
  BY <1>3, TypeLister, LoadBegins, QuietList DEF MaskInv
<1>4. CASE ListWrite
  BY <1>4, TypeLister, LoadBegins, QuietWrite DEF MaskInv
<1>5. CASE ClearMasks \/ Load \/ LoadGet \/ LoadPut \/ LoadCommit \/ LoadDone
  BY <1>5, TypeLister, LoadClear, LoadLoad, LoadLoadGet, LoadLoadPut, LoadEnds, QuietReload DEF MaskInv
<1>6. CASE Crash
  <2>1. /\ mask' = committed /\ committed' = committed /\ adder' = Idle /\ lister' = Idle
        /\ file' = file /\ (undisturbed' => undisturbed /\ adder = Idle /\ lister = Idle)
    BY <1>6 DEF Crash
  <2>2. RegistryType'
    BY <2>1, IdlePc DEF RegistryType
  <2>3. LoadInv'
    BY <2>1, IdlePc DEF LoadInv, Reloading
  <2>4. ASSUME undisturbed'
        PROVE  ListerInv'
    <3>1. committed = mask /\ \A t \in MaskType, s \in Sensor : MasksAre(t, s, {})
      BY <2>1, <2>4, IdlePc DEF QuietInv, ListerInv
    <3>2. \A t \in MaskType, s \in Sensor : MasksAre(t, s, {})'
      BY <2>1, <3>1, SameFileMask DEF MasksAre
    <3>. QED
      BY <2>1, <3>1, <3>2, IdlePc DEF ListerInv, Reloading
  <2>. QED
    BY <2>1, <2>2, <2>3, <2>4 DEF MaskInv, QuietInv
<1>7. CASE UNCHANGED vars
  BY <1>7 DEF vars, history, MaskInv, RegistryType, LoadInv, QuietInv, ListerInv, AdderInv, BeforePut, MasksAre,
     Added, Reloading, Cleared, StarEmpty, LoadedSoFar, NoMoreThanFiles, NoLessThanFiles, HeldIsMerged,
     SourcesMask, SourceRows, TodoMask, Held, FileMask
<1>. QED
  BY <1>1, <1>2, <1>3, <1>4, <1>5, <1>6, <1>7 DEF Next

\* When LoadMasks is through and nothing else went on since the masks were cleared, the
\* masks are what the files say, for any rows of any files.
THEOREM ReloadCorrect == Spec => []ReloadExact
<1>1. MaskInv => ReloadExact
  BY LoadExact DEF MaskInv, ReloadExact
<1>. QED
  BY InitOK, NextOK, MaskInitOK, MaskNextOK, <1>1, PTL DEF Spec

\* Between requests that did not overlap the masks are those of the files, whatever rows
\* were added, removed and reloaded before.
THEOREM QuietMasksCorrect == Spec => []QuietMasksMatchFiles
<1>1. MaskInv => QuietMasksMatchFiles
  BY IdlePc DEF MaskInv, QuietInv, ListerInv, MasksAre, QuietMasksMatchFiles
<1>. QED
  BY InitOK, NextOK, MaskInitOK, MaskNextOK, <1>1, PTL DEF Spec

=============================================================================
