--------------------------- MODULE MaskAppProofs ---------------------------
(***************************************************************************)
(* The mask app for any projects, plots, sensors and masks: what is        *)
(* selected is offered, flags end with their handlers, and a view at rest  *)
(* is current unless an answer was overtaken.                              *)
(***************************************************************************)
EXTENDS MaskApp, SequenceTheorems, WellFoundedInduction, TLAPS

(***************************************************************************)
(* The invariant                                                           *)
(***************************************************************************)

SelFields ==
  {"project", "group", "plot", "sensor", "cmp", "plotCmp", "agg", "qc", "separate",
   "interpolation", "showMasks", "nearest", "diagnosticsOnly"}

\* Project, group and plot are offered.
PlaceOK(sel) ==
  /\ sel.project \in DOMAIN GroupsOf \cup {None}
  /\ sel.group \in ToSet(groupOptions(sel)) \cup {None}
  /\ sel.plot \in ToSet(plotOptions(sel)) \cup {None}

\* Both sensors are offered at the plot, and one is selected if there is any.
SensorsOK(sel) ==
  /\ {sel.sensor, sel.cmp} \subseteq ToSet(sensorOptions(sel)) \cup {None}
  /\ sel.sensor = None => sensorOptions(sel) = <<>>

SelOK(sel) == DOMAIN sel = SelFields /\ PlaceOK(sel) /\ SensorsOK(sel)

TabFields ==
  {"sel", "data", "dataLoading", "dataError", "dataCmp", "cmpLoading", "mask", "cache", "picked",
   "viewer", "saving", "dialog", "list", "listLoading", "listError", "removing", "flights", "tidy"}
Flags == {"dataLoading", "dataError", "cmpLoading", "saving", "listLoading", "removing", "tidy"}

FlightFields == {"kind", "key", "pc", "answer"}
IsFlight(f) ==
  /\ DOMAIN f = FlightFields
  /\ f.kind \in Kinds
  /\ f.pc \in {"sent", "answered"}
AreFlights(s) ==
  /\ Len(s) \in Nat
  /\ s \in Seq({s[i] : i \in 1..Len(s)})
  /\ \A i \in 1..Len(s) : IsFlight(s[i])

TabOK(t) ==
  /\ DOMAIN t = TabFields
  /\ \A flag \in Flags : t[flag] \in BOOLEAN
  /\ AreFlights(t.flights)
  /\ SelOK(t.sel)

\* A flag is set while a handler that resets it is under way; one save and one removal at
\* a time.
AtMostOne(t, kinds) == \A i, j \in Pending(t, kinds) : i = j
LoadingOK(t) ==
  /\ t.dataLoading => Pending(t, {"data"}) # {}
  /\ t.cmpLoading => Pending(t, {"cmp"}) # {}
  /\ t.listLoading => Pending(t, {"list", "relist"}) # {}
BusyOK(t) ==
  /\ t.saving <=> Pending(t, {"save"}) # {}
  /\ t.removing <=> Pending(t, {"remove", "relist"}) # {}
  /\ AtMostOne(t, {"save"})
  /\ AtMostOne(t, {"remove", "relist"})

\* The numbers of series that are asked for.
DataStyled(key) == Len(key.series) \in {1, 2, 4}
CmpStyled(key) == Len(key.series) \in {1, 2}
AskedStyled(t) ==
  \A i \in DOMAIN t.flights :
    /\ t.flights[i].kind = "data" => DataStyled(t.flights[i].key)
    /\ t.flights[i].kind = "cmp" => CmpStyled(t.flights[i].key)
StylesOK(t) ==
  /\ t.data # Nothing => DataStyled(t.data.key)
  /\ t.dataCmp # Nothing => CmpStyled(t.dataCmp.key)
  /\ AskedStyled(t)

\* What the last flight of a kind has asked for.
Newest(t, i, kind) == i \in Pending(t, {kind}) /\ \A j \in Pending(t, {kind}) : j <= i
Awaited(t, kind) == {t.flights[i].key : i \in {j \in DOMAIN t.flights : Newest(t, j, kind)}}

\* The masks have changed, and the handler that will fetch everything anew is under way.
Outdated(t) ==
  \E i \in DOMAIN t.flights :
    \/ t.flights[i].kind = "relist"
    \/ t.flights[i].kind \in {"save", "remove"} /\ t.flights[i].pc = "answered"

Current(files, key) == AnswerTo(files, [kind |-> "data", key |-> key])

\* Answers that are under way or cached say what the files say.
FlightsOK(t, files) ==
  \A i \in Pending(t, {"data", "cmp", "mask"}) :
    t.flights[i].pc = "answered" => t.flights[i].answer = AnswerTo(files, t.flights[i])
CacheOK(t, files) == \A key \in DOMAIN t.cache : t.cache[key] = Current(files, key)
AnswersOK(t, files) == ~Outdated(t) => FlightsOK(t, files) /\ CacheOK(t, files)

\* The diagram shown is that of the selection, or it was asked for last.
DataShown(t, files) ==
  Pending(t, {"data"}) = {} =>
    /\ t.data = Nothing => t.dataError \/ t.sel.plot = None \/ t.sel.sensor = None
    /\ t.data # Nothing => t.data = Shown(DataKey(t.sel), Current(files, DataKey(t.sel)))
DataOK(t, files) ==
  /\ Awaited(t, "data") \subseteq {DataKey(t.sel)}
  /\ ~Outdated(t) => DataShown(t, files)

\* The same for the masks.
MaskShown(t, files) ==
  Pending(t, {"mask"}) = {} /\ t.mask # Nothing =>
    t.mask = Shown(At(t.sel.plot, t.sel.sensor), MasksOf(files, At(t.sel.plot, t.sel.sensor)))
MaskOK(t, files) ==
  /\ Awaited(t, "mask") \subseteq {At(t.sel.plot, t.sel.sensor)}
  /\ ~Outdated(t) => MaskShown(t, files)

\* The same for the comparison diagram, which is not fetched after a change of the masks.
CmpMatches(sel, key) == sel.cmp # None /\ sel.separate /\ key = CmpKey(sel)
CmpOK(t) ==
  /\ \A key \in Awaited(t, "cmp") : CmpMatches(t.sel, key)
  /\ Pending(t, {"cmp"}) = {} /\ t.dataCmp # Nothing => CmpMatches(t.sel, t.dataCmp.key)

ViewOK(t, files) ==
  t.tidy => AnswersOK(t, files) /\ DataOK(t, files) /\ MaskOK(t, files) /\ CmpOK(t)

Good(t, files) == TabOK(t) /\ LoadingOK(t) /\ BusyOK(t) /\ StylesOK(t) /\ ViewOK(t, files)

IInv ==
  /\ page \in {"loading", "failed", "shell"}
  /\ page = "shell" => Good(tab, rows)
  /\ page # "shell" => tab = Tab(FirstSelection)

-----------------------------------------------------------------------------
(* Lists                                                                   *)

\* A set of naturals has a least element.
LEMMA LeastNatural ==
  ASSUME NEW T, T \subseteq Nat, T # {}
  PROVE  \E x \in T : \A y \in T : x <= y
<1>. DEFINE R == OpToRel(<, Nat)
<1>1. PICK x \in T : \A y \in T : ~(<<y, x>> \in R)
  <2>. HIDE DEF R
  <2>1. IsWellFoundedOn(R, Nat)
    BY NatLessThanWellFounded DEF R
  <2>. QED
    BY <2>1, WFMin
<1>2. ASSUME NEW y \in T
      PROVE  x <= y
  <2>1. <<y, x>> \in Nat \X Nat
    BY <1>2
  <2>2. ~(y < x)
    BY <1>1, <1>2, <2>1 DEF OpToRel
  <2>. QED
    BY <2>2, <1>2
<1>. QED
  BY <1>2

\* The first of some positions that are bad: the one before is not.
LEMMA FirstBad ==
  ASSUME NEW N \in Nat, NEW Bad, Bad \subseteq 0..N, Bad # {}
  PROVE  \E n \in Bad : n # 0 => n - 1 \in 0..N /\ n - 1 \notin Bad
<1>1. Bad \subseteq Nat
  OBVIOUS
<1>2. PICK n \in Bad : \A m \in Bad : n <= m
  BY <1>1, LeastNatural
<1>. QED
  BY <1>2

\* Among is a list of items of the list that are in the set.
LEMMA AmongOK ==
  ASSUME NEW S, NEW list \in Seq(S), NEW set
  PROVE  Among(list, set) \in Seq(S \cap set)
<1>. DEFINE N == Len(list)
            V == Seq(S \cap set)
            Step(f, n) == IF n = 0 THEN <<>>
                          ELSE IF list[n] \in set THEN Append(f[n - 1], list[n]) ELSE f[n - 1]
            IsIt(f) == f = [n \in 0..N |-> Step(f, n)]
<1>1. /\ N \in Nat
      /\ \A n \in 1..N : list[n] \in S
  BY ElementOfSeq
<1>2. ASSUME NEW f, NEW n \in 0..N, n # 0 => f[n - 1] \in V
      PROVE  Step(f, n) \in V
  <2>1. CASE n = 0
    BY <2>1
  <2>2. CASE n # 0
    <3>1. n \in 1..N
      BY <1>1, <2>2
    <3>2. list[n] \in set => list[n] \in S \cap set
      BY <1>1, <3>1
    <3>3. \A s \in V, e \in S \cap set : Append(s, e) \in V
      OBVIOUS
    <3>. QED
      BY <1>2, <2>2, <3>2, <3>3
  <2>. QED
    BY <2>1, <2>2
<1>. HIDE DEF V
<1>3. \E f : IsIt(f)
  <2>. DEFINE Up(n) == \E g : g = [m \in 0..n |-> Step(g, m)]
              Bad == {n \in 0..N : ~Up(n)}
  <2>1. SUFFICES Bad = {}
    <3>1. N \in 0..N
      BY <1>1
    <3>2. Up(N)
      <4>. HIDE DEF Up
      <4>. QED
        BY <2>1, <3>1
    <3>. QED
      BY <3>2
  <2>2. SUFFICES ASSUME Bad # {} PROVE FALSE
    OBVIOUS
  <2>3. PICK n \in Bad : n # 0 => n - 1 \in 0..N /\ n - 1 \notin Bad
    <3>1. Bad \subseteq 0..N
      OBVIOUS
    <3>. HIDE DEF Bad
    <3>. QED
      BY <2>2, FirstBad, <1>1, <3>1
  <2>4. CASE n = 0
    <3>. DEFINE g == [m \in 0..0 |-> <<>>]
    <3>1. g = [m \in 0..0 |-> Step(g, m)]
      OBVIOUS
    <3>. QED
      BY <2>3, <2>4, <3>1
  <2>5. CASE n # 0
    <3>1. n - 1 \in 0..N /\ n - 1 \notin Bad /\ n \in Nat
      <4>1. n \in 0..N
        OBVIOUS
      <4>. HIDE DEF Bad
      <4>. QED
        BY <2>3, <2>5, <1>1, <4>1
    <3>2. PICK g : g = [m \in 0..(n - 1) |-> Step(g, m)]
      <4>1. Up(n - 1)
        BY <3>1
      <4>. QED
        BY <4>1
    <3>. DEFINE h == [m \in 0..n |-> IF m = n THEN Step(g, n) ELSE g[m]]
    <3>3. \A m \in 0..n : h[m] = Step(h, m)
      <4>1. \A m \in 0..(n - 1) : g[m] = Step(g, m)
        <5>. HIDE DEF Step
        <5>. QED
          BY <3>2
      <4>2. \A m \in 0..n : m # 0 => m - 1 \in 0..(n - 1) /\ h[m - 1] = g[m - 1]
        BY <3>1
      <4>3. \A m \in 0..n : Step(h, m) = Step(g, m)
        BY <4>2
      <4>4. \A m \in 0..n : h[m] = Step(g, m)
        <5>. HIDE DEF Step
        <5>. QED
          BY <4>1, <3>1
      <4>. QED
        BY <4>3, <4>4
    <3>4. h = [m \in 0..n |-> Step(h, m)]
      <4>1. h = [m \in 0..n |-> h[m]]
        OBVIOUS
      <4>. HIDE DEF Step, h
      <4>. QED
        BY <4>1, <3>3
    <3>. QED
      BY <3>4, <2>3
  <2>. QED
    BY <2>4, <2>5
<1>4. PICK f : IsIt(f) /\ Among(list, set) = f[N]
  <2>. DEFINE c == CHOOSE f : IsIt(f)
  <2>1. IsIt(c)
    BY <1>3
  <2>2. Among(list, set) = c[N]
    BY DEF Among
  <2>. QED
    BY <2>1, <2>2
<1>5. \A n \in 0..N : f[n] \in V
  <2>. DEFINE Bad == {n \in 0..N : f[n] \notin V}
  <2>1. SUFFICES ASSUME Bad # {} PROVE FALSE
    OBVIOUS
  <2>2. PICK n \in Bad : n # 0 => n - 1 \in 0..N /\ n - 1 \notin Bad
    <3>1. Bad \subseteq 0..N
      OBVIOUS
    <3>. HIDE DEF Bad
    <3>. QED
      BY <2>1, FirstBad, <1>1, <3>1
  <2>3. n # 0 => n - 1 \in 0..N /\ n - 1 \notin Bad
    BY <2>2
  <2>4. f[n] = Step(f, n)
    <3>. HIDE DEF Step
    <3>. QED
      BY <1>4, <2>2
  <2>5. n # 0 => f[n - 1] \in V
    BY <2>3
  <2>. QED
    BY <1>2, <2>2, <2>4, <2>5
<1>. QED
  BY <1>1, <1>4, <1>5 DEF V

\* FlattenSeq of lists over S is a list over S.
LEMMA FlattenOK ==
  ASSUME NEW S, NEW lists \in Seq(Seq(S))
  PROVE  FlattenSeq(lists) \in Seq(S)
<1>. DEFINE N == Len(lists)
            V == Seq(S)
            Step(f, n) == IF n = 1 THEN lists[n] ELSE f[n - 1] \o lists[n]
            IsIt(f) == f = [n \in 1..N |-> Step(f, n)]
<1>1. /\ N \in Nat
      /\ \A n \in 1..N : lists[n] \in V
  BY ElementOfSeq
<1>2. ASSUME N = 0
      PROVE  FlattenSeq(lists) \in Seq(S)
  <2>1. lists = <<>>
    BY <1>2, EmptySeq
  <2>2. FlattenSeq(lists) = lists
    BY <1>2 DEF FlattenSeq
  <2>3. <<>> \in Seq(S)
    BY EmptySeq
  <2>. QED
    BY <2>1, <2>2, <2>3
<1>. SUFFICES ASSUME N # 0
              PROVE  FlattenSeq(lists) \in Seq(S)
  BY <1>2
<1>3. ASSUME NEW f, NEW n \in 1..N, n # 1 => f[n - 1] \in V
      PROVE  Step(f, n) \in V
  BY <1>1, <1>3
<1>. HIDE DEF V
<1>4. \E f : IsIt(f)
  <2>. DEFINE Up(n) == \E g : g = [m \in 1..(n + 1) |-> Step(g, m)]
              Bad == {n \in 0..(N - 1) : ~Up(n)}
  <2>1. SUFFICES Bad = {}
    <3>1. N - 1 \in 0..(N - 1) /\ (N - 1) + 1 = N
      BY <1>1
    <3>2. Up(N - 1)
      <4>. HIDE DEF Up
      <4>. QED
        BY <2>1, <3>1
    <3>. QED
      BY ZenonT(30), <3>1, <3>2
  <2>2. SUFFICES ASSUME Bad # {} PROVE FALSE
    OBVIOUS
  <2>3. PICK n \in Bad : n # 0 => n - 1 \in 0..(N - 1) /\ n - 1 \notin Bad
    <3>1. Bad \subseteq 0..(N - 1)
      OBVIOUS
    <3>. HIDE DEF Bad
    <3>2. N - 1 \in Nat
      BY <1>1
    <3>. QED
      BY <2>2, FirstBad, <3>1, <3>2
  <2>4. CASE n = 0
    <3>. DEFINE g == [m \in 1..1 |-> lists[m]]
    <3>1. g = [m \in 1..1 |-> Step(g, m)]
      OBVIOUS
    <3>2. 0 + 1 = 1
      OBVIOUS
    <3>3. Up(0)
      BY <3>1, <3>2
    <3>. QED
      BY <2>3, <2>4, <3>3
  <2>5. CASE n # 0
    <3>1. n - 1 \in 0..(N - 1) /\ n - 1 \notin Bad /\ n \in Nat /\ (n - 1) + 1 = n /\ n >= 1
      <4>1. n \in 0..(N - 1)
        OBVIOUS
      <4>. HIDE DEF Bad
      <4>. QED
        BY <2>3, <2>5, <1>1, <4>1
    <3>2. PICK g : g = [m \in 1..n |-> Step(g, m)]
      <4>1. Up(n - 1)
        BY <3>1
      <4>. QED
        BY <3>1, <4>1
    <3>. DEFINE h == [m \in 1..(n + 1) |-> IF m = n + 1 THEN Step(g, n + 1) ELSE g[m]]
    <3>3. \A m \in 1..(n + 1) : h[m] = Step(h, m)
      <4>1. \A m \in 1..n : g[m] = Step(g, m)
        <5>. HIDE DEF Step
        <5>. QED
          BY <3>2
      <4>2. \A m \in 1..(n + 1) : m # 1 => m - 1 \in 1..n /\ h[m - 1] = g[m - 1]
        BY <3>1
      <4>3. \A m \in 1..(n + 1) : Step(h, m) = Step(g, m)
        BY SMTT(30), <4>2
      <4>4. \A m \in 1..(n + 1) : h[m] = Step(g, m)
        <5>. HIDE DEF Step
        <5>. QED
          BY <4>1, <3>1
      <4>. QED
        BY <4>3, <4>4
    <3>4. h = [m \in 1..(n + 1) |-> Step(h, m)]
      <4>1. h = [m \in 1..(n + 1) |-> h[m]]
        OBVIOUS
      <4>. HIDE DEF Step, h
      <4>. QED
        BY <4>1, <3>3
    <3>5. Up(n)
      BY <3>4
    <3>. QED
      BY <3>5, <2>3
  <2>. QED
    BY <2>4, <2>5
<1>5. PICK f : IsIt(f) /\ FlattenSeq(lists) = f[N]
  <2>. DEFINE c == CHOOSE f : IsIt(f)
  <2>1. IsIt(c)
    BY <1>4
  <2>2. FlattenSeq(lists) = c[N]
    BY DEF FlattenSeq
  <2>. QED
    BY <2>1, <2>2
<1>6. \A n \in 1..N : f[n] \in V
  <2>. DEFINE Bad == {n \in 0..(N - 1) : f[n + 1] \notin V}
  <2>1. SUFFICES Bad = {}
    <3>1. \A n \in 1..N : n - 1 \in 0..(N - 1) /\ (n - 1) + 1 = n
      BY <1>1
    <3>. QED
      BY <3>1, <2>1
  <2>2. SUFFICES ASSUME Bad # {} PROVE FALSE
    OBVIOUS
  <2>3. PICK n \in Bad : n # 0 => n - 1 \in 0..(N - 1) /\ n - 1 \notin Bad
    <3>1. Bad \subseteq 0..(N - 1)
      OBVIOUS
    <3>. HIDE DEF Bad
    <3>2. N - 1 \in Nat
      BY <1>1
    <3>. QED
      BY <2>2, FirstBad, <3>1, <3>2
  <2>4. n \in Nat /\ n + 1 \in 1..N /\ (n + 1) - 1 = n
    <3>1. n \in 0..(N - 1)
      OBVIOUS
    <3>. HIDE DEF Bad
    <3>. QED
      BY <1>1, <3>1
  <2>5. f[n + 1] = Step(f, n + 1)
    <3>. HIDE DEF Step
    <3>. QED
      BY <1>5, <2>4
  <2>6. n + 1 # 1 => f[n] \in V
    <3>1. n + 1 # 1 => n # 0 /\ (n - 1) + 1 = n
      BY <2>4
    <3>2. n # 0 /\ (n - 1) + 1 = n => f[n] \in V
      BY <2>3
    <3>. QED
      BY <3>1, <3>2
  <2>7. Step(f, n + 1) \in V
    <3>. HIDE DEF Step
    <3>. QED
      BY <1>3, <2>4, <2>6
  <2>. QED
    BY <2>3, <2>5, <2>7
<1>7. N \in 1..N
  BY <1>1
<1>. HIDE DEF IsIt
<1>. QED
  BY <1>5, <1>6, <1>7 DEF V

-----------------------------------------------------------------------------
(* What is offered                                                         *)

Station == (UNION {ToSet(StationsOf[p]) : p \in DOMAIN StationsOf}) \cup {None}
Option == [plot : DOMAIN StationsOf \cap DOMAIN SensorsOf, station : Station]

\* A function on 1..n is a list.
LEMMA FunctionIsList ==
  ASSUME NEW n \in Nat, NEW S, NEW f, DOMAIN f = 1..n, f = [k \in 1..n |-> f[k]],
         \A k \in 1..n : f[k] \in S
  PROVE  f \in Seq(S)
<1>1. f \in [1..n -> S]
  OBVIOUS
<1>. QED
  BY <1>1, SeqDef

LEMMA ListItems ==
  ASSUME NEW S, NEW s \in Seq(S)
  PROVE  /\ Len(s) \in Nat /\ DOMAIN s = 1..Len(s)
         /\ ToSet(s) \subseteq S
         /\ \A i \in 1..Len(s) : s[i] \in ToSet(s)
         /\ s # <<>> => Len(s) > 0 /\ Head(s) = s[1] /\ Head(s) \in ToSet(s)
<1>1. Len(s) \in Nat /\ DOMAIN s = 1..Len(s) /\ \A i \in 1..Len(s) : s[i] \in S
  BY LenProperties, ElementOfSeq
<1>2. s # <<>> => Len(s) \in Nat \ {0}
  BY EmptySeq
<1>3. Head(s) = s[1]
  OBVIOUS
<1>. QED
  BY <1>1, <1>2, <1>3 DEF ToSet

LEMMA FirstOrOK ==
  ASSUME NEW S, NEW s \in Seq(S), NEW otherwise
  PROVE  FirstOr(s, otherwise) \in ToSet(s) \cup {otherwise}
BY ListItems DEF FirstOr

\* The neighbour of a selected item is an item of the list.
LEMMA AdjacentOK ==
  ASSUME NEW S, NEW s \in Seq(S), NEW current, NEW d \in {-1, 1}, NEW n \in {1, Len(s)}
  PROVE  Adjacent(s, current, d, n) \in ToSet(s) \cup {current}
<1>1. CASE s = <<>>
  BY <1>1 DEF Adjacent
<1>2. CASE s # <<>> /\ current \notin ToSet(s)
  <2>1. n \in 1..Len(s)
    BY <1>2, ListItems
  <2>2. Adjacent(s, current, d, n) = s[n]
    BY <1>2 DEF Adjacent
  <2>. QED
    BY <2>1, <2>2, ListItems
<1>3. CASE s # <<>> /\ current \in ToSet(s)
  <2>. DEFINE i == CHOOSE k \in DOMAIN s : s[k] = current
              m == Len(s)
              p == ((i - 1 + d + m) % m) + 1
  <2>1. i \in DOMAIN s /\ m \in Nat /\ m > 0 /\ DOMAIN s = 1..m
    BY <1>3, ListItems DEF ToSet
  <2>2. Adjacent(s, current, d, n) = s[p]
    BY <1>3 DEF Adjacent
  <2>3. p \in 1..m
    <3>. HIDE DEF i, m
    <3>1. i - 1 + d + m \in Int
      BY <2>1
    <3>2. (i - 1 + d + m) % m \in 0..(m - 1)
      BY <2>1, <3>1
    <3>. QED
      BY <2>1, <3>2
  <2>. QED
    BY <2>2, <2>3, ListItems
<1>. QED
  BY <1>1, <1>2, <1>3

LEMMA GroupsListed ==
  ASSUME NEW sel, sel.project \in DOMAIN GroupsOf \cup {None}
  PROVE  groupOptions(sel) \in Seq(DOMAIN PlotsOf)
BY ModelAssumption, EmptySeq DEF groupOptions

LEMMA PlotsListed ==
  ASSUME NEW sel, sel.group \in DOMAIN PlotsOf \cup {None}
  PROVE  plotOptions(sel) \in Seq(Option)
<1>1. CASE sel.group = None
  BY <1>1, EmptySeq DEF plotOptions
<1>2. CASE sel.group # None
  <2>. DEFINE plots == PlotsOf[sel.group]
              lists == [k \in DOMAIN plots |-> OptionsOfPlot(plots[k])]
              Plot == DOMAIN StationsOf \cap DOMAIN SensorsOf
  <2>1. plots \in Seq(Plot)
    BY <1>2, ModelAssumption
  <2>2. Len(plots) \in Nat /\ DOMAIN plots = 1..Len(plots)
    BY <2>1, LenProperties
  <2>3. \A p \in Plot : OptionsOfPlot(p) \in Seq(Option)
    <3>. TAKE p \in Plot
    <3>1. CASE StationsOf[p] = <<>>
      <4>. DEFINE o == [plot |-> p, station |-> None]
      <4>1. o \in Option
        BY DEF Option, Station
      <4>2. OptionsOfPlot(p) = <<o>>
        BY <3>1 DEF OptionsOfPlot
      <4>. HIDE DEF o
      <4>. QED
        BY <4>1, <4>2
    <3>2. CASE StationsOf[p] # <<>>
      <4>. DEFINE s == StationsOf[p]
                  f == [k \in DOMAIN s |-> [plot |-> p, station |-> s[k]]]
      <4>1. s \in Seq(ToSet(s))
        BY ModelAssumption
      <4>2. Len(s) \in Nat /\ DOMAIN s = 1..Len(s) /\ \A k \in 1..Len(s) : s[k] \in ToSet(s)
        BY <4>1, ListItems
      <4>3. \A k \in 1..Len(s) : f[k] \in Option
        BY <4>2 DEF Option, Station
      <4>4. f = [k \in 1..Len(s) |-> f[k]] /\ DOMAIN f = 1..Len(s)
        BY <4>2
      <4>5. OptionsOfPlot(p) = f
        BY <3>2 DEF OptionsOfPlot
      <4>. HIDE DEF f, s
      <4>. QED
        BY <4>2, <4>3, <4>4, <4>5, FunctionIsList
    <3>. QED
      BY <3>1, <3>2
  <2>4. \A k \in 1..Len(plots) : lists[k] \in Seq(Option)
    BY <2>1, <2>2, <2>3, ElementOfSeq
  <2>5. lists = [k \in 1..Len(plots) |-> lists[k]] /\ DOMAIN lists = 1..Len(plots)
    BY <2>2
  <2>6. plotOptions(sel) = FlattenSeq(lists)
    BY <1>2 DEF plotOptions
  <2>. HIDE DEF lists, plots
  <2>7. lists \in Seq(Seq(Option))
    BY <2>2, <2>4, <2>5, FunctionIsList
  <2>. QED
    BY <2>6, <2>7, FlattenOK
<1>. QED
  BY <1>1, <1>2

\* The sensors of a selection in place are sensors with diagnostics, none of them None.
LEMMA SensorsListed ==
  ASSUME NEW sel, PlaceOK(sel)
  PROVE  /\ sel.group \in DOMAIN PlotsOf \cup {None}
         /\ sel.plot # None => sel.plot \in Option
         /\ sensorOptions(sel) \in Seq(DOMAIN Diagnostics)
         /\ None \notin ToSet(sensorOptions(sel))
         /\ ToSet(filteredSensorOptions(sel)) \subseteq ToSet(sensorOptions(sel))
<1>1. sel.group \in DOMAIN PlotsOf \cup {None}
  BY GroupsListed, ListItems DEF PlaceOK
<1>2. sel.plot # None => sel.plot \in Option
  BY <1>1, PlotsListed, ListItems DEF PlaceOK
<1>3. sensorOptions(sel) \in Seq(DOMAIN Diagnostics)
  <2>1. CASE ~HasSensors(sel.plot)
    BY <2>1, EmptySeq DEF sensorOptions
  <2>2. CASE HasSensors(sel.plot)
    <3>. DEFINE set == {s \in DOMAIN Levels : sel.agg \in Levels[s]}
                S == DOMAIN Diagnostics \cap DOMAIN Levels
                list == SensorsOf[sel.plot.plot]
    <3>1. list \in Seq(S)
      BY <1>2, <2>2, ModelAssumption DEF HasSensors, Option
    <3>2. sensorOptions(sel) = Among(list, set)
      BY <2>2 DEF sensorOptions
    <3>3. S \cap set \subseteq DOMAIN Diagnostics
      OBVIOUS
    <3>. HIDE DEF set, list, S
    <3>. QED
      BY <3>1, <3>2, <3>3, AmongOK, SeqMonotonic
  <2>. QED
    BY <2>1, <2>2
<1>4. None \notin ToSet(sensorOptions(sel))
  BY <1>3, ListItems, ModelAssumption
<1>5. ToSet(filteredSensorOptions(sel)) \subseteq ToSet(sensorOptions(sel))
  <2>. DEFINE list == sensorOptions(sel)
              set == ToSet(list) \ Derived
  <2>1. Among(list, set) \in Seq(DOMAIN Diagnostics \cap set)
    BY <1>3, AmongOK
  <2>. QED
    BY <2>1, ListItems DEF filteredSensorOptions
<1>. QED
  BY <1>1, <1>2, <1>3, <1>4, <1>5

\* The diagnostic sensors and the sensors to compare with are offered.
LEMMA CmpListed ==
  ASSUME NEW sel, PlaceOK(sel)
  PROVE  /\ diagnosticSensorOptions(sel) \in Seq(ToSet(sensorOptions(sel)))
         /\ ToSet(diagnosticSensorOptions(sel)) \subseteq ToSet(sensorOptions(sel))
         /\ ToSet(sensorCmpOptions(sel)) \subseteq ToSet(sensorOptions(sel))
<1>. DEFINE O == ToSet(sensorOptions(sel))
<1>1. diagnosticSensorOptions(sel) \in Seq(O)
  <2>1. CASE sel.sensor \notin O
    BY <2>1, EmptySeq DEF diagnosticSensorOptions
  <2>2. CASE sel.sensor \in O
    <3>1. Diagnostics[sel.sensor] \in Seq(DOMAIN Diagnostics)
      BY <2>2, SensorsListed, ListItems, ModelAssumption
    <3>2. diagnosticSensorOptions(sel) = Among(Diagnostics[sel.sensor], O)
      BY <2>2 DEF diagnosticSensorOptions
    <3>3. DOMAIN Diagnostics \cap O \subseteq O
      OBVIOUS
    <3>4. Among(Diagnostics[sel.sensor], O) \in Seq(DOMAIN Diagnostics \cap O)
      <4>. HIDE DEF O
      <4>. QED
        BY <3>1, AmongOK
    <3>. HIDE DEF O
    <3>. QED
      BY <3>2, <3>3, <3>4, SeqMonotonic
  <2>. QED
    BY <2>1, <2>2
<1>2. ToSet(diagnosticSensorOptions(sel)) \subseteq O
  BY <1>1, ListItems
<1>. QED
  BY <1>1, <1>2 DEF sensorCmpOptions

\* What is offered depends on the fields before it.
LEMMA SameOffer ==
  ASSUME NEW s, NEW t
  PROVE  /\ s.project = t.project => groupOptions(s) = groupOptions(t)
         /\ s.group = t.group => plotOptions(s) = plotOptions(t)
         /\ s.plot = t.plot /\ s.agg = t.agg => sensorOptions(s) = sensorOptions(t)
BY DEF groupOptions, plotOptions, sensorOptions

\* The second selection differs in the sensors and in the plot to compare with only.
SamePlace(s, t) ==
  /\ DOMAIN t = SelFields
  /\ \A x \in SelFields \ {"sensor", "cmp", "plotCmp"} : t[x] = s[x]

LEMMA SamePlaceOffer ==
  ASSUME NEW s, NEW t, SamePlace(s, t)
  PROVE  /\ sensorOptions(t) = sensorOptions(s)
         /\ PlaceOK(s) => PlaceOK(t)
<1>1. /\ t.project = s.project /\ t.group = s.group /\ t.plot = s.plot /\ t.agg = s.agg
  BY DEF SamePlace, SelFields
<1>2. /\ groupOptions(t) = groupOptions(s) /\ plotOptions(t) = plotOptions(s)
      /\ sensorOptions(t) = sensorOptions(s)
  BY <1>1, SameOffer
<1>. QED
  BY <1>1, <1>2 DEF PlaceOK

LEMMA NoSensors ==
  ASSUME NEW sel, DOMAIN sel = SelFields, sensorOptions(sel) = <<>>,
         NEW new, new = [sel EXCEPT !.sensor = None, !.cmp = None]
  PROVE  SamePlace(sel, new) /\ SensorsOK(new)
<1>1. SamePlace(sel, new) /\ new.sensor = None /\ new.cmp = None
  BY DEF SamePlace, SelFields
<1>2. sensorOptions(new) = <<>>
  BY <1>1, SamePlaceOffer
<1>. QED
  BY <1>1, <1>2 DEF SensorsOK

\* selectSensorWithPreference leaves sensors that are offered.
LEMMA PreferenceOK ==
  ASSUME NEW sel, DOMAIN sel = SelFields, PlaceOK(sel)
  PROVE  /\ SamePlace(sel, selectSensorWithPreference(sel))
         /\ SensorsOK(selectSensorWithPreference(sel))
<1>. DEFINE offered == sensorOptions(sel)
            first == IF Preferred \in ToSet(offered) THEN Preferred ELSE Head(offered)
            main == [sel EXCEPT !.sensor = IF @ \in ToSet(offered) THEN @ ELSE first]
            cmp == IF main.cmp \in ToSet(sensorCmpOptions(main)) THEN main.cmp
                   ELSE FirstOr(diagnosticSensorOptions(main), None)
            none == [sel EXCEPT !.sensor = None, !.cmp = None]
            both == [main EXCEPT !.cmp = cmp]
<1>1. selectSensorWithPreference(sel) = IF offered = <<>> THEN none ELSE both
  BY DEF selectSensorWithPreference
<1>2. CASE offered = <<>>
  BY <1>1, <1>2, NoSensors
<1>3. CASE offered # <<>>
  <2>1. offered \in Seq(DOMAIN Diagnostics) /\ None \notin ToSet(offered)
    BY SensorsListed
  <2>2. Head(offered) \in ToSet(offered)
    BY <1>3, <2>1, ListItems
  <2>. HIDE DEF offered
  <2>3. SamePlace(sel, main) /\ main.sensor \in ToSet(offered)
    BY <2>2 DEF SamePlace, SelFields
  <2>4. SamePlace(sel, both) /\ both.sensor = main.sensor /\ both.cmp = cmp
    BY DEF SamePlace, SelFields
  <2>5. /\ PlaceOK(main) /\ sensorOptions(main) = offered /\ sensorOptions(both) = offered
    BY <2>3, <2>4, SamePlaceOffer DEF offered
  <2>. HIDE DEF main
  <2>6. /\ diagnosticSensorOptions(main) \in Seq(ToSet(offered))
        /\ ToSet(diagnosticSensorOptions(main)) \subseteq ToSet(offered)
        /\ ToSet(sensorCmpOptions(main)) \subseteq ToSet(offered)
    BY <2>5, CmpListed
  <2>7. cmp \in ToSet(offered) \cup {None}
    BY <2>6, FirstOrOK
  <2>8. SensorsOK(both)
    <3>. HIDE DEF both, cmp
    <3>. QED
      BY <2>1, <2>3, <2>4, <2>5, <2>7 DEF SensorsOK
  <2>. QED
    BY <1>1, <1>3, <2>4, <2>8
<1>. QED
  BY <1>2, <1>3

\* So does the watcher of the plot.
LEMMA PlotChangedOK ==
  ASSUME NEW sel, DOMAIN sel = SelFields, PlaceOK(sel)
  PROVE  SamePlace(sel, PlotChanged(sel)) /\ SensorsOK(PlotChanged(sel))
<1>. DEFINE none == [sel EXCEPT !.sensor = None, !.cmp = None]
            s == IF HasSensors(sel.plot) THEN selectSensorWithPreference(sel) ELSE none
            new == [s EXCEPT !.plotCmp = None]
<1>1. SamePlace(sel, s) /\ SensorsOK(s)
  <2>1. ~HasSensors(sel.plot) => sensorOptions(sel) = <<>>
    BY DEF sensorOptions
  <2>. QED
    BY <2>1, PreferenceOK, NoSensors
<1>. HIDE DEF s
<1>2. SamePlace(s, new) /\ SamePlace(sel, new) /\ new.sensor = s.sensor /\ new.cmp = s.cmp
  BY <1>1 DEF SamePlace, SelFields
<1>3. SensorsOK(new)
  <2>. HIDE DEF new
  <2>1. sensorOptions(new) = sensorOptions(s)
    BY <1>2, SamePlaceOffer
  <2>. QED
    BY <1>1, <1>2, <2>1 DEF SensorsOK
<1>. QED
  BY <1>2, <1>3 DEF PlotChanged, s

\* What a choice in one field may do to a selection.
ChoiceOK(old, sel) ==
  /\ DOMAIN sel = SelFields
  /\ sel.project \in DOMAIN GroupsOf \cup {None}
  /\ sel.project = old.project => sel.group \in ToSet(groupOptions(sel)) \cup {None}
  /\ sel.project = old.project /\ sel.group = old.group =>
       sel.plot \in ToSet(plotOptions(sel)) \cup {None}
  /\ sel.agg = old.agg =>
       \A s : DOMAIN s = SelFields /\ s.plot = old.plot /\ s.agg = old.agg
              /\ s.sensor = sel.sensor /\ s.cmp = sel.cmp => SensorsOK(s)

\* The watchers settle every choice.
LEMMA SettleOK ==
  ASSUME NEW old, SelOK(old), NEW sel, ChoiceOK(old, sel)
  PROVE  SelOK(Settle(old, sel))
<1>. DEFINE a == IF sel.project # old.project THEN ProjectChanged(sel) ELSE sel
            b == IF a.group # old.group THEN GroupChanged(a) ELSE a
            c == IF b.plot # old.plot THEN PlotChanged(b) ELSE b
            d == IF c.agg # old.agg THEN selectSensorWithPreference(c) ELSE c
<1>0. /\ Settle(old, sel) = d
      /\ DOMAIN sel = SelFields
      /\ groupOptions(sel) \in Seq(DOMAIN PlotsOf)
  BY GroupsListed DEF Settle, ChoiceOK
\* The group is offered; if the project has changed, no plot is selected.
<1>1. /\ DOMAIN a = SelFields
      /\ a.project = sel.project /\ a.agg = sel.agg /\ a.sensor = sel.sensor /\ a.cmp = sel.cmp
      /\ a.group \in ToSet(groupOptions(a)) \cup {None}
      /\ a.group = old.group => a.plot \in ToSet(plotOptions(a)) \cup {None}
  <2>1. CASE sel.project # old.project
    <3>. DEFINE groups == groupOptions(sel)
                group == IF DefaultGroup[sel.project] \in ToSet(groups)
                           THEN DefaultGroup[sel.project] ELSE FirstOr(groups, None)
                new == [sel EXCEPT !.group = group, !.plot = None, !.plotCmp = None]
    <3>1. a = new
      BY <2>1 DEF ProjectChanged
    <3>2. group \in ToSet(groups) \cup {None}
      BY <1>0, FirstOrOK
    <3>. HIDE DEF group
    <3>3. /\ DOMAIN new = SelFields
          /\ new.project = sel.project /\ new.agg = sel.agg /\ new.sensor = sel.sensor
          /\ new.cmp = sel.cmp /\ new.group = group /\ new.plot = None
      BY <1>0 DEF SelFields
    <3>4. groupOptions(new) = groups
      <4>. HIDE DEF new
      <4>. QED
        BY <3>3, SameOffer
    <3>. HIDE DEF new, groups
    <3>. QED
      BY <3>1, <3>2, <3>3, <3>4
  <2>2. CASE sel.project = old.project
    BY <2>2, <1>0 DEF ChoiceOK
  <2>. QED
    BY <2>1, <2>2
<1>. HIDE DEF a
\* The plot is offered.
<1>2. /\ DOMAIN b = SelFields
      /\ b.agg = sel.agg /\ b.sensor = sel.sensor /\ b.cmp = sel.cmp
      /\ PlaceOK(b)
  <2>. DEFINE plots == plotOptions(a)
              new == [a EXCEPT !.plot = FirstOr(plots, None)]
  <2>1. plots \in Seq(Option)
    BY <1>0, <1>1, SameOffer, ListItems, PlotsListed
  <2>2. CASE a.group # old.group
    <3>1. b = new
      BY <2>2 DEF GroupChanged
    <3>2. /\ DOMAIN new = SelFields
          /\ new.project = a.project /\ new.group = a.group
          /\ new.agg = a.agg /\ new.sensor = a.sensor /\ new.cmp = a.cmp
          /\ new.plot = FirstOr(plots, None)
      BY <1>1 DEF SelFields
    <3>. HIDE DEF new
    <3>3. groupOptions(new) = groupOptions(a) /\ plotOptions(new) = plots
      BY <3>2, SameOffer
    <3>4. new.plot \in ToSet(plots) \cup {None}
      BY <2>1, <3>2, FirstOrOK
    <3>5. PlaceOK(new)
      <4>. HIDE DEF plots
      <4>. QED
        BY <1>1, <3>2, <3>3, <3>4 DEF PlaceOK, ChoiceOK
    <3>. QED
      BY <1>1, <3>1, <3>2, <3>5
  <2>3. CASE a.group = old.group
    BY <1>1, <2>3 DEF PlaceOK, ChoiceOK
  <2>. QED
    BY <2>2, <2>3
<1>. HIDE DEF b
<1>3. /\ DOMAIN c = SelFields
      /\ c.agg = sel.agg
      /\ PlaceOK(c)
      /\ c.agg = old.agg => SensorsOK(c)
  <2>1. CASE b.plot # old.plot
    <3>1. SamePlace(b, PlotChanged(b)) /\ SensorsOK(PlotChanged(b))
      BY <1>2, PlotChangedOK
    <3>2. PlaceOK(PlotChanged(b))
      BY <1>2, <3>1, SamePlaceOffer
    <3>. QED
      BY <1>2, <2>1, <3>1, <3>2 DEF SamePlace, SelFields
  <2>2. CASE b.plot = old.plot
    BY <1>2, <2>2 DEF ChoiceOK
  <2>. QED
    BY <2>1, <2>2
<1>. HIDE DEF c
<1>4. DOMAIN d = SelFields /\ PlaceOK(d) /\ SensorsOK(d)
  <2>1. CASE c.agg # old.agg
    BY <1>3, <2>1, PreferenceOK, SamePlaceOffer DEF SamePlace
  <2>2. CASE c.agg = old.agg
    BY <1>3, <2>2
  <2>. QED
    BY <2>1, <2>2
<1>. QED
  BY <1>0, <1>4 DEF SelOK

\* What every field but the plot keeps.
LEMMA ChoiceKeeps ==
  ASSUME NEW old, SelOK(old), NEW sel, DOMAIN sel = SelFields,
         sel.project = old.project, sel.group = old.group,
         sel.plot \in ToSet(plotOptions(old)) \cup {None},
         {sel.sensor, sel.cmp} \subseteq ToSet(sensorOptions(old)) \cup {None},
         sel.sensor = None => old.sensor = None
  PROVE  ChoiceOK(old, sel)
<1>1. groupOptions(sel) = groupOptions(old) /\ plotOptions(sel) = plotOptions(old)
  BY SameOffer
<1>2. ASSUME NEW s, DOMAIN s = SelFields, s.plot = old.plot, s.agg = old.agg,
             s.sensor = sel.sensor, s.cmp = sel.cmp
      PROVE  SensorsOK(s)
  <2>1. sensorOptions(s) = sensorOptions(old)
    BY <1>2, SameOffer
  <2>. QED
    BY <1>2, <2>1 DEF SensorsOK, SelOK
<1>. QED
  BY <1>1, <1>2 DEF ChoiceOK, SelOK, PlaceOK

-----------------------------------------------------------------------------
(* Flights                                                                 *)

LEMMA FlightList ==
  ASSUME NEW S, NEW s \in Seq(S)
  PROVE  s \in Seq({s[i] : i \in 1..Len(s)})
<1>1. Range(s) = {s[i] : i \in 1..Len(s)} /\ s \in Seq(Range(s))
  BY RangeEquality, SeqOfRange
<1>. QED
  BY <1>1

LEMMA FlightDomain ==
  ASSUME NEW s, AreFlights(s)
  PROVE  DOMAIN s = 1..Len(s) /\ Len(s) \in Nat
BY LenProperties DEF AreFlights

\* A flight is sent.
LEMMA AppendFlight ==
  ASSUME NEW s, AreFlights(s), NEW e, IsFlight(e)
  PROVE  LET new == Append(s, e)
         IN  /\ AreFlights(new)
             /\ Len(new) = Len(s) + 1
             /\ DOMAIN new = 1..(Len(s) + 1)
             /\ \A i \in 1..Len(s) : new[i] = s[i]
             /\ new[Len(s) + 1] = e
<1>. DEFINE S == {s[i] : i \in 1..Len(s)}
            T == S \cup {e}
            new == Append(s, e)
<1>1. s \in Seq(T) /\ e \in T
  <2>1. S \subseteq T /\ s \in Seq(S)
    BY DEF AreFlights
  <2>. HIDE DEF T, S
  <2>2. s \in Seq(T)
    BY <2>1, SeqMonotonic
  <2>. QED
    BY <2>2 DEF T
<1>. HIDE DEF T
<1>2. /\ new \in Seq(T) /\ Len(new) = Len(s) + 1
      /\ \A i \in 1..Len(s) : new[i] = s[i]
      /\ new[Len(s) + 1] = e
  BY <1>1, AppendProperties
<1>3. new \in Seq({new[i] : i \in 1..Len(new)}) /\ DOMAIN new = 1..Len(new)
  BY <1>2, FlightList, LenProperties
<1>. HIDE DEF new
<1>4. \A i \in 1..Len(new) : IsFlight(new[i])
  <2>1. \A i \in 1..Len(new) : i \in 1..Len(s) \/ i = Len(s) + 1
    BY <1>2, FlightDomain
  <2>. QED
    BY <1>2, <2>1 DEF AreFlights
<1>5. AreFlights(new)
  BY <1>2, <1>3, <1>4, FlightDomain DEF AreFlights
<1>6. DOMAIN new = 1..(Len(s) + 1)
  BY <1>2, <1>3
<1>. QED
  BY <1>2, <1>5, <1>6 DEF new

\* A flight leaves: those behind it move up.
Moved(k, i) == IF k < i THEN k ELSE k + 1

LEMMA RemoveFlight ==
  ASSUME NEW s, AreFlights(s), NEW i \in DOMAIN s
  PROVE  LET new == RemoveAt(s, i)
         IN  /\ AreFlights(new)
             /\ DOMAIN new = 1..(Len(s) - 1)
             /\ \A k \in DOMAIN new : Moved(k, i) \in DOMAIN s \ {i} /\ new[k] = s[Moved(k, i)]
             /\ \A j \in DOMAIN s \ {i} : \E k \in DOMAIN new : j = Moved(k, i)
             /\ \A k, l \in DOMAIN new : k <= l <=> Moved(k, i) <= Moved(l, i)
<1>. DEFINE S == {s[k] : k \in 1..Len(s)}
            front == SubSeq(s, 1, i - 1)
            back == SubSeq(s, i + 1, Len(s))
            new == RemoveAt(s, i)
<1>1. s \in Seq(S) /\ Len(s) \in Nat /\ i \in 1..Len(s) /\ DOMAIN s = 1..Len(s)
  BY FlightDomain DEF AreFlights
<1>2. \A k \in 1..Len(s) : s[k] \in S
  OBVIOUS
<1>. HIDE DEF S
<1>3. /\ front \in Seq(S) /\ Len(front) = i - 1
      /\ \A k \in 1..(i - 1) : front[k] = s[k]
  <2>1. \A k \in 1..(i - 1) : s[k] \in S
    BY <1>1, <1>2
  <2>2. /\ front \in Seq(S)
        /\ Len(front) = (IF 1 <= i - 1 THEN i - 1 - 1 + 1 ELSE 0)
        /\ \A k \in 1..(i - 1 - 1 + 1) : front[k] = s[1 + k - 1]
    BY <1>1, <2>1, SubSeqProperties
  <2>. HIDE DEF front
  <2>. QED
    BY <1>1, <2>2
<1>4. /\ back \in Seq(S) /\ Len(back) = Len(s) - i
      /\ \A k \in 1..(Len(s) - i) : back[k] = s[i + k]
  <2>1. \A k \in (i + 1)..Len(s) : s[k] \in S
    BY <1>1, <1>2
  <2>2. /\ back \in Seq(S)
        /\ Len(back) = (IF i + 1 <= Len(s) THEN Len(s) - (i + 1) + 1 ELSE 0)
        /\ \A k \in 1..(Len(s) - (i + 1) + 1) : back[k] = s[(i + 1) + k - 1]
    BY <1>1, <2>1, SubSeqProperties
  <2>. HIDE DEF back
  <2>3. Len(back) = Len(s) - i
    <3>1. CASE i + 1 <= Len(s)
      BY <1>1, <2>2, <3>1
    <3>2. CASE i = Len(s)
      BY <1>1, <2>2, <3>2
    <3>. QED
      BY <1>1, <3>1, <3>2
  <2>4. ASSUME NEW k \in 1..(Len(s) - i)
        PROVE  back[k] = s[i + k]
    <3>1. (i + 1) + k - 1 = i + k /\ k \in 1..(Len(s) - (i + 1) + 1)
      BY <1>1
    <3>2. back[k] = s[(i + 1) + k - 1]
      BY <2>2, <3>1
    <3>. QED
      BY <3>1, <3>2
  <2>. QED
    BY <2>2, <2>3, <2>4
<1>. HIDE DEF front, back
<1>5. new = front \o back
  BY DEF RemoveAt, front, back
<1>6. /\ new \in Seq(S) /\ Len(new) = Len(s) - 1
      /\ \A k \in 1..(Len(s) - 1) : new[k] = IF k < i THEN s[k] ELSE s[k + 1]
  <2>1. /\ front \o back \in Seq(S)
        /\ Len(front \o back) = Len(front) + Len(back)
        /\ \A k \in 1..(Len(front) + Len(back)) :
             (front \o back)[k] = IF k <= Len(front) THEN front[k] ELSE back[k - Len(front)]
    BY <1>3, <1>4, ConcatProperties
  <2>. HIDE DEF new
  <2>2. ASSUME NEW k \in 1..(Len(s) - 1)
        PROVE  new[k] = IF k < i THEN s[k] ELSE s[k + 1]
    <3>1. CASE k < i
      BY <1>1, <1>3, <1>4, <1>5, <2>1, <3>1
    <3>2. CASE ~(k < i)
      <4>1. k - (i - 1) \in 1..(Len(s) - i) /\ i + (k - (i - 1)) = k + 1
        BY <1>1, <3>2
      <4>2. k \in 1..(Len(front) + Len(back)) /\ ~(k <= Len(front)) /\ Len(front) = i - 1
        BY <1>1, <1>3, <1>4, <3>2
      <4>3. new[k] = back[k - (i - 1)]
        BY <1>5, <2>1, <4>2
      <4>. QED
        BY <1>4, <3>2, <4>1, <4>3
    <3>. QED
      BY <3>1, <3>2
  <2>. QED
    BY <1>1, <1>3, <1>4, <1>5, <2>1, <2>2
<1>7. new \in Seq({new[k] : k \in 1..Len(new)}) /\ DOMAIN new = 1..Len(new)
  BY <1>6, FlightList, LenProperties
<1>. HIDE DEF new
<1>8. \A k \in DOMAIN new : Moved(k, i) \in DOMAIN s \ {i} /\ new[k] = s[Moved(k, i)]
  BY <1>1, <1>6, <1>7 DEF Moved
<1>9. \A k \in DOMAIN new : IsFlight(new[k])
  BY <1>1, <1>8 DEF AreFlights
<1>10. ASSUME NEW j \in DOMAIN s \ {i}
       PROVE  \E k \in DOMAIN new : j = Moved(k, i)
  <2>1. CASE j < i
    <3>1. j \in DOMAIN new /\ j = Moved(j, i)
      BY <1>1, <1>6, <1>7, <2>1 DEF Moved
    <3>. QED
      BY <3>1
  <2>2. CASE ~(j < i)
    <3>1. j - 1 \in DOMAIN new /\ j = Moved(j - 1, i)
      BY <1>1, <1>6, <1>7, <2>2 DEF Moved
    <3>. QED
      BY <3>1
  <2>. QED
    BY <2>1, <2>2
<1>11. \A k, l \in DOMAIN new : k <= l <=> Moved(k, i) <= Moved(l, i)
  BY <1>1, <1>6, <1>7 DEF Moved
<1>. QED
  BY <1>1, <1>6, <1>7, <1>8, <1>9, <1>10, <1>11 DEF AreFlights, new

\* A flight is answered: it stays the same request.
SameRequest(e, f) == e.kind = f.kind /\ e.key = f.key

AnsweredWith(s, new, i, answer) ==
  /\ AreFlights(new)
  /\ DOMAIN new = DOMAIN s
  /\ \A k \in DOMAIN s \ {i} : new[k] = s[k]
  /\ SameRequest(new[i], s[i]) /\ new[i].pc = "answered" /\ new[i].answer = answer

LEMMA AnswerFlight ==
  ASSUME NEW s, AreFlights(s), NEW i \in DOMAIN s, NEW answer
  PROVE  AnsweredWith(s, [s EXCEPT ![i].pc = "answered", ![i].answer = answer], i, answer)
<1>. DEFINE new == [s EXCEPT ![i].pc = "answered", ![i].answer = answer]
            f == s[i]
            e == [[f EXCEPT !.pc = "answered"] EXCEPT !.answer = answer]
            T == {s[k] : k \in 1..Len(s)} \cup {e}
<1>1. DOMAIN s = 1..Len(s) /\ Len(s) \in Nat /\ i \in 1..Len(s) /\ IsFlight(f)
  BY FlightDomain DEF AreFlights
<1>2. new = [s EXCEPT ![i] = e]
  BY <1>1
<1>. HIDE DEF new, f
<1>3. IsFlight(e) /\ SameRequest(e, f) /\ e.pc = "answered" /\ e.answer = answer
  BY <1>1 DEF IsFlight, FlightFields, SameRequest
<1>. HIDE DEF e
<1>4. s \in Seq(T) /\ e \in T
  <2>1. s \in Seq({s[k] : k \in 1..Len(s)})
    BY DEF AreFlights
  <2>2. {s[k] : k \in 1..Len(s)} \subseteq T
    OBVIOUS
  <2>3. s \in Seq(T)
    <3>. HIDE DEF T
    <3>. QED
      BY <2>1, <2>2, SeqMonotonic
  <2>. QED
    BY <2>3
<1>. HIDE DEF T
<1>5. /\ new \in Seq(T) /\ Len(new) = Len(s)
      /\ \A k \in 1..Len(s) : new[k] = IF k = i THEN e ELSE s[k]
  BY <1>1, <1>2, <1>4, ExceptSeq
<1>6. new \in Seq({new[k] : k \in 1..Len(new)}) /\ DOMAIN new = 1..Len(new)
  BY <1>5, FlightList, LenProperties
<1>7. \A k \in 1..Len(new) : IsFlight(new[k])
  BY <1>3, <1>5 DEF AreFlights
<1>8. AreFlights(new)
  BY <1>1, <1>5, <1>6, <1>7 DEF AreFlights
<1>9. AnsweredWith(s, new, i, answer)
  BY <1>1, <1>3, <1>5, <1>6, <1>8 DEF f, AnsweredWith
<1>. QED
  BY <1>9 DEF new

-----------------------------------------------------------------------------
(* What a change of the flights does to what the invariant says of them    *)

\* Only these fields of the tab change.
Changes(t, u, fields) == DOMAIN u = TabFields /\ \A x \in TabFields \ fields : u[x] = t[x]

\* Nothing or one flight has been sent.
Grown(t, u, kind, key) ==
  /\ AreFlights(u.flights)
  /\ DOMAIN t.flights \subseteq DOMAIN u.flights
  /\ \A i \in DOMAIN t.flights : u.flights[i] = t.flights[i]
  /\ \A i \in DOMAIN u.flights \ DOMAIN t.flights :
       /\ u.flights[i].kind = kind /\ u.flights[i].key = key /\ u.flights[i].pc = "sent"
       /\ \A j \in DOMAIN u.flights : j <= i

\* A new flight is the newest of its kind.
Asked(t, u, kind) ==
  /\ Pending(u, {kind}) # Pending(t, {kind}) /\ Pending(u, {kind}) # {}
  /\ \A i : Newest(u, i, kind) => u.flights[i].pc = "sent"

LEMMA SameFlightsGrown ==
  ASSUME NEW t, AreFlights(t.flights), NEW u, u.flights = t.flights, NEW kind, NEW key
  PROVE  Grown(t, u, kind, key)
BY DEF Grown

LEMMA SendOK ==
  ASSUME NEW t, DOMAIN t = TabFields, AreFlights(t.flights), NEW kind \in Kinds, NEW key,
         NEW u, u = Send(t, kind, key)
  PROVE  /\ Changes(t, u, {"flights"})
         /\ Grown(t, u, kind, key)
         /\ Awaited(u, kind) = {key}
         /\ Pending(u, {kind}) # {}
         /\ Asked(t, u, kind)
<1>. DEFINE e == [kind |-> kind, key |-> key, pc |-> "sent", answer |-> None]
            s == t.flights
            new == Append(s, e)
<1>1. u = [t EXCEPT !.flights = new]
  BY DEF Send
<1>2. IsFlight(e) /\ e.kind = kind /\ e.key = key /\ e.pc = "sent"
  BY DEF IsFlight, FlightFields
<1>. HIDE DEF e, new
<1>3. Changes(t, u, {"flights"}) /\ u.flights = new
  BY <1>1 DEF Changes, TabFields
<1>. HIDE DEF s
<1>4. /\ AreFlights(new)
      /\ DOMAIN new = 1..(Len(s) + 1)
      /\ \A i \in 1..Len(s) : new[i] = s[i]
      /\ new[Len(s) + 1] = e
  BY <1>2, AppendFlight DEF s, new
<1>5. DOMAIN s = 1..Len(s) /\ Len(s) \in Nat
  BY FlightDomain DEF s
<1>6. /\ DOMAIN s \subseteq DOMAIN new
      /\ \A i \in DOMAIN s : new[i] = s[i]
      /\ \A i \in DOMAIN new \ DOMAIN s : i = Len(s) + 1
      /\ \A j \in DOMAIN new : j <= Len(s) + 1
  BY <1>4, <1>5
<1>7. Grown(t, u, kind, key)
  BY <1>2, <1>3, <1>4, <1>6 DEF Grown, s
<1>8. \A i \in DOMAIN u.flights : Newest(u, i, kind) <=> i = Len(s) + 1
  <2>1. Len(s) + 1 \in Pending(u, {kind})
    BY <1>2, <1>3, <1>4, <1>5 DEF Pending
  <2>2. \A j \in Pending(u, {kind}) : j <= Len(s) + 1 /\ j \in 1..(Len(s) + 1)
    BY <1>3, <1>4, <1>6 DEF Pending
  <2>3. ASSUME NEW i, Newest(u, i, kind)
        PROVE  i = Len(s) + 1
    <3>1. i \in 1..(Len(s) + 1) /\ Len(s) + 1 <= i
      BY <2>1, <2>2, <2>3 DEF Newest
    <3>. QED
      BY <1>5, <3>1
  <2>4. Newest(u, Len(s) + 1, kind)
    BY <2>1, <2>2 DEF Newest
  <2>. QED
    BY <2>3, <2>4
<1>9. Len(s) + 1 \in Pending(u, {kind}) /\ Len(s) + 1 \in DOMAIN u.flights
  BY <1>2, <1>3, <1>4, <1>5 DEF Pending
<1>10. Awaited(u, kind) = {key}
  BY <1>2, <1>3, <1>4, <1>8, <1>9 DEF Awaited
<1>11. Asked(t, u, kind)
  <2>1. Len(s) + 1 \notin Pending(t, {kind})
    BY <1>5 DEF Pending, s
  <2>2. \A i : Newest(u, i, kind) => i \in DOMAIN u.flights
    BY DEF Newest, Pending
  <2>. QED
    BY <1>2, <1>3, <1>4, <1>8, <1>9, <2>1, <2>2 DEF Asked
<1>. QED
  BY <1>3, <1>7, <1>9, <1>10, <1>11

LEMMA GrownKeeps ==
  ASSUME NEW t, NEW u, NEW kind, NEW key, Grown(t, u, kind, key)
  PROVE  /\ \A kinds : kind \notin kinds => Pending(u, kinds) = Pending(t, kinds)
         /\ \A kinds : Pending(t, kinds) # {} => Pending(u, kinds) # {}
         /\ \A k : k # kind => Awaited(u, k) = Awaited(t, k)
         /\ kind # "relist" => (Outdated(u) <=> Outdated(t))
         /\ kind # "relist" /\ u.cache = t.cache =>
              \A files : AnswersOK(t, files) => AnswersOK(u, files)
         /\ (kind = "data" => DataStyled(key)) /\ (kind = "cmp" => CmpStyled(key)) =>
              (AskedStyled(t) => AskedStyled(u))
         /\ \A kinds : Pending(t, kinds) = {} => AtMostOne(u, kinds)
<1>1. ASSUME NEW kinds, kind \notin kinds
      PROVE  Pending(u, kinds) = Pending(t, kinds)
  BY <1>1 DEF Grown, Pending
<1>2. ASSUME NEW kinds
      PROVE  Pending(t, kinds) \subseteq Pending(u, kinds)
  BY DEF Grown, Pending
<1>3. ASSUME NEW k, k # kind
      PROVE  Awaited(u, k) = Awaited(t, k)
  <2>1. Pending(u, {k}) = Pending(t, {k})
    BY <1>1, <1>3
  <2>2. \A i : Newest(u, i, k) <=> Newest(t, i, k)
    BY <2>1 DEF Newest
  <2>3. \A i : Newest(t, i, k) => i \in DOMAIN t.flights /\ i \in DOMAIN u.flights
                                  /\ u.flights[i] = t.flights[i]
    BY DEF Newest, Pending, Grown
  <2>. QED
    BY <2>2, <2>3 DEF Awaited
<1>4. ASSUME kind # "relist"
      PROVE  Outdated(u) <=> Outdated(t)
  BY <1>4 DEF Outdated, Grown
<1>5. ASSUME kind # "relist", u.cache = t.cache, NEW files, AnswersOK(t, files)
      PROVE  AnswersOK(u, files)
  <2>1. FlightsOK(t, files) => FlightsOK(u, files)
    BY DEF FlightsOK, Pending, Grown
  <2>. QED
    BY <1>4, <1>5, <2>1 DEF AnswersOK, CacheOK
<1>6. ASSUME kind = "data" => DataStyled(key), kind = "cmp" => CmpStyled(key), AskedStyled(t)
      PROVE  AskedStyled(u)
  BY <1>6 DEF AskedStyled, Grown
<1>7. ASSUME NEW kinds, Pending(t, kinds) = {}
      PROVE  AtMostOne(u, kinds)
  <2>1. \A i \in Pending(u, kinds) : i \in DOMAIN u.flights \ DOMAIN t.flights
    BY <1>7 DEF Pending, Grown
  <2>2. \A i \in DOMAIN u.flights : i \in Nat
    BY FlightDomain DEF Grown
  <2>. QED
    BY <2>1, <2>2 DEF AtMostOne, Grown
<1>. QED
  BY <1>1, <1>2, <1>3, <1>4, <1>5, <1>6, <1>7

\* A flight has left.
Left(t, u, i) ==
  /\ AreFlights(u.flights)
  /\ \A k \in DOMAIN u.flights :
       Moved(k, i) \in DOMAIN t.flights \ {i} /\ u.flights[k] = t.flights[Moved(k, i)]
  /\ \A j \in DOMAIN t.flights \ {i} : \E k \in DOMAIN u.flights : j = Moved(k, i)
  /\ \A k, l \in DOMAIN u.flights : k <= l <=> Moved(k, i) <= Moved(l, i)

LEMMA LeftKeeps ==
  ASSUME NEW t, AreFlights(t.flights), NEW i \in DOMAIN t.flights, NEW u, Left(t, u, i)
  PROVE  LET kind == t.flights[i].kind
         IN  /\ \A kinds : Pending(u, kinds) = {} <=> Pending(t, kinds) \subseteq {i}
             /\ \A kinds : AtMostOne(t, kinds) => AtMostOne(u, kinds)
             /\ \A k : k # kind \/ (\A j \in Pending(t, {k}) : j >= i) =>
                  Awaited(u, k) \subseteq Awaited(t, k)
             /\ \A k : kind = k /\ Pending(u, {k}) = {} => t.flights[i].key \in Awaited(t, k)
             /\ Outdated(u) => Outdated(t)
             /\ kind # "relist" /\ ~(kind \in {"save", "remove"} /\ t.flights[i].pc = "answered")
                  => (Outdated(u) <=> Outdated(t))
             /\ \A files : FlightsOK(t, files) => FlightsOK(u, files)
             /\ AskedStyled(t) => AskedStyled(u)
<1>. DEFINE kind == t.flights[i].kind
<1>1. /\ \A k \in DOMAIN u.flights :
           /\ Moved(k, i) \in DOMAIN t.flights /\ Moved(k, i) # i
           /\ u.flights[k] = t.flights[Moved(k, i)]
      /\ \A j \in DOMAIN t.flights : j # i => \E k \in DOMAIN u.flights : j = Moved(k, i)
      /\ DOMAIN t.flights \subseteq Nat /\ DOMAIN u.flights \subseteq Nat
  BY FlightDomain DEF Left
<1>2. ASSUME NEW kinds
      PROVE  /\ \A k \in DOMAIN u.flights : k \in Pending(u, kinds) <=> Moved(k, i) \in Pending(t, kinds)
             /\ \A j \in Pending(t, kinds) : j # i => \E k \in Pending(u, kinds) : j = Moved(k, i)
  BY <1>1 DEF Pending
<1>3. \A kinds : Pending(u, kinds) \subseteq DOMAIN u.flights
  BY DEF Pending
<1>4. ASSUME NEW kinds
      PROVE  Pending(u, kinds) = {} <=> Pending(t, kinds) \subseteq {i}
  BY <1>1, <1>2, <1>3
<1>5. ASSUME NEW kinds, AtMostOne(t, kinds)
      PROVE  AtMostOne(u, kinds)
  <2>. SUFFICES ASSUME NEW k \in Pending(u, kinds), NEW l \in Pending(u, kinds)
                PROVE  k = l
    BY DEF AtMostOne
  <2>1. Moved(k, i) = Moved(l, i)
    BY <1>2, <1>3, <1>5 DEF AtMostOne
  <2>2. k <= l /\ l <= k
    BY <1>1, <1>3, <2>1 DEF Left
  <2>. QED
    BY <1>1, <1>3, <2>2
<1>6. ASSUME NEW k, k # kind \/ (\A j \in Pending(t, {k}) : j >= i)
      PROVE  Awaited(u, k) \subseteq Awaited(t, k)
  <2>1. ASSUME NEW n \in DOMAIN u.flights, Newest(u, n, k)
        PROVE  Newest(t, Moved(n, i), k)
    <3>1. n \in Pending(u, {k}) /\ \A m \in Pending(u, {k}) : m <= n
      BY <2>1 DEF Newest
    <3>2. Moved(n, i) \in Pending(t, {k})
      BY <1>2, <3>1
    <3>3. ASSUME NEW j \in Pending(t, {k})
          PROVE  j <= Moved(n, i)
      <4>1. CASE j # i
        <5>1. PICK m \in Pending(u, {k}) : j = Moved(m, i)
          BY <1>2, <4>1
        <5>. QED
          BY <1>3, <3>1, <5>1 DEF Left
      <4>2. CASE j = i
        <5>1. k = kind
          BY <4>2 DEF Pending
        <5>2. Moved(n, i) >= i
          BY <1>6, <3>2, <5>1
        <5>. QED
          BY <1>1, <4>2, <5>2
      <4>. QED
        BY <4>1, <4>2
    <3>. QED
      BY <3>2, <3>3 DEF Newest
  <2>. QED
    BY <1>1, <2>1 DEF Awaited
<1>7. ASSUME NEW k, kind = k, Pending(u, {k}) = {}
      PROVE  t.flights[i].key \in Awaited(t, k)
  <2>1. Pending(t, {k}) = {i}
    BY ZenonT(30), <1>4, <1>7 DEF Pending
  <2>2. Newest(t, i, k)
    BY <1>1, <2>1 DEF Newest
  <2>. QED
    BY <2>2 DEF Awaited
<1>8. Outdated(u) => Outdated(t)
  BY <1>1 DEF Outdated
<1>9. ASSUME kind # "relist", ~(kind \in {"save", "remove"} /\ t.flights[i].pc = "answered"),
             Outdated(t)
      PROVE  Outdated(u)
  <2>1. PICK j \in DOMAIN t.flights :
          \/ t.flights[j].kind = "relist"
          \/ t.flights[j].kind \in {"save", "remove"} /\ t.flights[j].pc = "answered"
    BY <1>9 DEF Outdated
  <2>2. PICK k \in DOMAIN u.flights : j = Moved(k, i)
    BY <1>1, <1>9, <2>1
  <2>. QED
    BY <1>1, <2>1, <2>2 DEF Outdated
<1>10. ASSUME NEW files, FlightsOK(t, files)
       PROVE  FlightsOK(u, files)
  <2>. SUFFICES ASSUME NEW k \in Pending(u, {"data", "cmp", "mask"}), u.flights[k].pc = "answered"
                PROVE  u.flights[k].answer = AnswerTo(files, u.flights[k])
    BY DEF FlightsOK
  <2>1. Moved(k, i) \in Pending(t, {"data", "cmp", "mask"}) /\ u.flights[k] = t.flights[Moved(k, i)]
    BY <1>1, <1>2, <1>3
  <2>. QED
    BY <1>10, <2>1 DEF FlightsOK
<1>11. AskedStyled(t) => AskedStyled(u)
  BY <1>1 DEF AskedStyled
<1>. QED
  BY <1>4, <1>5, <1>6, <1>7, <1>8, <1>9, <1>10, <1>11

\* A flight is answered by the server: rows change, requests stay.
Answered(t, u, i) ==
  /\ AreFlights(u.flights)
  /\ DOMAIN u.flights = DOMAIN t.flights
  /\ \A k \in DOMAIN t.flights \ {i} : u.flights[k] = t.flights[k]
  /\ SameRequest(u.flights[i], t.flights[i])
  /\ u.flights[i].pc = "answered"

LEMMA AnsweredKeeps ==
  ASSUME NEW t, NEW i \in DOMAIN t.flights, NEW u, Answered(t, u, i)
  PROVE  /\ \A kinds : Pending(u, kinds) = Pending(t, kinds)
         /\ \A k : Awaited(u, k) = Awaited(t, k)
         /\ Outdated(t) => Outdated(u)
         /\ t.flights[i].kind \in {"save", "remove"} => Outdated(u)
         /\ AskedStyled(t) => AskedStyled(u)
<1>1. \A k \in DOMAIN t.flights : SameRequest(u.flights[k], t.flights[k])
  BY DEF Answered, SameRequest
<1>2. ASSUME NEW kinds
      PROVE  Pending(u, kinds) = Pending(t, kinds)
  BY <1>1 DEF Pending, Answered, SameRequest
<1>3. ASSUME NEW k
      PROVE  Awaited(u, k) = Awaited(t, k)
  <2>1. \A j : Newest(u, j, k) <=> Newest(t, j, k)
    BY <1>2 DEF Newest
  <2>. QED
    BY <1>1, <2>1 DEF Awaited, Answered, SameRequest
<1>4. Outdated(t) => Outdated(u)
  BY DEF Outdated, Answered, SameRequest
<1>5. t.flights[i].kind \in {"save", "remove"} => Outdated(u)
  BY DEF Outdated, Answered, SameRequest
<1>6. AskedStyled(t) => AskedStyled(u)
  BY <1>1 DEF AskedStyled, Answered, SameRequest
<1>. QED
  BY <1>2, <1>3, <1>4, <1>5, <1>6

-----------------------------------------------------------------------------
(* The fetches                                                             *)

LEMMA IfAnyOK ==
  ASSUME NEW S, NEW x \in S, NEW c
  PROVE  IfAny(c, x) \in Seq(S) /\ (c => Len(IfAny(c, x)) = 1) /\ (~c => Len(IfAny(c, x)) = 0)
<1>1. CASE c
  BY <1>1 DEF IfAny
<1>2. CASE ~c
  BY <1>2, EmptySeq DEF IfAny
<1>. QED
  BY <1>1, <1>2

\* One, two or four series are asked for, one or two to compare with.
LEMMA KeysStyled ==
  ASSUME NEW sel
  PROVE  DataStyled(DataKey(sel)) /\ CmpStyled(CmpKey(sel))
<1>. DEFINE a == At(sel.plotCmp, sel.cmp)
            b == At(sel.plot, sel.cmp)
            c == At(sel.plotCmp, sel.sensor)
            d == At(sel.plot, sel.sensor)
            both == sel.cmp # None /\ ~sel.separate
            other == sel.plotCmp # None
            S == {a, b, c, d}
            s1 == IfAny(both /\ other, a)
            s2 == IfAny(both, b)
            s3 == IfAny(other, c)
            r1 == IfAny(other, a)
<1>1. DataKey(sel).series = s1 \o s2 \o s3 \o <<d>> /\ CmpKey(sel).series = r1 \o <<b>>
  BY DEF DataKey, CmpKey
<1>2. /\ s1 \in Seq(S) /\ Len(s1) = IF both /\ other THEN 1 ELSE 0
      /\ s2 \in Seq(S) /\ Len(s2) = IF both THEN 1 ELSE 0
      /\ s3 \in Seq(S) /\ Len(s3) = IF other THEN 1 ELSE 0
      /\ r1 \in Seq(S) /\ Len(r1) = IF other THEN 1 ELSE 0
      /\ <<d>> \in Seq(S) /\ Len(<<d>>) = 1
      /\ <<b>> \in Seq(S) /\ Len(<<b>>) = 1
  <2>. HIDE DEF a, b, c, d
  <2>1. a \in S /\ b \in S /\ c \in S /\ d \in S
    OBVIOUS
  <2>2. <<d>> \in Seq(S) /\ Len(<<d>>) = 1 /\ <<b>> \in Seq(S) /\ Len(<<b>>) = 1
    BY <2>1
  <2>. HIDE DEF S
  <2>3. s1 \in Seq(S) /\ (both /\ other => Len(s1) = 1) /\ (~(both /\ other) => Len(s1) = 0)
    BY <2>1, IfAnyOK
  <2>4. s2 \in Seq(S) /\ (both => Len(s2) = 1) /\ (~both => Len(s2) = 0)
    BY <2>1, IfAnyOK
  <2>5. s3 \in Seq(S) /\ (other => Len(s3) = 1) /\ (~other => Len(s3) = 0)
    BY <2>1, IfAnyOK
  <2>6. r1 \in Seq(S) /\ (other => Len(r1) = 1) /\ (~other => Len(r1) = 0)
    BY <2>1, IfAnyOK
  <2>. HIDE DEF both, other, s1, s2, s3, r1
  <2>. QED
    BY <2>2, <2>3, <2>4, <2>5, <2>6
<1>. HIDE DEF a, b, c, d, both, other, s1, s2, s3, r1, S
<1>3. s1 \o s2 \in Seq(S) /\ Len(s1 \o s2) = Len(s1) + Len(s2)
  BY <1>2, ConcatProperties
<1>4. s1 \o s2 \o s3 \in Seq(S) /\ Len(s1 \o s2 \o s3) = Len(s1) + Len(s2) + Len(s3)
  BY SMTT(30), <1>2, <1>3, ConcatProperties
<1>5. Len(s1 \o s2 \o s3 \o <<d>>) = Len(s1) + Len(s2) + Len(s3) + 1
  BY <1>2, <1>4, ConcatProperties
<1>6. Len(r1 \o <<b>>) = Len(r1) + 1
  BY SMTT(30), <1>2, ConcatProperties
<1>. QED
  BY <1>1, <1>2, <1>5, <1>6 DEF DataStyled, CmpStyled

\* The three ways of fetchData: there is nothing to fetch, it is cached, it is asked for.
LEMMA FetchDataSteps ==
  ASSUME NEW t, DOMAIN t = TabFields, AreFlights(t.flights), NEW u, u = fetchData(t)
  PROVE  LET key == DataKey(t.sel)
         IN  /\ Changes(t, u, {"data", "dataLoading", "dataError", "flights", "tidy"})
             /\ Grown(t, u, "data", key)
             /\ \/ /\ t.sel.plot = None \/ t.sel.sensor = None
                   /\ u.data = Nothing /\ u.dataLoading = t.dataLoading /\ u.dataError = t.dataError
                   /\ u.flights = t.flights
                   /\ u.tidy = (t.tidy /\ Pending(t, {"data"}) = {})
                \/ /\ key \in DOMAIN t.cache
                   /\ u.data = Shown(key, t.cache[key]) /\ u.dataLoading = FALSE /\ u.dataError = FALSE
                   /\ u.flights = t.flights
                   /\ u.tidy = (t.tidy /\ Pending(t, {"data"}) = {})
                \/ /\ u.data = t.data /\ u.dataLoading = TRUE /\ u.dataError = FALSE
                   /\ Awaited(u, "data") = {key} /\ Pending(u, {"data"}) # {}
                   /\ u.tidy = t.tidy
<1>. DEFINE key == DataKey(t.sel)
<1>1. CASE t.sel.plot = None \/ t.sel.sensor = None
  <2>. DEFINE v == [t EXCEPT !.data = Nothing]
  <2>1. Changes(t, v, {"data"}) /\ v.data = Nothing
    BY DEF Changes, TabFields
  <2>2. u = [v EXCEPT !.tidy = @ /\ Pending(v, {"data"}) = {}]
    BY <1>1 DEF fetchData, Overtaken
  <2>. HIDE DEF v
  <2>3. Pending(v, {"data"}) = Pending(t, {"data"})
    BY <2>1 DEF Pending, Changes, TabFields
  <2>4. /\ Changes(v, u, {"tidy"})
        /\ u.tidy = (v.tidy /\ Pending(t, {"data"}) = {})
    BY <2>1, <2>2, <2>3 DEF Changes, TabFields
  <2>5. /\ Changes(t, u, {"data", "tidy"}) /\ u.data = Nothing
        /\ u.tidy = (t.tidy /\ Pending(t, {"data"}) = {})
    BY <2>1, <2>4 DEF Changes, TabFields
  <2>6. u.flights = t.flights
    BY <2>5 DEF Changes, TabFields
  <2>. QED
    BY <1>1, <2>5, <2>6, SameFlightsGrown DEF Changes, TabFields
<1>2. CASE ~(t.sel.plot = None \/ t.sel.sensor = None) /\ Cached(t, key)
  <2>. DEFINE v == [t EXCEPT !.data = Shown(key, t.cache[key]), !.dataError = FALSE,
                             !.dataLoading = FALSE]
  <2>1. /\ Changes(t, v, {"data", "dataError", "dataLoading"})
        /\ v.data = Shown(key, t.cache[key]) /\ v.dataError = FALSE /\ v.dataLoading = FALSE
    <3>. DEFINE answer == Shown(key, t.cache[key])
    <3>. HIDE DEF answer
    <3>. QED
      BY DEF Changes, TabFields
  <2>2. u = [v EXCEPT !.tidy = @ /\ Pending(v, {"data"}) = {}]
    BY <1>2 DEF fetchData, Overtaken
  <2>. HIDE DEF v
  <2>3. Pending(v, {"data"}) = Pending(t, {"data"})
    BY <2>1 DEF Pending, Changes, TabFields
  <2>4. /\ Changes(v, u, {"tidy"})
        /\ u.tidy = (v.tidy /\ Pending(t, {"data"}) = {})
    BY <2>1, <2>2, <2>3 DEF Changes, TabFields
  <2>5. /\ Changes(t, u, {"data", "dataError", "dataLoading", "tidy"})
        /\ u.data = Shown(key, t.cache[key]) /\ u.dataError = FALSE /\ u.dataLoading = FALSE
        /\ u.tidy = (t.tidy /\ Pending(t, {"data"}) = {})
    BY <2>1, <2>4 DEF Changes, TabFields
  <2>6. u.flights = t.flights
    BY <2>5 DEF Changes, TabFields
  <2>7. key \in DOMAIN t.cache
    BY <1>2 DEF Cached
  <2>. QED
    BY <2>5, <2>6, <2>7, SameFlightsGrown DEF Changes
<1>3. CASE ~(t.sel.plot = None \/ t.sel.sensor = None) /\ ~Cached(t, key)
  <2>. DEFINE v == [t EXCEPT !.dataLoading = TRUE, !.dataError = FALSE]
  <2>1. /\ Changes(t, v, {"dataError", "dataLoading"})
        /\ v.dataError = FALSE /\ v.dataLoading = TRUE
    BY DEF Changes, TabFields
  <2>2. u = Send(v, "data", key)
    BY <1>3 DEF fetchData
  <2>. HIDE DEF v
  <2>3. v.flights = t.flights /\ DOMAIN v = TabFields
    BY <2>1 DEF Changes, TabFields
  <2>4. /\ Changes(v, u, {"flights"}) /\ Grown(v, u, "data", key)
        /\ Awaited(u, "data") = {key} /\ Pending(u, {"data"}) # {}
    BY <2>2, <2>3, SendOK DEF Kinds
  <2>5. Grown(t, u, "data", key)
    BY <2>3, <2>4 DEF Grown
  <2>6. /\ Changes(t, u, {"dataError", "dataLoading", "flights"})
        /\ u.dataError = FALSE /\ u.dataLoading = TRUE
    BY <2>1, <2>4 DEF Changes, TabFields
  <2>7. u.tidy = t.tidy /\ u.data = t.data
    BY <2>6 DEF Changes, TabFields
  <2>. QED
    BY <2>4, <2>5, <2>6, <2>7 DEF Changes
<1>. QED
  BY <1>1, <1>2, <1>3

LEMMA ShownIsSomething ==
  ASSUME NEW key, NEW answer
  PROVE  /\ Shown(key, answer) # Nothing
         /\ Shown(key, answer).key = key /\ Shown(key, answer).answer = answer
<1>1. "key" \in DOMAIN Shown(key, answer)
  BY DEF Shown
<1>2. DOMAIN Nothing = {}
  BY EmptySeq DEF Nothing
<1>. QED
  BY <1>1, <1>2 DEF Shown

LEMMA FetchDataOK ==
  ASSUME NEW t, TabOK(t), NEW u, u = fetchData(t)
  PROVE  /\ TabOK(u) /\ Changes(t, u, {"data", "dataLoading", "dataError", "flights", "tidy"})
         /\ Grown(t, u, "data", DataKey(t.sel))
         /\ u.tidy => t.tidy
         /\ u.dataLoading => t.dataLoading \/ Pending(u, {"data"}) # {}
         /\ StylesOK(t) => StylesOK(u)
         /\ \A files : u.tidy /\ AnswersOK(t, files) => DataOK(u, files)
<1>. DEFINE key == DataKey(t.sel)
<1>1. DOMAIN t = TabFields /\ AreFlights(t.flights)
  BY DEF TabOK
<1>2. /\ Changes(t, u, {"data", "dataLoading", "dataError", "flights", "tidy"})
      /\ Grown(t, u, "data", key)
      /\ \/ /\ t.sel.plot = None \/ t.sel.sensor = None
            /\ u.data = Nothing /\ u.dataLoading = t.dataLoading /\ u.dataError = t.dataError
            /\ u.flights = t.flights
            /\ u.tidy = (t.tidy /\ Pending(t, {"data"}) = {})
         \/ /\ key \in DOMAIN t.cache
            /\ u.data = Shown(key, t.cache[key]) /\ u.dataLoading = FALSE /\ u.dataError = FALSE
            /\ u.flights = t.flights
            /\ u.tidy = (t.tidy /\ Pending(t, {"data"}) = {})
         \/ /\ u.data = t.data /\ u.dataLoading = TRUE /\ u.dataError = FALSE
            /\ Awaited(u, "data") = {key} /\ Pending(u, {"data"}) # {}
            /\ u.tidy = t.tidy
  BY ZenonT(30), <1>1, FetchDataSteps
<1>. HIDE DEF key
<1>3. u.sel = t.sel /\ u.cache = t.cache /\ u.dataCmp = t.dataCmp /\ u.cmpLoading = t.cmpLoading
      /\ u.saving = t.saving /\ u.listLoading = t.listLoading /\ u.removing = t.removing
  BY <1>2 DEF Changes, TabFields
<1>4. \A flag \in Flags : u[flag] \in BOOLEAN
  <2>1. t.tidy \in BOOLEAN /\ t.dataLoading \in BOOLEAN /\ t.dataError \in BOOLEAN
        /\ t.cmpLoading \in BOOLEAN /\ t.saving \in BOOLEAN /\ t.listLoading \in BOOLEAN
        /\ t.removing \in BOOLEAN
    BY DEF TabOK, Flags
  <2>2. u.tidy \in BOOLEAN /\ u.dataLoading \in BOOLEAN /\ u.dataError \in BOOLEAN
    BY <1>2, <2>1
  <2>. QED
    BY <1>3, <2>1, <2>2 DEF Flags
<1>5. TabOK(u)
  BY <1>2, <1>3, <1>4 DEF TabOK, Changes, Grown
<1>6. u.tidy => t.tidy
  BY <1>2
<1>7. u.dataLoading => t.dataLoading \/ Pending(u, {"data"}) # {}
  BY <1>2
<1>8. StylesOK(t) => StylesOK(u)
  <2>1. DataStyled(key)
    BY KeysStyled DEF key
  <2>2. AskedStyled(t) => AskedStyled(u)
    BY <1>2, <2>1, GrownKeeps
  <2>3. \A a : Shown(key, a).key = key
    BY DEF Shown
  <2>. QED
    BY <1>2, <1>3, <2>1, <2>2, <2>3 DEF StylesOK
<1>9. ASSUME NEW files, u.tidy, AnswersOK(t, files)
      PROVE  DataOK(u, files)
  <2>1. Outdated(u) <=> Outdated(t)
    BY <1>2, GrownKeeps
  <2>2. CASE Pending(t, {"data"}) = {} /\ u.flights = t.flights
    <3>1. Awaited(u, "data") = {}
      BY <2>2 DEF Awaited, Newest, Pending
    <3>2. \/ /\ t.sel.plot = None \/ t.sel.sensor = None
             /\ u.data = Nothing
          \/ /\ key \in DOMAIN t.cache
             /\ u.data = Shown(key, t.cache[key]) /\ u.data # Nothing
          \/ Pending(u, {"data"}) # {}
      BY <1>2, ShownIsSomething
    <3>3. ~Outdated(t) /\ key \in DOMAIN t.cache => t.cache[key] = Current(files, key)
      BY <1>9 DEF AnswersOK, CacheOK
    <3>. QED
      BY <1>3, <2>1, <3>1, <3>2, <3>3 DEF DataOK, DataShown, key
  <2>3. CASE Awaited(u, "data") = {key} /\ Pending(u, {"data"}) # {}
    BY <1>3, <2>3 DEF DataOK, DataShown, key
  <2>. QED
    BY <1>2, <1>9, <2>2, <2>3
<1>. QED
  BY <1>2, <1>5, <1>6, <1>7, <1>8, <1>9 DEF key

LEMMA OvertakenOK ==
  ASSUME NEW v, DOMAIN v = TabFields, NEW kinds, NEW u, u = Overtaken(v, kinds)
  PROVE  Changes(v, u, {"tidy"}) /\ u.tidy = (v.tidy /\ Pending(v, kinds) = {})
BY DEF Overtaken, Changes, TabFields

\* A tab is well-typed if what has changed is.
LEMMA TabStays ==
  ASSUME NEW t, TabOK(t), NEW u, DOMAIN u = TabFields, u.sel = t.sel, AreFlights(u.flights),
         \A flag \in Flags : u[flag] = t[flag] \/ u[flag] \in BOOLEAN
  PROVE  TabOK(u)
BY DEF TabOK

LEMMA FetchMaskOK ==
  ASSUME NEW t, TabOK(t), NEW u, u = fetchMask(t)
  PROVE  /\ TabOK(u) /\ Changes(t, u, {"mask", "flights", "tidy"})
         /\ Grown(t, u, "mask", At(t.sel.plot, t.sel.sensor))
         /\ u.tidy => t.tidy
         /\ StylesOK(t) => StylesOK(u)
         /\ \A files : u.tidy => MaskOK(u, files)
<1>. DEFINE key == At(t.sel.plot, t.sel.sensor)
            v == [t EXCEPT !.mask = Nothing]
            none == t.sel.plot = None \/ t.sel.sensor = None
<1>1. DOMAIN t = TabFields /\ AreFlights(t.flights)
  BY DEF TabOK
<1>2. Changes(t, v, {"mask"}) /\ v.mask = Nothing
  BY <1>1 DEF Changes, TabFields
<1>3. u = IF none THEN Overtaken(v, {"mask"}) ELSE Send(v, "mask", key)
  BY DEF fetchMask
<1>. HIDE DEF v, key, none
<1>4. /\ v.flights = t.flights /\ DOMAIN v = TabFields /\ AreFlights(v.flights)
      /\ Pending(v, {"mask"}) = Pending(t, {"mask"})
  BY <1>1, <1>2 DEF Changes, TabFields, Pending
<1>5. /\ Changes(t, u, {"mask", "flights", "tidy"}) /\ u.mask = Nothing
      /\ Grown(t, u, "mask", key)
      /\ \/ /\ u.flights = t.flights
            /\ u.tidy = (t.tidy /\ Pending(t, {"mask"}) = {})
         \/ /\ Awaited(u, "mask") = {key}
            /\ u.tidy = t.tidy
  <2>1. CASE none
    <3>1. Changes(v, u, {"tidy"}) /\ u.tidy = (v.tidy /\ Pending(t, {"mask"}) = {})
      BY <1>3, <1>4, <2>1, OvertakenOK
    <3>2. u.flights = t.flights /\ u.tidy = (t.tidy /\ Pending(t, {"mask"}) = {})
          /\ u.mask = Nothing /\ Changes(t, u, {"mask", "flights", "tidy"})
      BY <1>2, <3>1 DEF Changes, TabFields
    <3>. QED
      BY <1>1, <3>2, SameFlightsGrown
  <2>2. CASE ~none
    <3>1. u = Send(v, "mask", key)
      BY <1>3, <2>2
    <3>2. Changes(v, u, {"flights"}) /\ Grown(v, u, "mask", key) /\ Awaited(u, "mask") = {key}
      BY <1>4, <3>1, SendOK DEF Kinds
    <3>3. Grown(t, u, "mask", key)
      BY <1>4, <3>2 DEF Grown
    <3>. QED
      BY <1>2, <3>2, <3>3 DEF Changes, TabFields
  <2>. QED
    BY <2>1, <2>2
<1>6. \A x \in {"sel", "data", "dataCmp", "dataLoading", "dataError", "cmpLoading", "saving",
                "listLoading", "removing"} : u[x] = t[x]
  BY <1>5 DEF Changes, TabFields
<1>7. TabOK(u)
  <2>1. t.tidy \in BOOLEAN
    BY DEF TabOK, Flags
  <2>2. u.tidy \in BOOLEAN
    BY <1>5, <2>1
  <2>3. \A flag \in Flags : u[flag] = t[flag] \/ u[flag] \in BOOLEAN
    BY <1>6, <2>2 DEF Flags
  <2>. QED
    BY <1>5, <1>6, <2>3, TabStays DEF Changes, Grown
<1>8. StylesOK(t) => StylesOK(u)
  BY <1>5, <1>6, GrownKeeps DEF StylesOK
<1>9. ASSUME NEW files, u.tidy
      PROVE  MaskOK(u, files)
  <2>1. CASE Awaited(u, "mask") = {key}
    BY <1>5, <1>6, <2>1 DEF MaskOK, MaskShown, key
  <2>2. CASE u.flights = t.flights /\ Pending(t, {"mask"}) = {}
    <3>1. Awaited(u, "mask") = {}
      BY <2>2 DEF Awaited, Newest, Pending
    <3>. QED
      BY <1>5, <3>1 DEF MaskOK, MaskShown
  <2>. QED
    BY <1>5, <1>9, <2>1, <2>2
<1>. QED
  BY <1>5, <1>7, <1>8, <1>9 DEF key

\* The comparison diagram is gone, or shown from the cache, or asked for.
CmpFetched(t, u) ==
  \/ u.flights = t.flights /\ u.dataCmp = Nothing
  \/ /\ u.flights = t.flights /\ (u.tidy => Pending(t, {"cmp"}) = {})
     /\ \E key \in DOMAIN t.cache : u.dataCmp = Shown(key, t.cache[key])
  \/ u.dataCmp = t.dataCmp /\ Asked(t, u, "cmp")

LEMMA FetchDataCmpOK ==
  ASSUME NEW t, TabOK(t), NEW u, u = fetchDataCmp(t)
  PROVE  /\ TabOK(u) /\ Changes(t, u, {"dataCmp", "cmpLoading", "flights", "tidy"})
         /\ Grown(t, u, "cmp", CmpKey(t.sel))
         /\ u.tidy => t.tidy
         /\ u.cmpLoading => t.cmpLoading \/ Pending(u, {"cmp"}) # {}
         /\ StylesOK(t) => StylesOK(u)
         /\ u.tidy => CmpOK(u)
         /\ CmpFetched(t, u)
<1>. DEFINE key == CmpKey(t.sel)
            none == ~t.sel.separate \/ t.sel.plot = None \/ t.sel.cmp = None
            answer == Shown(key, t.cache[key])
<1>1. DOMAIN t = TabFields /\ AreFlights(t.flights)
  BY DEF TabOK
<1>2. /\ Changes(t, u, {"dataCmp", "cmpLoading", "flights", "tidy"})
      /\ Grown(t, u, "cmp", key)
      /\ \/ /\ u.flights = t.flights
            /\ u.dataCmp = Nothing \/ (~none /\ Cached(t, key) /\ u.dataCmp = answer)
            /\ u.cmpLoading = t.cmpLoading \/ u.cmpLoading = FALSE
            /\ u.tidy = (t.tidy /\ Pending(t, {"cmp"}) = {})
         \/ /\ ~none /\ u.dataCmp = t.dataCmp /\ u.cmpLoading = TRUE
            /\ Awaited(u, "cmp") = {key} /\ Asked(t, u, "cmp")
            /\ u.tidy = t.tidy
  <2>1. CASE none
    <3>. DEFINE v == [t EXCEPT !.dataCmp = Nothing]
    <3>1. Changes(t, v, {"dataCmp"}) /\ v.dataCmp = Nothing
      BY <1>1 DEF Changes, TabFields
    <3>2. u = Overtaken(v, {"cmp"})
      BY <2>1 DEF fetchDataCmp
    <3>. HIDE DEF v, answer, key, none
    <3>3. v.flights = t.flights /\ DOMAIN v = TabFields /\ Pending(v, {"cmp"}) = Pending(t, {"cmp"})
      BY <3>1 DEF Changes, TabFields, Pending
    <3>4. Changes(v, u, {"tidy"}) /\ u.tidy = (v.tidy /\ Pending(t, {"cmp"}) = {})
      BY <3>2, <3>3, OvertakenOK
    <3>5. /\ Changes(t, u, {"dataCmp", "cmpLoading", "flights", "tidy"})
          /\ u.flights = t.flights /\ u.dataCmp = Nothing /\ u.cmpLoading = t.cmpLoading
          /\ u.tidy = (t.tidy /\ Pending(t, {"cmp"}) = {})
      BY <3>1, <3>4 DEF Changes, TabFields
    <3>. QED
      BY <1>1, <3>5, SameFlightsGrown
  <2>2. CASE ~none /\ Cached(t, key)
    <3>. DEFINE v == [t EXCEPT !.dataCmp = answer, !.cmpLoading = FALSE]
    <3>0. u = Overtaken(v, {"cmp"})
      BY <2>2 DEF fetchDataCmp
    <3>. HIDE DEF answer, key, none
    <3>1. Changes(t, v, {"dataCmp", "cmpLoading"}) /\ v.dataCmp = answer /\ v.cmpLoading = FALSE
      BY <1>1 DEF Changes, TabFields
    <3>. HIDE DEF v
    <3>3. v.flights = t.flights /\ DOMAIN v = TabFields /\ Pending(v, {"cmp"}) = Pending(t, {"cmp"})
      BY <3>1 DEF Changes, TabFields, Pending
    <3>4. Changes(v, u, {"tidy"}) /\ u.tidy = (v.tidy /\ Pending(t, {"cmp"}) = {})
      BY <3>0, <3>3, OvertakenOK
    <3>5. /\ Changes(t, u, {"dataCmp", "cmpLoading", "flights", "tidy"})
          /\ u.flights = t.flights /\ u.dataCmp = answer /\ u.cmpLoading = FALSE
          /\ u.tidy = (t.tidy /\ Pending(t, {"cmp"}) = {})
      BY <3>1, <3>4 DEF Changes, TabFields
    <3>. QED
      BY <1>1, <2>2, <3>5, SameFlightsGrown
  <2>3. CASE ~none /\ ~Cached(t, key)
    <3>. DEFINE v == [t EXCEPT !.cmpLoading = TRUE]
    <3>1. Changes(t, v, {"cmpLoading"}) /\ v.cmpLoading = TRUE
      BY <1>1 DEF Changes, TabFields
    <3>2. u = Send(v, "cmp", key)
      BY <2>3 DEF fetchDataCmp
    <3>. HIDE DEF v, answer, key, none
    <3>3. v.flights = t.flights /\ DOMAIN v = TabFields /\ AreFlights(v.flights)
      BY <1>1, <3>1 DEF Changes, TabFields
    <3>4. /\ Changes(v, u, {"flights"}) /\ Grown(v, u, "cmp", key)
          /\ Awaited(u, "cmp") = {key} /\ Asked(v, u, "cmp")
      BY <3>2, <3>3, SendOK DEF Kinds
    <3>5. Grown(t, u, "cmp", key) /\ Asked(t, u, "cmp")
      BY <3>3, <3>4 DEF Grown, Asked, Pending
    <3>6. /\ Changes(t, u, {"dataCmp", "cmpLoading", "flights", "tidy"})
          /\ u.dataCmp = t.dataCmp /\ u.cmpLoading = TRUE /\ u.tidy = t.tidy
      BY <3>1, <3>4 DEF Changes, TabFields
    <3>. QED
      BY <2>3, <3>4, <3>5, <3>6
  <2>. QED
    BY <2>1, <2>2, <2>3
<1>3. answer.key = key /\ answer # Nothing
  <2>. HIDE DEF key
  <2>. QED
    BY ShownIsSomething
<1>4. ~none => CmpMatches(t.sel, key)
  BY DEF CmpMatches
<1>12. CmpFetched(t, u)
  BY <1>2 DEF CmpFetched, Cached
<1>5. CmpStyled(key)
  BY KeysStyled
<1>. HIDE DEF answer, key, none
<1>6. \A x \in {"sel", "data", "mask", "dataLoading", "dataError", "saving", "listLoading",
                "removing"} : u[x] = t[x]
  BY <1>2 DEF Changes, TabFields
<1>7. TabOK(u)
  <2>1. t.tidy \in BOOLEAN /\ t.cmpLoading \in BOOLEAN
    BY DEF TabOK, Flags
  <2>2. u.tidy \in BOOLEAN /\ u.cmpLoading \in BOOLEAN
    BY <1>2, <2>1
  <2>3. \A flag \in Flags : u[flag] = t[flag] \/ u[flag] \in BOOLEAN
    BY <1>6, <2>2 DEF Flags
  <2>. QED
    BY <1>2, <1>6, <2>3, TabStays DEF Changes, Grown
<1>8. StylesOK(t) => StylesOK(u)
  <2>1. AskedStyled(t) => AskedStyled(u)
    BY <1>2, <1>5, GrownKeeps
  <2>. QED
    BY <1>2, <1>3, <1>5, <1>6, <2>1 DEF StylesOK
<1>9. ASSUME u.tidy
      PROVE  CmpOK(u)
  <2>1. CASE ~none /\ Awaited(u, "cmp") = {key} /\ Asked(t, u, "cmp")
    BY <1>4, <1>6, <2>1 DEF CmpOK, Asked
  <2>2. CASE /\ u.flights = t.flights /\ Pending(t, {"cmp"}) = {}
             /\ u.dataCmp = Nothing \/ (~none /\ u.dataCmp = answer)
    <3>1. Awaited(u, "cmp") = {}
      BY <2>2 DEF Awaited, Newest, Pending
    <3>. QED
      BY <1>3, <1>4, <1>6, <2>2, <3>1 DEF CmpOK
  <2>. QED
    BY <1>2, <1>9, <2>1, <2>2
<1>10. u.tidy => t.tidy
  BY <1>2
<1>11. u.cmpLoading => t.cmpLoading \/ Pending(u, {"cmp"}) # {}
  BY <1>2 DEF Asked
<1>. QED
  BY <1>2, <1>7, <1>8, <1>9, <1>10, <1>11, <1>12 DEF key

LEMMA FetchMaskListOK ==
  ASSUME NEW t, TabOK(t), NEW kind \in {"list", "relist"}, NEW u, u = fetchMaskList(t, kind)
  PROVE  /\ TabOK(u) /\ Changes(t, u, {"list", "listLoading", "listError", "flights"})
         /\ Grown(t, u, kind, At(t.sel.plot, t.sel.sensor))
         /\ Pending(u, {kind}) # {} \/ (u.flights = t.flights /\ u.listLoading = t.listLoading)
         /\ StylesOK(t) => StylesOK(u)
<1>. DEFINE key == At(t.sel.plot, t.sel.sensor)
            none == t.sel.plot = None \/ t.sel.sensor = None
<1>1. DOMAIN t = TabFields /\ AreFlights(t.flights)
  BY DEF TabOK
<1>2. /\ Changes(t, u, {"list", "listLoading", "listError", "flights"})
      /\ Grown(t, u, kind, key)
      /\ \/ u.flights = t.flights /\ u.listLoading = t.listLoading
         \/ u.listLoading = TRUE /\ Pending(u, {kind}) # {}
  <2>1. CASE none
    <3>1. u = [t EXCEPT !.list = None]
      BY <2>1 DEF fetchMaskList
    <3>2. /\ Changes(t, u, {"list", "listLoading", "listError", "flights"})
          /\ u.flights = t.flights /\ u.listLoading = t.listLoading
      BY <1>1, <3>1 DEF Changes, TabFields
    <3>. QED
      BY <1>1, <3>2, SameFlightsGrown
  <2>2. CASE ~none
    <3>. DEFINE v == [t EXCEPT !.listLoading = TRUE, !.listError = FALSE]
    <3>1. Changes(t, v, {"listLoading", "listError"}) /\ v.listLoading = TRUE
      BY <1>1 DEF Changes, TabFields
    <3>2. u = Send(v, kind, key)
      BY <2>2 DEF fetchMaskList
    <3>. HIDE DEF v, key, none
    <3>3. v.flights = t.flights /\ DOMAIN v = TabFields /\ AreFlights(v.flights)
      BY <1>1, <3>1 DEF Changes, TabFields
    <3>4. /\ Changes(v, u, {"flights"}) /\ Grown(v, u, kind, key) /\ Pending(u, {kind}) # {}
      <4>1. CASE kind = "list"
        BY <3>2, <3>3, <4>1, SendOK DEF Kinds
      <4>2. CASE kind = "relist"
        BY <3>2, <3>3, <4>2, SendOK DEF Kinds
      <4>. QED
        BY <4>1, <4>2
    <3>5. Grown(t, u, kind, key)
      BY <3>3, <3>4 DEF Grown
    <3>6. /\ Changes(t, u, {"list", "listLoading", "listError", "flights"})
          /\ u.listLoading = TRUE
      BY <3>1, <3>4 DEF Changes, TabFields
    <3>. QED
      BY <3>4, <3>5, <3>6
  <2>. QED
    BY <2>1, <2>2
<1>. HIDE DEF key, none
<1>3. \A x \in {"sel", "data", "mask", "dataCmp", "dataLoading", "dataError", "saving",
                "cmpLoading", "removing", "tidy"} : u[x] = t[x]
  BY <1>2 DEF Changes, TabFields
<1>4. TabOK(u)
  <2>1. \A flag \in Flags : u[flag] = t[flag] \/ u[flag] \in BOOLEAN
    BY <1>2, <1>3 DEF Flags
  <2>. QED
    BY <1>2, <1>3, <2>1, TabStays DEF Changes, Grown
<1>5. StylesOK(t) => StylesOK(u)
  <2>1. AskedStyled(t) => AskedStyled(u)
    BY <1>2, GrownKeeps
  <2>. QED
    BY <1>3, <2>1 DEF StylesOK
<1>. QED
  BY <1>2, <1>4, <1>5 DEF key

-----------------------------------------------------------------------------
(* What stays true                                                         *)

\* A flight that is sent leaves what is shown of other kinds as good as it was.
LEMMA ViewKept ==
  ASSUME NEW t, NEW u, NEW kind, NEW key, Grown(t, u, kind, key), kind # "relist",
         u.sel = t.sel, NEW files
  PROVE  /\ u.cache = t.cache /\ AnswersOK(t, files) => AnswersOK(u, files)
         /\ kind # "data" /\ u.data = t.data /\ u.dataError = t.dataError /\ DataOK(t, files)
              => DataOK(u, files)
         /\ kind # "mask" /\ u.mask = t.mask /\ MaskOK(t, files) => MaskOK(u, files)
         /\ kind # "cmp" /\ u.dataCmp = t.dataCmp /\ CmpOK(t) => CmpOK(u)
<1>1. /\ u.cache = t.cache /\ AnswersOK(t, files) => AnswersOK(u, files)
      /\ \A k : k # kind => Awaited(u, k) = Awaited(t, k)
      /\ \A k : k # kind => Pending(u, {k}) = Pending(t, {k})
      /\ Outdated(u) <=> Outdated(t)
  BY GrownKeeps
<1>2. kind # "data" /\ u.data = t.data /\ u.dataError = t.dataError /\ DataOK(t, files)
        => DataOK(u, files)
  BY <1>1 DEF DataOK, DataShown
<1>3. kind # "mask" /\ u.mask = t.mask /\ MaskOK(t, files) => MaskOK(u, files)
  BY <1>1 DEF MaskOK, MaskShown
<1>4. kind # "cmp" /\ u.dataCmp = t.dataCmp /\ CmpOK(t) => CmpOK(u)
  BY <1>1 DEF CmpOK
<1>. QED
  BY <1>1, <1>2, <1>3, <1>4

\* Two fetches that follow each other everywhere.
LEMMA FetchBothOK ==
  ASSUME NEW t, TabOK(t), NEW u, u = fetchMask(fetchData(t)), NEW files
  PROVE  /\ TabOK(u)
         /\ Changes(t, u, {"data", "dataLoading", "dataError", "mask", "flights", "tidy"})
         /\ u.tidy => t.tidy
         /\ \A kinds : "data" \notin kinds /\ "mask" \notin kinds => Pending(u, kinds) = Pending(t, kinds)
         /\ LoadingOK(t) => LoadingOK(u)
         /\ StylesOK(t) => StylesOK(u)
         /\ u.tidy /\ AnswersOK(t, files) =>
              AnswersOK(u, files) /\ DataOK(u, files) /\ MaskOK(u, files)
         /\ CmpOK(t) => CmpOK(u)
<1>. DEFINE v == fetchData(t)
<1>1. /\ TabOK(v) /\ Changes(t, v, {"data", "dataLoading", "dataError", "flights", "tidy"})
      /\ Grown(t, v, "data", DataKey(t.sel))
      /\ v.tidy => t.tidy
      /\ v.dataLoading => t.dataLoading \/ Pending(v, {"data"}) # {}
      /\ StylesOK(t) => StylesOK(v)
      /\ v.tidy /\ AnswersOK(t, files) => DataOK(v, files)
  BY FetchDataOK
<1>. HIDE DEF v
<1>2. /\ TabOK(u) /\ Changes(v, u, {"mask", "flights", "tidy"})
      /\ Grown(v, u, "mask", At(v.sel.plot, v.sel.sensor))
      /\ u.tidy => v.tidy
      /\ StylesOK(v) => StylesOK(u)
      /\ u.tidy => MaskOK(u, files)
  <2>1. u = fetchMask(v)
    BY DEF v
  <2>. QED
    BY <1>1, <2>1, FetchMaskOK
<1>3. /\ Changes(t, u, {"data", "dataLoading", "dataError", "mask", "flights", "tidy"})
      /\ v.sel = t.sel /\ v.cache = t.cache /\ v.dataCmp = t.dataCmp
      /\ u.sel = v.sel /\ u.cache = v.cache /\ u.dataCmp = v.dataCmp /\ u.data = v.data
      /\ u.dataError = v.dataError /\ u.dataLoading = v.dataLoading
      /\ u.cmpLoading = t.cmpLoading /\ u.listLoading = t.listLoading
  BY <1>1, <1>2 DEF Changes, TabFields
<1>4. \A kinds : "data" \notin kinds /\ "mask" \notin kinds => Pending(u, kinds) = Pending(t, kinds)
  <2>1. ASSUME NEW kinds, "data" \notin kinds, "mask" \notin kinds
        PROVE  Pending(u, kinds) = Pending(t, kinds)
    <3>1. Pending(v, kinds) = Pending(t, kinds)
      BY <1>1, <2>1, GrownKeeps
    <3>2. Pending(u, kinds) = Pending(v, kinds)
      BY <1>2, <2>1, GrownKeeps
    <3>. QED
      BY <3>1, <3>2
  <2>. QED
    BY <2>1
<1>5. LoadingOK(t) => LoadingOK(u)
  <2>1. Pending(u, {"data"}) = Pending(v, {"data"})
    BY <1>2, GrownKeeps
  <2>2. Pending(t, {"data"}) # {} => Pending(v, {"data"}) # {}
    BY <1>1, GrownKeeps
  <2>3. Pending(u, {"cmp"}) = Pending(t, {"cmp"})
        /\ Pending(u, {"list", "relist"}) = Pending(t, {"list", "relist"})
    BY <1>4
  <2>. QED
    BY <1>1, <1>3, <2>1, <2>2, <2>3 DEF LoadingOK
<1>6. u.tidy /\ AnswersOK(t, files) => AnswersOK(u, files) /\ DataOK(u, files) /\ MaskOK(u, files)
  <2>1. AnswersOK(t, files) => AnswersOK(v, files)
    BY <1>1, <1>3, ViewKept
  <2>2. /\ AnswersOK(v, files) => AnswersOK(u, files)
        /\ DataOK(v, files) => DataOK(u, files)
    BY <1>2, <1>3, ViewKept
  <2>. QED
    BY <1>1, <1>2, <2>1, <2>2
<1>7. CmpOK(t) => CmpOK(u)
  <2>1. CmpOK(t) => CmpOK(v)
    BY <1>1, <1>3, ViewKept
  <2>2. CmpOK(v) => CmpOK(u)
    BY <1>2, <1>3, ViewKept
  <2>. QED
    BY <2>1, <2>2
<1>8. u.tidy => t.tidy
  BY <1>1, <1>2
<1>9. StylesOK(t) => StylesOK(u)
  BY <1>1, <1>2
<1>. QED
  BY <1>2, <1>3, <1>4, <1>5, <1>6, <1>7, <1>8, <1>9

\* Fields that the invariant does not mention may change.
Unseen == {"picked", "viewer", "dialog", "list", "listError"}

LEMMA UnseenKeeps ==
  ASSUME NEW t, NEW u, Changes(t, u, Unseen), TabOK(t)
  PROVE  /\ TabOK(u)
         /\ LoadingOK(t) => LoadingOK(u)
         /\ BusyOK(t) => BusyOK(u)
         /\ StylesOK(t) => StylesOK(u)
         /\ \A files : ViewOK(t, files) => ViewOK(u, files)
<1>1. /\ \A flag \in Flags : u[flag] = t[flag]
      /\ u.sel = t.sel /\ u.flights = t.flights /\ u.data = t.data /\ u.dataCmp = t.dataCmp
      /\ u.mask = t.mask /\ u.cache = t.cache /\ u.tidy = t.tidy /\ u.dataError = t.dataError
      /\ u.saving = t.saving /\ u.removing = t.removing /\ u.dataLoading = t.dataLoading
      /\ u.cmpLoading = t.cmpLoading /\ u.listLoading = t.listLoading
      /\ DOMAIN u = TabFields
  BY DEF Changes, TabFields, Unseen, Flags
<1>2. /\ \A kinds : Pending(u, kinds) = Pending(t, kinds)
      /\ Outdated(u) <=> Outdated(t)
  BY <1>1 DEF Pending, Outdated
<1>3. \A k : Awaited(u, k) = Awaited(t, k)
  BY <1>1, <1>2 DEF Awaited, Newest
<1>4. TabOK(u)
  BY <1>1 DEF TabOK
<1>5. LoadingOK(t) => LoadingOK(u)
  BY <1>1, <1>2 DEF LoadingOK
<1>6. BusyOK(t) => BusyOK(u)
  BY <1>1, <1>2 DEF BusyOK, AtMostOne
<1>7. StylesOK(t) => StylesOK(u)
  BY <1>1 DEF StylesOK, AskedStyled
<1>8. ASSUME NEW files, ViewOK(t, files)
      PROVE  ViewOK(u, files)
  <2>1. AnswersOK(t, files) => AnswersOK(u, files)
    BY <1>1, <1>2 DEF AnswersOK, FlightsOK, CacheOK
  <2>2. DataOK(t, files) => DataOK(u, files)
    BY <1>1, <1>2, <1>3 DEF DataOK, DataShown
  <2>3. MaskOK(t, files) => MaskOK(u, files)
    BY <1>1, <1>2, <1>3 DEF MaskOK, MaskShown
  <2>4. CmpOK(t) => CmpOK(u)
    BY <1>1, <1>2, <1>3 DEF CmpOK
  <2>. QED
    BY <1>1, <1>8, <2>1, <2>2, <2>3, <2>4 DEF ViewOK
<1>. QED
  BY <1>4, <1>5, <1>6, <1>7, <1>8

LEMMA RenderChanges ==
  ASSUME NEW t, DOMAIN t = TabFields
  PROVE  Changes(t, Render(t), {"viewer"})
<1>. DEFINE none == [start |-> None, end |-> None]
            u == [t EXCEPT !.viewer = none]
<1>1. Changes(t, u, {"viewer"})
  <2>. HIDE DEF none
  <2>. QED
    BY DEF Changes, TabFields
<1>2. Changes(t, t, {"viewer"})
  BY DEF Changes
<1>. QED
  BY <1>1, <1>2 DEF Render

\* A viewer that goes changes nothing of this.
LEMMA RenderOK ==
  ASSUME NEW t, NEW files, Good(t, files)
  PROVE  Good(Render(t), files)
<1>1. TabOK(t) /\ DOMAIN t = TabFields
  BY DEF Good, TabOK
<1>2. Changes(t, Render(t), Unseen)
  BY <1>1, RenderChanges DEF Changes, Unseen
<1>. QED
  BY <1>1, <1>2, UnseenKeeps DEF Good

-----------------------------------------------------------------------------
(* Choices                                                                 *)

\* A flight of the view that is sent leaves saving and removing as they are.
LEMMA GrownFlags ==
  ASSUME NEW t, NEW u, NEW kind, NEW key, Grown(t, u, kind, key)
  PROVE  /\ kind \notin {"save", "remove", "relist"} /\ u.saving = t.saving /\ u.removing = t.removing
              /\ BusyOK(t) => BusyOK(u)
         /\ /\ u.dataLoading => t.dataLoading \/ Pending(u, {"data"}) # {}
            /\ u.cmpLoading => t.cmpLoading \/ Pending(u, {"cmp"}) # {}
            /\ u.listLoading => t.listLoading \/ Pending(u, {"list", "relist"}) # {}
            /\ LoadingOK(t)
            => LoadingOK(u)
<1>1. /\ \A kinds : kind \notin kinds => Pending(u, kinds) = Pending(t, kinds)
      /\ \A kinds : Pending(t, kinds) # {} => Pending(u, kinds) # {}
  BY GrownKeeps
<1>2. ASSUME kind \notin {"save", "remove", "relist"}, u.saving = t.saving, u.removing = t.removing,
             BusyOK(t)
      PROVE  BusyOK(u)
  <2>1. Pending(u, {"save"}) = Pending(t, {"save"})
        /\ Pending(u, {"remove", "relist"}) = Pending(t, {"remove", "relist"})
    BY <1>1, <1>2
  <2>. QED
    BY <1>2, <2>1 DEF BusyOK, AtMostOne
<1>. QED
  BY <1>1, <1>2 DEF LoadingOK

LEMMA NothingAwaited ==
  ASSUME NEW t, NEW kind, Pending(t, {kind}) = {}
  PROVE  Awaited(t, kind) = {}
BY DEF Awaited, Newest

LEMMA SameKeys ==
  ASSUME NEW a, NEW b, \A x \in {"plot", "agg", "plotCmp", "separate", "cmp", "qc"} : a[x] = b[x]
  PROVE  /\ CmpKey(a) = CmpKey(b)
         /\ a.sensor = b.sensor /\ a.interpolation = b.interpolation => DataKey(a) = DataKey(b)
<1>1. /\ a.plot = b.plot /\ a.agg = b.agg /\ a.plotCmp = b.plotCmp /\ a.separate = b.separate
      /\ a.cmp = b.cmp /\ a.qc = b.qc
  OBVIOUS
<1>. QED
  BY <1>1 DEF CmpKey, DataKey

LEMMA FetchChangedOK ==
  ASSUME NEW t, NEW files, Good(t, files), NEW new, SelOK(new),
         NEW u, u = FetchChanged([t EXCEPT !.sel = new], t.sel)
  PROVE  Good(u, files)
<1>. DEFINE v == [t EXCEPT !.sel = new]
            differs(fields) == \E f \in fields : v.sel[f] # t.sel[f]
            both == {"plot", "agg", "plotCmp", "separate", "cmp", "qc"}
            all == both \cup {"sensor", "interpolation"}
            main == IF differs(all) THEN fetchMask(fetchData(v)) ELSE v
            without == [main EXCEPT !.dataCmp = Nothing]
<1>1. u = IF ~differs(both) THEN main
          ELSE IF main.sel.cmp # None THEN fetchDataCmp(main)
          ELSE Overtaken(without, {"cmp"})
  BY DEF FetchChanged
<1>2. Changes(t, v, {"sel"}) /\ v.sel = new /\ DOMAIN t = TabFields
  BY DEF Good, TabOK, Changes, TabFields
<1>. HIDE DEF v
<1>3. /\ \A x \in TabFields \ {"sel"} : v[x] = t[x]
      /\ v.flights = t.flights /\ v.data = t.data /\ v.dataCmp = t.dataCmp /\ v.mask = t.mask
      /\ v.cache = t.cache /\ v.tidy = t.tidy /\ v.dataError = t.dataError /\ v.saving = t.saving
      /\ v.removing = t.removing
      /\ v.dataLoading = t.dataLoading /\ v.cmpLoading = t.cmpLoading
      /\ v.listLoading = t.listLoading /\ DOMAIN v = TabFields
  BY <1>2 DEF Changes, TabFields
<1>4. /\ \A kinds : Pending(v, kinds) = Pending(t, kinds)
      /\ \A k : Awaited(v, k) = Awaited(t, k)
      /\ Outdated(v) <=> Outdated(t)
  BY <1>3 DEF Pending, Awaited, Newest, Outdated
<1>5. /\ TabOK(v) /\ LoadingOK(v) /\ BusyOK(v) /\ StylesOK(v)
      /\ v.tidy => AnswersOK(v, files)
  <2>1. TabOK(v)
    <3>1. \A flag \in Flags : flag \in TabFields \ {"sel"}
      BY DEF Flags, TabFields
    <3>. QED
      BY <1>2, <1>3, <3>1 DEF Good, TabOK
  <2>2. LoadingOK(v) /\ BusyOK(v)
    BY <1>3, <1>4 DEF Good, LoadingOK, BusyOK, AtMostOne
  <2>3. StylesOK(v)
    BY <1>3 DEF Good, StylesOK, AskedStyled
  <2>4. v.tidy => AnswersOK(v, files)
    BY <1>3, <1>4 DEF Good, ViewOK, AnswersOK, FlightsOK, CacheOK
  <2>. QED
    BY <2>1, <2>2, <2>3, <2>4
\* The first watcher.
<1>6. /\ TabOK(main) /\ LoadingOK(main) /\ BusyOK(main) /\ StylesOK(main)
      /\ main.sel = new /\ DOMAIN main = TabFields
      /\ main.tidy => AnswersOK(main, files) /\ DataOK(main, files) /\ MaskOK(main, files)
      /\ main.tidy /\ ~differs(both) => CmpOK(main)
  <2>1. ~differs(both) /\ v.tidy => CmpOK(v)
    <3>1. ASSUME ~differs(both)
          PROVE  CmpKey(v.sel) = CmpKey(t.sel) /\ v.sel.cmp = t.sel.cmp /\ v.sel.separate = t.sel.separate
      BY <3>1, SameKeys
    <3>. HIDE DEF differs
    <3>. QED
      BY <1>3, <1>4, <3>1 DEF Good, ViewOK, CmpOK, CmpMatches
  <2>2. CASE differs(all)
    <3>1. main = fetchMask(fetchData(v))
      BY <2>2
    <3>. HIDE DEF main, differs
    <3>2. /\ TabOK(main)
          /\ Changes(v, main, {"data", "dataLoading", "dataError", "mask", "flights", "tidy"})
          /\ main.tidy => v.tidy
          /\ \A kinds : "data" \notin kinds /\ "mask" \notin kinds =>
                          Pending(main, kinds) = Pending(v, kinds)
          /\ LoadingOK(v) => LoadingOK(main)
          /\ StylesOK(v) => StylesOK(main)
          /\ main.tidy /\ AnswersOK(v, files) =>
               AnswersOK(main, files) /\ DataOK(main, files) /\ MaskOK(main, files)
          /\ CmpOK(v) => CmpOK(main)
      BY <1>5, <3>1, FetchBothOK
    <3>3. main.sel = new /\ DOMAIN main = TabFields /\ main.saving = v.saving
          /\ main.removing = v.removing
      BY <1>2, <3>2 DEF Changes, TabFields
    <3>4. Pending(main, {"save"}) = Pending(v, {"save"})
          /\ Pending(main, {"remove", "relist"}) = Pending(v, {"remove", "relist"})
      BY <3>2
    <3>5. BusyOK(main)
      BY <1>5, <3>3, <3>4 DEF BusyOK, AtMostOne
    <3>. QED
      BY <1>5, <2>1, <3>2, <3>3, <3>5
  <2>3. CASE ~differs(all)
    <3>1. main = v /\ ~differs(both)
      BY <2>3
    <3>2. \A x \in all : v.sel[x] = t.sel[x]
      BY <2>3
    <3>3. v.sel.plot = t.sel.plot /\ v.sel.sensor = t.sel.sensor /\ DataKey(v.sel) = DataKey(t.sel)
      BY <3>2, SameKeys
    <3>. HIDE DEF main, differs, all, both
    <3>4. v.tidy => DataOK(v, files) /\ MaskOK(v, files)
      BY <1>3, <1>4, <3>3 DEF Good, ViewOK, DataOK, DataShown, MaskOK, MaskShown
    <3>. QED
      BY <1>2, <1>3, <1>5, <2>1, <3>1, <3>4
  <2>. QED
    BY <2>2, <2>3
<1>. HIDE DEF main, differs, both, all
\* The second watcher.
<1>7. CASE ~differs(both)
  <2>1. u = main
    BY <1>1, <1>7
  <2>. QED
    BY <1>6, <1>7, <2>1 DEF Good, ViewOK
<1>8. CASE differs(both) /\ main.sel.cmp # None
  <2>1. u = fetchDataCmp(main)
    BY <1>1, <1>8
  <2>2. /\ TabOK(u) /\ Changes(main, u, {"dataCmp", "cmpLoading", "flights", "tidy"})
        /\ Grown(main, u, "cmp", CmpKey(main.sel))
        /\ u.tidy => main.tidy
        /\ u.cmpLoading => main.cmpLoading \/ Pending(u, {"cmp"}) # {}
        /\ StylesOK(main) => StylesOK(u)
        /\ u.tidy => CmpOK(u)
    BY <1>6, <2>1, FetchDataCmpOK
  <2>3. /\ u.sel = main.sel /\ u.cache = main.cache /\ u.data = main.data
        /\ u.dataError = main.dataError /\ u.mask = main.mask /\ u.saving = main.saving
        /\ u.removing = main.removing
        /\ u.dataLoading = main.dataLoading /\ u.listLoading = main.listLoading
    BY <2>2 DEF Changes, TabFields
  <2>4. LoadingOK(u) /\ BusyOK(u)
    BY <1>6, <2>2, <2>3, GrownFlags
  <2>5. u.tidy => AnswersOK(u, files) /\ DataOK(u, files) /\ MaskOK(u, files)
    BY <1>6, <2>2, <2>3, ViewKept
  <2>. QED
    BY <1>6, <2>2, <2>4, <2>5 DEF Good, ViewOK
<1>9. CASE differs(both) /\ main.sel.cmp = None
  <2>1. u = Overtaken(without, {"cmp"})
    BY <1>1, <1>9
  <2>2. Changes(main, without, {"dataCmp"}) /\ without.dataCmp = Nothing
    BY <1>6 DEF Changes, TabFields
  <2>. HIDE DEF without
  <2>3. DOMAIN without = TabFields /\ without.flights = main.flights
    BY <2>2 DEF Changes, TabFields
  <2>4. Pending(without, {"cmp"}) = Pending(main, {"cmp"})
    BY <2>3 DEF Pending
  <2>5. Changes(without, u, {"tidy"}) /\ u.tidy = (without.tidy /\ Pending(main, {"cmp"}) = {})
    BY <2>1, <2>3, <2>4, OvertakenOK
  <2>6. /\ u.sel = main.sel /\ u.cache = main.cache /\ u.data = main.data /\ u.dataCmp = Nothing
        /\ u.dataError = main.dataError /\ u.mask = main.mask /\ u.saving = main.saving
        /\ u.removing = main.removing
        /\ u.dataLoading = main.dataLoading /\ u.listLoading = main.listLoading
        /\ u.cmpLoading = main.cmpLoading /\ u.dataError = main.dataError
        /\ u.flights = main.flights /\ DOMAIN u = TabFields
        /\ u.tidy = (main.tidy /\ Pending(main, {"cmp"}) = {})
    BY <2>2, <2>5 DEF Changes, TabFields
  <2>7. AreFlights(main.flights) /\ main.tidy \in BOOLEAN
    BY <1>6 DEF TabOK, Flags
  <2>8. Grown(main, u, "cmp", None)
    BY <2>6, <2>7, SameFlightsGrown
  <2>9. TabOK(u)
    <3>1. u.tidy \in BOOLEAN
      BY <2>6, <2>7
    <3>2. \A flag \in Flags : u[flag] = main[flag] \/ u[flag] \in BOOLEAN
      BY <2>6, <3>1 DEF Flags
    <3>. QED
      BY <1>6, <2>6, <2>7, <3>2, TabStays
  <2>10. LoadingOK(u) /\ BusyOK(u)
    BY <1>6, <2>6, <2>8, GrownFlags
  <2>11. StylesOK(u)
    BY <1>6, <2>6 DEF StylesOK, AskedStyled
  <2>12. u.tidy => AnswersOK(u, files) /\ DataOK(u, files) /\ MaskOK(u, files)
    <3>1. u.tidy => main.tidy
      BY <2>6
    <3>2. /\ AnswersOK(main, files) => AnswersOK(u, files)
          /\ DataOK(main, files) => DataOK(u, files)
          /\ MaskOK(main, files) => MaskOK(u, files)
      BY <2>6, <2>8, ViewKept
    <3>. QED
      BY <1>6, <3>1, <3>2
  <2>13. u.tidy => CmpOK(u)
    <3>1. u.tidy => Pending(u, {"cmp"}) = {}
      BY <2>6 DEF Pending
    <3>. QED
      BY <2>6, <3>1, NothingAwaited DEF CmpOK
  <2>. QED
    BY <2>9, <2>10, <2>11, <2>12, <2>13 DEF Good, ViewOK
<1>. QED
  BY <1>7, <1>8, <1>9

LEMMA ChooseOK ==
  ASSUME NEW t, NEW files, Good(t, files), NEW sel, ChoiceOK(t.sel, sel)
  PROVE  Good(Choose(t, sel), files)
<1>. DEFINE settled == Settle(t.sel, sel)
            chosen == FetchChanged([t EXCEPT !.sel = settled], t.sel)
            told == [chosen EXCEPT !.picked = Ordered(t.viewer)]
<1>1. SelOK(settled)
  BY SettleOK DEF Good, TabOK
<1>. HIDE DEF settled
<1>2. Good(chosen, files)
  BY <1>1, FetchChangedOK
<1>. HIDE DEF chosen
<1>3. Good(told, files)
  <2>1. TabOK(chosen) /\ DOMAIN chosen = TabFields
    BY <1>2 DEF Good, TabOK
  <2>2. Changes(chosen, told, Unseen)
    BY <2>1 DEF Changes, TabFields, Unseen
  <2>. QED
    BY <1>2, <2>1, <2>2, UnseenKeeps DEF Good
<1>4. Choose(t, sel) = Render(IF Viewing(t) /\ settled.agg # t.sel.agg THEN told ELSE chosen)
  BY DEF Choose, settled, chosen
<1>. HIDE DEF told
<1>. QED
  BY <1>2, <1>3, <1>4, RenderOK

\* What each field offers is a choice that settles.
LEMMA ChoicesOK ==
  ASSUME NEW old, SelOK(old),
         NEW sel \in ProjectChoices(old) \cup GroupChoices(old) \cup PlotChoices(old)
                     \cup {PreviousPlot(old), NextPlot(old)} \cup SensorChoices(old)
                     \cup AggregationChoices(old) \cup QualityChoices(old) \cup CmpChoices(old)
                     \cup PlotCmpChoices(old) \cup {AdjacentPlotCmp(old, -1), AdjacentPlotCmp(old, 1)}
                     \cup SwitchChoices(old)
  PROVE  ChoiceOK(old, sel)
<1>1. DOMAIN old = SelFields /\ PlaceOK(old) /\ SensorsOK(old)
  BY DEF SelOK
<1>2. /\ old.plot \in ToSet(plotOptions(old)) \cup {None}
      /\ {old.sensor, old.cmp} \subseteq ToSet(sensorOptions(old)) \cup {None}
  BY <1>1 DEF PlaceOK, SensorsOK
<1>3. plotOptions(old) \in Seq(Option)
  BY <1>1, SensorsListed, PlotsListed
\* Only another field than those of the place and the sensors.
<1>4. ASSUME DOMAIN sel = SelFields, sel.project = old.project, sel.group = old.group,
             sel.plot = old.plot, sel.sensor = old.sensor, sel.cmp = old.cmp
      PROVE  ChoiceOK(old, sel)
  BY <1>2, <1>4, ChoiceKeeps
\* Another plot.
<1>5. ASSUME NEW plot \in ToSet(plotOptions(old)) \cup {None}, sel = [old EXCEPT !.plot = plot]
      PROVE  ChoiceOK(old, sel)
  <2>1. /\ DOMAIN sel = SelFields /\ sel.project = old.project /\ sel.group = old.group
        /\ sel.plot = plot /\ sel.sensor = old.sensor /\ sel.cmp = old.cmp
    BY <1>1, <1>5 DEF SelFields
  <2>. QED
    BY <1>2, <1>5, <2>1, ChoiceKeeps
<1>6. CASE sel \in ProjectChoices(old)
  <2>1. PICK p \in ToSet(Projects) : sel = [old EXCEPT !.project = p]
    BY <1>6 DEF ProjectChoices
  <2>2. /\ DOMAIN sel = SelFields /\ sel.project = p /\ sel.group = old.group
        /\ sel.plot = old.plot /\ sel.sensor = old.sensor /\ sel.cmp = old.cmp
    BY <1>1, <2>1 DEF SelFields
  <2>3. p \in DOMAIN GroupsOf
    BY ModelAssumption, ListItems
  <2>4. CASE p = old.project
    BY <1>4, <2>2, <2>4
  <2>5. CASE p # old.project
    <3>1. ASSUME NEW s, DOMAIN s = SelFields, s.plot = old.plot, s.agg = old.agg,
                 s.sensor = sel.sensor, s.cmp = sel.cmp
          PROVE  SensorsOK(s)
      BY <1>1, <2>2, <3>1, SameOffer DEF SensorsOK
    <3>. QED
      BY <2>2, <2>3, <2>5, <3>1 DEF ChoiceOK
  <2>. QED
    BY <2>4, <2>5
<1>7. CASE sel \in GroupChoices(old)
  <2>1. PICK g \in ToSet(groupOptions(old)) : sel = [old EXCEPT !.group = g]
    BY <1>7 DEF GroupChoices
  <2>2. /\ DOMAIN sel = SelFields /\ sel.project = old.project /\ sel.group = g
        /\ sel.plot = old.plot /\ sel.sensor = old.sensor /\ sel.cmp = old.cmp
    BY <1>1, <2>1 DEF SelFields
  <2>3. CASE g = old.group
    BY <1>4, <2>2, <2>3
  <2>4. CASE g # old.group
    <3>1. ASSUME NEW s, DOMAIN s = SelFields, s.plot = old.plot, s.agg = old.agg,
                 s.sensor = sel.sensor, s.cmp = sel.cmp
          PROVE  SensorsOK(s)
      BY <1>1, <2>2, <3>1, SameOffer DEF SensorsOK
    <3>2. groupOptions(sel) = groupOptions(old) /\ sel.project \in DOMAIN GroupsOf \cup {None}
      BY <1>1, <2>2, SameOffer DEF PlaceOK
    <3>. QED
      BY <2>2, <2>4, <3>1, <3>2 DEF ChoiceOK
  <2>. QED
    BY <2>3, <2>4
<1>8. CASE sel \in PlotChoices(old)
  BY <1>5, <1>8 DEF PlotChoices
<1>9. CASE sel \in {PreviousPlot(old), NextPlot(old)}
  <2>. DEFINE options == plotOptions(old)
              before == Adjacent(options, old.plot, -1, Len(options))
              behind == Adjacent(options, old.plot, 1, 1)
  <2>1. before \in ToSet(options) \cup {old.plot} /\ behind \in ToSet(options) \cup {old.plot}
    <3>. HIDE DEF options
    <3>. QED
      BY <1>3, AdjacentOK DEF options
  <2>2. sel = [old EXCEPT !.plot = before] \/ sel = [old EXCEPT !.plot = behind]
    BY <1>9 DEF PreviousPlot, NextPlot
  <2>. HIDE DEF before, behind
  <2>. QED
    BY <1>2, <1>5, <2>1, <2>2
<1>10. CASE sel \in SensorChoices(old)
  <2>1. PICK s \in ToSet(filteredSensorOptions(old)) :
          LET main == [old EXCEPT !.sensor = s]
          IN  sel = [main EXCEPT !.cmp = FirstOr(diagnosticSensorOptions(main), @)]
    BY <1>10 DEF SensorChoices
  <2>. DEFINE main == [old EXCEPT !.sensor = s]
              cmp == FirstOr(diagnosticSensorOptions(main), main.cmp)
  <2>2. sel = [main EXCEPT !.cmp = cmp]
    BY <2>1
  <2>3. SamePlace(old, main) /\ main.sensor = s /\ main.cmp = old.cmp
    BY <1>1 DEF SamePlace, SelFields
  <2>. HIDE DEF main
  <2>4. /\ sensorOptions(main) = sensorOptions(old) /\ PlaceOK(main)
    BY <1>1, <2>3, SamePlaceOffer
  <2>5. cmp \in ToSet(sensorOptions(old)) \cup {None}
    <3>1. diagnosticSensorOptions(main) \in Seq(ToSet(sensorOptions(main)))
          /\ ToSet(diagnosticSensorOptions(main)) \subseteq ToSet(sensorOptions(main))
      BY <2>4, CmpListed
    <3>2. cmp \in ToSet(diagnosticSensorOptions(main)) \cup {main.cmp}
      BY <3>1, FirstOrOK
    <3>. HIDE DEF cmp
    <3>. QED
      BY <1>2, <2>3, <2>4, <3>1, <3>2
  <2>. HIDE DEF cmp
  <2>6. s \in ToSet(sensorOptions(old)) /\ s # None
    BY <1>1, SensorsListed
  <2>7. /\ DOMAIN sel = SelFields /\ sel.project = old.project /\ sel.group = old.group
        /\ sel.plot = old.plot /\ sel.sensor = s /\ sel.cmp = cmp
    BY <2>2, <2>3 DEF SamePlace, SelFields
  <2>. QED
    BY <1>2, <2>5, <2>6, <2>7, ChoiceKeeps
<1>11. CASE sel \in CmpChoices(old)
  <2>1. PICK s \in ToSet(sensorCmpOptions(old)) \cup {None} : sel = [old EXCEPT !.cmp = s]
    BY <1>11 DEF CmpChoices
  <2>2. s \in ToSet(sensorOptions(old)) \cup {None}
    BY <1>1, CmpListed
  <2>3. /\ DOMAIN sel = SelFields /\ sel.project = old.project /\ sel.group = old.group
        /\ sel.plot = old.plot /\ sel.sensor = old.sensor /\ sel.cmp = s
    BY <1>1, <2>1 DEF SelFields
  <2>. QED
    BY <1>2, <2>2, <2>3, ChoiceKeeps
<1>12. CASE sel \in AggregationChoices(old) \cup QualityChoices(old) \cup PlotCmpChoices(old)
                    \cup {AdjacentPlotCmp(old, -1), AdjacentPlotCmp(old, 1)}
                    \cup SwitchChoices(old)
  <2>1. \E value : \/ sel = [old EXCEPT !.agg = value]
                   \/ sel = [old EXCEPT !.qc = value]
                   \/ sel = [old EXCEPT !.plotCmp = value]
                   \/ sel = [old EXCEPT !.separate = value]
                   \/ sel = [old EXCEPT !.interpolation = value]
                   \/ sel = [old EXCEPT !.showMasks = value]
                   \/ sel = [old EXCEPT !.nearest = value]
                   \/ sel = [old EXCEPT !.diagnosticsOnly = value]
    BY <1>12 DEF AggregationChoices, QualityChoices, PlotCmpChoices, AdjacentPlotCmp, SwitchChoices
  <2>2. /\ DOMAIN sel = SelFields /\ sel.project = old.project /\ sel.group = old.group
        /\ sel.plot = old.plot /\ sel.sensor = old.sensor /\ sel.cmp = old.cmp
    BY <1>1, <2>1 DEF SelFields
  <2>. QED
    BY <1>4, <2>2
<1>. QED
  BY <1>6, <1>7, <1>8, <1>9, <1>10, <1>11, <1>12

\* The first selection is that of the first project.
LEMMA FirstOK == SelOK(FirstSelection)
<1>. DEFINE none == NothingSelected
            p == Projects[1]
            sel == [none EXCEPT !.project = p]
<1>1. /\ DOMAIN none = SelFields /\ none.project = None /\ none.group = None /\ none.plot = None
      /\ none.sensor = None /\ none.cmp = None
  BY DEF NothingSelected, SelFields
<1>. HIDE DEF none
<1>2. sensorOptions(none) = <<>>
  BY <1>1 DEF sensorOptions, HasSensors
<1>3. SelOK(none)
  BY <1>1, <1>2 DEF SelOK, PlaceOK, SensorsOK
<1>4. p \in DOMAIN GroupsOf /\ p # None
  BY ModelAssumption, ListItems
<1>. HIDE DEF p
<1>5. /\ DOMAIN sel = SelFields /\ sel.project = p /\ sel.group = None /\ sel.plot = None
      /\ sel.sensor = None /\ sel.cmp = None
  BY <1>1 DEF SelFields
<1>. HIDE DEF sel
<1>6. ASSUME NEW s, DOMAIN s = SelFields, s.plot = none.plot, s.agg = none.agg,
             s.sensor = sel.sensor, s.cmp = sel.cmp
      PROVE  SensorsOK(s)
  <2>1. sensorOptions(s) = sensorOptions(none)
    BY <1>6, SameOffer
  <2>. QED
    BY <1>2, <1>5, <1>6, <2>1 DEF SensorsOK
<1>7. ChoiceOK(none, sel)
  BY <1>1, <1>4, <1>5, <1>6 DEF ChoiceOK
<1>. QED
  BY <1>3, <1>7, SettleOK DEF FirstSelection, none, sel, p

-----------------------------------------------------------------------------
(* Landings                                                                *)

LEMMA SameFlights ==
  ASSUME NEW v, NEW u, u.flights = v.flights
  PROVE  /\ \A kinds : Pending(u, kinds) = Pending(v, kinds)
         /\ \A k : Awaited(u, k) = Awaited(v, k)
         /\ Outdated(u) <=> Outdated(v)
         /\ AskedStyled(u) <=> AskedStyled(v)
         /\ \A files : FlightsOK(u, files) <=> FlightsOK(v, files)
         /\ \A kinds : AtMostOne(u, kinds) <=> AtMostOne(v, kinds)
<1>1. \A kinds : Pending(u, kinds) = Pending(v, kinds)
  BY DEF Pending
<1>2. ASSUME NEW k
      PROVE  Awaited(u, k) = Awaited(v, k)
  <2>1. \A i : Newest(u, i, k) <=> Newest(v, i, k)
    BY <1>1 DEF Newest
  <2>. QED
    BY <2>1 DEF Awaited
<1>. QED
  BY <1>1, <1>2 DEF Outdated, AskedStyled, FlightsOK, AtMostOne

LEMMA AfterChangeOK ==
  ASSUME NEW t, TabOK(t), NEW files, NEW u, u = AfterChange(t, files)
  PROVE  /\ TabOK(u)
         /\ Changes(t, u, {"data", "dataLoading", "dataError", "mask", "flights", "cache", "tidy"})
         /\ u.tidy => t.tidy
         /\ \A kinds : "data" \notin kinds /\ "mask" \notin kinds => Pending(u, kinds) = Pending(t, kinds)
         /\ LoadingOK(t) => LoadingOK(u)
         /\ StylesOK(t) => StylesOK(u)
         /\ u.tidy => AnswersOK(u, files) /\ DataOK(u, files) /\ MaskOK(u, files)
         /\ CmpOK(t) => CmpOK(u)
<1>. DEFINE old == {i \in Pending(t, {"data", "cmp", "mask"}) :
                      t.flights[i].pc = "answered" /\ t.flights[i].answer # AnswerTo(files, t.flights[i])}
            v == [t EXCEPT !.cache = <<>>, !.tidy = @ /\ old = {}]
<1>1. u = fetchMask(fetchData(v))
  BY DEF AfterChange
<1>2. old = {} => FlightsOK(t, files)
  BY DEF FlightsOK
<1>. HIDE DEF old
<1>3. Changes(t, v, {"cache", "tidy"}) /\ v.cache = <<>> /\ v.tidy = (t.tidy /\ old = {})
  BY DEF TabOK, Changes, TabFields
<1>. HIDE DEF v
<1>4. /\ v.flights = t.flights /\ v.sel = t.sel /\ DOMAIN v = TabFields
      /\ v.data = t.data /\ v.dataCmp = t.dataCmp
      /\ v.dataLoading = t.dataLoading /\ v.cmpLoading = t.cmpLoading
      /\ v.listLoading = t.listLoading /\ v.dataError = t.dataError /\ v.saving = t.saving
      /\ v.removing = t.removing
  BY <1>3 DEF Changes, TabFields
<1>5. /\ \A kinds : Pending(v, kinds) = Pending(t, kinds)
      /\ \A k : Awaited(v, k) = Awaited(t, k)
      /\ Outdated(v) <=> Outdated(t)
      /\ AskedStyled(v) <=> AskedStyled(t)
      /\ FlightsOK(v, files) <=> FlightsOK(t, files)
  BY <1>4, SameFlights
<1>6. TabOK(v)
  <2>1. t.tidy \in BOOLEAN /\ AreFlights(t.flights)
    BY DEF TabOK, Flags
  <2>2. v.tidy \in BOOLEAN
    BY <1>3, <2>1
  <2>3. \A flag \in Flags : v[flag] = t[flag] \/ v[flag] \in BOOLEAN
    BY <1>4, <2>2 DEF Flags
  <2>. QED
    BY <1>4, <2>1, <2>3, TabStays
<1>7. v.tidy => AnswersOK(v, files)
  <2>1. CacheOK(v, files)
    BY <1>3, EmptySeq DEF CacheOK
  <2>. QED
    BY <1>2, <1>3, <1>5, <2>1 DEF AnswersOK
<1>8. /\ LoadingOK(t) => LoadingOK(v)
      /\ StylesOK(t) => StylesOK(v)
      /\ CmpOK(t) => CmpOK(v)
  BY <1>4, <1>5 DEF LoadingOK, StylesOK, CmpOK
<1>9. /\ TabOK(u)
      /\ Changes(v, u, {"data", "dataLoading", "dataError", "mask", "flights", "tidy"})
      /\ u.tidy => v.tidy
      /\ \A kinds : "data" \notin kinds /\ "mask" \notin kinds => Pending(u, kinds) = Pending(v, kinds)
      /\ LoadingOK(v) => LoadingOK(u)
      /\ StylesOK(v) => StylesOK(u)
      /\ u.tidy /\ AnswersOK(v, files) =>
           AnswersOK(u, files) /\ DataOK(u, files) /\ MaskOK(u, files)
      /\ CmpOK(v) => CmpOK(u)
  BY <1>1, <1>6, FetchBothOK
<1>10. Changes(t, u, {"data", "dataLoading", "dataError", "mask", "flights", "cache", "tidy"})
  BY <1>3, <1>9 DEF Changes, TabFields
<1>11. u.tidy => t.tidy
  BY <1>3, <1>9
<1>12. \A kinds : "data" \notin kinds /\ "mask" \notin kinds => Pending(u, kinds) = Pending(t, kinds)
  BY <1>5, <1>9
<1>. QED
  BY <1>7, <1>8, <1>9, <1>10, <1>11, <1>12

\* What is true of a tab that a flight has left, before the rest of the handler.
Tame(f) == f.kind # "relist" /\ ~(f.kind \in {"save", "remove"} /\ f.pc = "answered")

AfterLeaving(t, v, f, files) ==
  /\ TabOK(v) /\ StylesOK(v) /\ Changes(t, v, {"flights", "tidy"})
  /\ v.tidy => t.tidy
  /\ f.kind # "data" => (v.dataLoading => Pending(v, {"data"}) # {})
  /\ f.kind # "cmp" => (v.cmpLoading => Pending(v, {"cmp"}) # {})
  /\ f.kind \notin {"list", "relist"} => (v.listLoading => Pending(v, {"list", "relist"}) # {})
  /\ f.kind # "save" => (v.saving <=> Pending(v, {"save"}) # {})
  /\ f.kind \notin {"remove", "relist"} => (v.removing <=> Pending(v, {"remove", "relist"}) # {})
  /\ f.kind = "save" => Pending(v, {"save"}) = {}
  /\ f.kind \in {"remove", "relist"} => Pending(v, {"remove", "relist"}) = {}
  /\ AtMostOne(v, {"save"}) /\ AtMostOne(v, {"remove", "relist"})
  /\ v.tidy =>
       /\ Awaited(v, "data") \subseteq {DataKey(v.sel)}
       /\ Awaited(v, "mask") \subseteq {At(v.sel.plot, v.sel.sensor)}
       /\ \A key \in Awaited(v, "cmp") : CmpMatches(v.sel, key)
       /\ f.kind # "cmp" => CmpOK(v)
       /\ Tame(f) =>
            /\ AnswersOK(v, files)
            /\ f.kind # "data" => DataOK(v, files)
            /\ f.kind # "mask" => MaskOK(v, files)
  /\ v.tidy /\ f.kind = "data" /\ Pending(v, {"data"}) = {} => f.key = DataKey(v.sel)
  /\ v.tidy /\ f.kind = "mask" /\ Pending(v, {"mask"}) = {} => f.key = At(v.sel.plot, v.sel.sensor)
  /\ v.tidy /\ f.kind = "cmp" /\ Pending(v, {"cmp"}) = {} => CmpMatches(v.sel, f.key)
  /\ Tame(f) => (Outdated(v) <=> Outdated(t))

LEMMA LeavingOK ==
  ASSUME NEW t, NEW files, Good(t, files), NEW i \in DOMAIN t.flights, NEW v,
         Changes(t, v, {"flights", "tidy"}), Left(t, v, i), v.tidy \in BOOLEAN,
         v.tidy => t.tidy /\ \A j \in Pending(t, Rivals(t.flights[i].kind)) : j >= i
  PROVE  AfterLeaving(t, v, t.flights[i], files)
<1>. DEFINE f == t.flights[i]
            kind == f.kind
<1>1. TabOK(t) /\ LoadingOK(t) /\ BusyOK(t) /\ StylesOK(t) /\ ViewOK(t, files) /\ AreFlights(t.flights)
  BY DEF Good, TabOK
<1>2. /\ \A kinds : Pending(v, kinds) = {} <=> Pending(t, kinds) \subseteq {i}
      /\ \A kinds : AtMostOne(t, kinds) => AtMostOne(v, kinds)
      /\ \A k : k # kind \/ (\A j \in Pending(t, {k}) : j >= i) => Awaited(v, k) \subseteq Awaited(t, k)
      /\ \A k : kind = k /\ Pending(v, {k}) = {} => f.key \in Awaited(t, k)
      /\ Outdated(v) => Outdated(t)
      /\ Tame(f) => (Outdated(v) <=> Outdated(t))
      /\ FlightsOK(t, files) => FlightsOK(v, files)
      /\ AskedStyled(t) => AskedStyled(v)
  BY <1>1, LeftKeeps DEF Tame
<1>3. \A kinds : kind \notin kinds => (Pending(v, kinds) = {} <=> Pending(t, kinds) = {})
  <2>1. ASSUME NEW kinds, kind \notin kinds
        PROVE  i \notin Pending(t, kinds)
    BY <2>1 DEF Pending
  <2>. QED
    BY <1>2, <2>1
<1>4. /\ v.sel = t.sel /\ v.data = t.data /\ v.dataCmp = t.dataCmp /\ v.mask = t.mask
      /\ v.cache = t.cache /\ v.dataError = t.dataError /\ v.saving = t.saving
      /\ v.removing = t.removing /\ v.dataLoading = t.dataLoading
      /\ v.cmpLoading = t.cmpLoading /\ v.listLoading = t.listLoading /\ DOMAIN v = TabFields
  BY DEF Changes, TabFields
<1>5. \A kinds : AtMostOne(t, kinds) /\ kind \in kinds => Pending(v, kinds) = {}
  <2>1. ASSUME NEW kinds, AtMostOne(t, kinds), kind \in kinds
        PROVE  Pending(t, kinds) \subseteq {i}
    <3>1. i \in Pending(t, kinds)
      BY <2>1 DEF Pending
    <3>. QED
      BY <2>1, <3>1 DEF AtMostOne
  <2>. QED
    BY <1>2, <2>1
<1>6. TabOK(v) /\ StylesOK(v)
  <2>1. \A flag \in Flags : v[flag] = t[flag] \/ v[flag] \in BOOLEAN
    BY <1>4 DEF Flags
  <2>2. TabOK(v)
    BY <1>1, <1>4, <2>1, TabStays DEF Left
  <2>. QED
    BY <1>1, <1>2, <1>4, <2>2 DEF StylesOK
<1>. HIDE DEF f, kind
<1>7. /\ kind # "data" => (v.dataLoading => Pending(v, {"data"}) # {})
      /\ kind # "cmp" => (v.cmpLoading => Pending(v, {"cmp"}) # {})
      /\ kind \notin {"list", "relist"} => (v.listLoading => Pending(v, {"list", "relist"}) # {})
      /\ kind # "save" => (v.saving <=> Pending(v, {"save"}) # {})
      /\ kind \notin {"remove", "relist"} => (v.removing <=> Pending(v, {"remove", "relist"}) # {})
  BY <1>1, <1>3, <1>4 DEF LoadingOK, BusyOK
<1>8. /\ kind = "save" => Pending(v, {"save"}) = {}
      /\ kind \in {"remove", "relist"} => Pending(v, {"remove", "relist"}) = {}
      /\ AtMostOne(v, {"save"}) /\ AtMostOne(v, {"remove", "relist"})
  BY <1>1, <1>2, <1>5 DEF BusyOK
<1>9. ASSUME v.tidy
      PROVE  /\ Awaited(v, "data") \subseteq {DataKey(v.sel)}
             /\ Awaited(v, "mask") \subseteq {At(v.sel.plot, v.sel.sensor)}
             /\ \A key \in Awaited(v, "cmp") : CmpMatches(v.sel, key)
             /\ kind # "cmp" => CmpOK(v)
             /\ Tame(f) =>
                  /\ AnswersOK(v, files)
                  /\ kind # "data" => DataOK(v, files)
                  /\ kind # "mask" => MaskOK(v, files)
             /\ kind = "data" /\ Pending(v, {"data"}) = {} => f.key = DataKey(v.sel)
             /\ kind = "mask" /\ Pending(v, {"mask"}) = {} => f.key = At(v.sel.plot, v.sel.sensor)
             /\ kind = "cmp" /\ Pending(v, {"cmp"}) = {} => CmpMatches(v.sel, f.key)
  <2>1. AnswersOK(t, files) /\ DataOK(t, files) /\ MaskOK(t, files) /\ CmpOK(t)
    BY <1>1, <1>9 DEF ViewOK
  <2>2. \A k \in {"data", "cmp", "mask"} : Awaited(v, k) \subseteq Awaited(t, k)
    BY <1>2, <1>9 DEF Rivals, kind, f
  <2>3. /\ Awaited(v, "data") \subseteq {DataKey(v.sel)}
        /\ Awaited(v, "mask") \subseteq {At(v.sel.plot, v.sel.sensor)}
        /\ \A key \in Awaited(v, "cmp") : CmpMatches(v.sel, key)
    BY <1>4, <2>1, <2>2 DEF DataOK, MaskOK, CmpOK
  <2>4. kind # "cmp" => CmpOK(v)
    BY <1>3, <1>4, <2>1, <2>3 DEF CmpOK
  <2>5. ASSUME Tame(f)
        PROVE  /\ AnswersOK(v, files)
               /\ kind # "data" => DataOK(v, files)
               /\ kind # "mask" => MaskOK(v, files)
    <3>1. AnswersOK(v, files)
      BY <1>2, <1>4, <2>1, <2>5 DEF AnswersOK, CacheOK
    <3>2. kind # "data" => DataOK(v, files)
      BY <1>2, <1>3, <1>4, <2>1, <2>3, <2>5 DEF DataOK, DataShown
    <3>3. kind # "mask" => MaskOK(v, files)
      BY <1>2, <1>3, <1>4, <2>1, <2>3, <2>5 DEF MaskOK, MaskShown
    <3>. QED
      BY <3>1, <3>2, <3>3
  <2>6. /\ kind = "data" /\ Pending(v, {"data"}) = {} => f.key = DataKey(v.sel)
        /\ kind = "mask" /\ Pending(v, {"mask"}) = {} => f.key = At(v.sel.plot, v.sel.sensor)
        /\ kind = "cmp" /\ Pending(v, {"cmp"}) = {} => CmpMatches(v.sel, f.key)
    BY <1>2, <1>4, <2>1 DEF DataOK, MaskOK, CmpOK
  <2>. QED
    BY <2>3, <2>4, <2>5, <2>6
<1>10. v.tidy => t.tidy
  OBVIOUS
<1>. QED
  BY <1>2, <1>6, <1>7, <1>8, <1>9, <1>10 DEF AfterLeaving, kind, f

\* The tab that flight i has left.
LEMMA LandedOK ==
  ASSUME Good(tab, rows), NEW i \in DOMAIN tab.flights
  PROVE  AfterLeaving(tab, Landed(i), tab.flights[i], rows)
<1>. DEFINE t == tab
            kinds == Rivals(t.flights[i].kind)
            first == \A j \in Pending(t, kinds) : j >= i
            new == RemoveAt(t.flights, i)
            v == [t EXCEPT !.flights = new, !.tidy = @ /\ first]
<1>1. v = Landed(i)
  BY DEF Landed
<1>2. DOMAIN t = TabFields /\ AreFlights(t.flights) /\ t.tidy \in BOOLEAN
  BY DEF Good, TabOK, Flags
<1>3. /\ AreFlights(new)
      /\ \A k \in DOMAIN new : Moved(k, i) \in DOMAIN t.flights \ {i} /\ new[k] = t.flights[Moved(k, i)]
      /\ \A j \in DOMAIN t.flights \ {i} : \E k \in DOMAIN new : j = Moved(k, i)
      /\ \A k, l \in DOMAIN new : k <= l <=> Moved(k, i) <= Moved(l, i)
  BY SMTT(30), <1>2, RemoveFlight
<1>. HIDE DEF new, first, t
<1>4. Changes(t, v, {"flights", "tidy"}) /\ v.flights = new /\ v.tidy = (t.tidy /\ first)
  BY <1>2 DEF Changes, TabFields
<1>. HIDE DEF v
<1>5. Left(t, v, i)
  BY <1>3, <1>4 DEF Left
<1>6. v.tidy \in BOOLEAN /\ (v.tidy => t.tidy /\ first)
  BY <1>2, <1>4
<1>. HIDE DEF kinds
<1>7. i \in DOMAIN t.flights /\ Good(t, rows)
  BY DEF t
<1>8. v.tidy => t.tidy /\ \A j \in Pending(t, Rivals(t.flights[i].kind)) : j >= i
  BY <1>6 DEF first, kinds
<1>9. AfterLeaving(t, v, t.flights[i], rows)
  BY <1>4, <1>5, <1>6, <1>7, <1>8, LeavingOK
<1>. QED
  BY <1>1, <1>9 DEF t

\* The rest of a handler that only sets what it shows and its flags.
Rest(v, f, u) ==
  /\ DOMAIN u = TabFields /\ u.sel = v.sel /\ u.flights = v.flights
  /\ \A flag \in Flags : u[flag] = v[flag] \/ u[flag] \in BOOLEAN
  /\ u.dataLoading => v.dataLoading /\ f.kind # "data"
  /\ u.cmpLoading => v.cmpLoading /\ f.kind # "cmp"
  /\ u.listLoading => v.listLoading /\ f.kind \notin {"list", "relist"}
  /\ IF f.kind = "save" THEN ~u.saving ELSE u.saving = v.saving
  /\ IF f.kind \in {"remove", "relist"} THEN ~u.removing ELSE u.removing = v.removing

LEMMA RestOK ==
  ASSUME NEW t, NEW v, NEW f, NEW files, AfterLeaving(t, v, f, files), NEW u, Rest(v, f, u)
  PROVE  TabOK(u) /\ LoadingOK(u) /\ BusyOK(u)
<1>1. /\ \A kinds : Pending(u, kinds) = Pending(v, kinds)
      /\ \A kinds : AtMostOne(u, kinds) <=> AtMostOne(v, kinds)
  BY SameFlights DEF Rest
<1>2. TabOK(u)
  BY TabStays DEF AfterLeaving, TabOK, Rest
<1>3. LoadingOK(u)
  BY <1>1 DEF AfterLeaving, LoadingOK, Rest
<1>4. BusyOK(u)
  <2>1. u.saving <=> Pending(u, {"save"}) # {}
    BY <1>1 DEF AfterLeaving, Rest
  <2>2. u.removing <=> Pending(u, {"remove", "relist"}) # {}
    BY <1>1 DEF AfterLeaving, Rest
  <2>. QED
    BY <1>1, <2>1, <2>2 DEF AfterLeaving, BusyOK
<1>. QED
  BY <1>2, <1>3, <1>4

\* The answer that lands was right when it was given, and nothing has changed since.
LEMMA AnswerIsCurrent ==
  ASSUME NEW t, NEW files, Good(t, files), NEW i \in DOMAIN t.flights, t.flights[i].pc = "answered",
         t.tidy, ~Outdated(t)
  PROVE  /\ t.flights[i].kind \in {"data", "cmp"} =>
              t.flights[i].answer = Current(files, t.flights[i].key)
         /\ t.flights[i].kind = "mask" => t.flights[i].answer = MasksOf(files, t.flights[i].key)
<1>1. FlightsOK(t, files)
  BY DEF Good, ViewOK, AnswersOK
<1>2. t.flights[i].kind \in {"data", "cmp", "mask"} => t.flights[i].answer = AnswerTo(files, t.flights[i])
  BY <1>1 DEF FlightsOK, Pending
<1>. QED
  BY <1>2 DEF AnswerTo, Current

\* What the server said of a series is cached.
LEMMA PutOK ==
  ASSUME NEW v, NEW files, CacheOK(v, files), NEW u, NEW key,
         u.cache = Put(v.cache, key, Current(files, key))
  PROVE  CacheOK(u, files)
BY DEF CacheOK, Put

\* The landing of an answer that is shown.
LEMMA LandData ==
  ASSUME NEW t, NEW files, Good(t, files), NEW i \in DOMAIN t.flights, t.flights[i].pc = "answered",
         t.flights[i].kind = "data",
         NEW v, AfterLeaving(t, v, t.flights[i], files), NEW u,
         Changes(v, u, {"data", "dataLoading", "cache"}), u.dataLoading = FALSE,
         u.data = Shown(t.flights[i].key, t.flights[i].answer),
         u.cache = Put(v.cache, t.flights[i].key, t.flights[i].answer)
  PROVE  Good(u, files)
<1>. DEFINE f == t.flights[i]
            shown == Shown(f.key, f.answer)
            cache == Put(v.cache, f.key, f.answer)
<1>1. u.data = shown /\ u.cache = cache /\ u.dataLoading = FALSE
  OBVIOUS
<1>2. shown # Nothing /\ shown.key = f.key
  BY ShownIsSomething
<1>3. f.kind = "data" /\ AfterLeaving(t, v, f, files)
  OBVIOUS
<1>4. DataStyled(f.key)
  BY DEF Good, StylesOK, AskedStyled
<1>5. v.tidy /\ ~Outdated(v) => f.answer = Current(files, f.key)
  BY <1>3, AnswerIsCurrent DEF AfterLeaving, Tame
<1>. HIDE DEF f
<1>6. CacheOK(v, files) /\ f.answer = Current(files, f.key) => \A w : w.cache = cache => CacheOK(w, files)
  BY PutOK
<1>7. f.answer = Current(files, f.key) => shown = Shown(f.key, Current(files, f.key))
  OBVIOUS
<1>. HIDE DEF shown, cache
<1>8. /\ u.sel = v.sel /\ u.flights = v.flights /\ u.mask = v.mask /\ u.dataCmp = v.dataCmp
      /\ u.cmpLoading = v.cmpLoading /\ u.listLoading = v.listLoading /\ u.saving = v.saving
      /\ u.removing = v.removing /\ u.tidy = v.tidy /\ u.dataError = v.dataError
      /\ DOMAIN u = TabFields
  BY DEF Changes, TabFields
<1>9. \A flag \in Flags : u[flag] = v[flag] \/ u[flag] \in BOOLEAN
  BY <1>1, <1>8 DEF Flags
<1>10. TabOK(u) /\ LoadingOK(u) /\ BusyOK(u)
  <2>1. Rest(v, f, u)
    BY <1>3, <1>1, <1>8, <1>9 DEF Rest
  <2>. QED
    BY <1>3, <2>1, RestOK
<1>11. /\ \A kinds : Pending(u, kinds) = Pending(v, kinds)
       /\ \A k : Awaited(u, k) = Awaited(v, k)
       /\ Outdated(u) <=> Outdated(v)
       /\ AskedStyled(u) <=> AskedStyled(v)
       /\ FlightsOK(u, files) <=> FlightsOK(v, files)
  BY <1>8, SameFlights
<1>12. StylesOK(u)
  BY <1>2, <1>3, <1>4, <1>1, <1>8, <1>11 DEF AfterLeaving, StylesOK
<1>13. ASSUME u.tidy
       PROVE  AnswersOK(u, files) /\ DataOK(u, files) /\ MaskOK(u, files) /\ CmpOK(u)
  <2>1. /\ AnswersOK(v, files) /\ MaskOK(v, files) /\ CmpOK(v)
        /\ Awaited(v, "data") \subseteq {DataKey(v.sel)}
        /\ Pending(v, {"data"}) = {} => f.key = DataKey(v.sel)
    BY <1>3, <1>8, <1>13 DEF AfterLeaving, Tame
  <2>2. AnswersOK(u, files)
    BY <1>5, <1>6, <1>1, <1>8, <1>11, <1>13, <2>1 DEF AnswersOK
  <2>3. DataOK(u, files)
    BY <1>2, <1>5, <1>7, <1>1, <1>8, <1>11, <1>13, <2>1 DEF DataOK, DataShown
  <2>4. MaskOK(u, files) /\ CmpOK(u)
    BY <1>8, <1>11, <2>1 DEF MaskOK, MaskShown, CmpOK
  <2>. QED
    BY <2>2, <2>3, <2>4
<1>. QED
  BY <1>10, <1>12, <1>13 DEF Good, ViewOK

LEMMA LandCmp ==
  ASSUME NEW t, NEW files, Good(t, files), NEW i \in DOMAIN t.flights, t.flights[i].pc = "answered",
         t.flights[i].kind = "cmp",
         NEW v, AfterLeaving(t, v, t.flights[i], files), NEW u,
         Changes(v, u, {"dataCmp", "cmpLoading", "cache"}), u.cmpLoading = FALSE,
         u.dataCmp = Shown(t.flights[i].key, t.flights[i].answer),
         u.cache = Put(v.cache, t.flights[i].key, t.flights[i].answer)
  PROVE  Good(u, files)
<1>. DEFINE f == t.flights[i]
            shown == Shown(f.key, f.answer)
            cache == Put(v.cache, f.key, f.answer)
<1>1. u.dataCmp = shown /\ u.cache = cache /\ u.cmpLoading = FALSE
  OBVIOUS
<1>2. shown # Nothing /\ shown.key = f.key
  BY ShownIsSomething
<1>3. f.kind = "cmp" /\ AfterLeaving(t, v, f, files)
  OBVIOUS
<1>4. CmpStyled(f.key)
  BY DEF Good, StylesOK, AskedStyled
<1>5. v.tidy /\ ~Outdated(v) => f.answer = Current(files, f.key)
  BY <1>3, AnswerIsCurrent DEF AfterLeaving, Tame
<1>. HIDE DEF f
<1>6. CacheOK(v, files) /\ f.answer = Current(files, f.key) => \A w : w.cache = cache => CacheOK(w, files)
  BY PutOK
<1>. HIDE DEF shown, cache
<1>7. /\ u.sel = v.sel /\ u.flights = v.flights /\ u.mask = v.mask /\ u.data = v.data
      /\ u.dataLoading = v.dataLoading /\ u.listLoading = v.listLoading /\ u.saving = v.saving
      /\ u.removing = v.removing /\ u.tidy = v.tidy /\ u.dataError = v.dataError
      /\ DOMAIN u = TabFields
  BY DEF Changes, TabFields
<1>8. \A flag \in Flags : u[flag] = v[flag] \/ u[flag] \in BOOLEAN
  BY <1>1, <1>7 DEF Flags
<1>9. TabOK(u) /\ LoadingOK(u) /\ BusyOK(u)
  <2>1. Rest(v, f, u)
    BY <1>3, <1>1, <1>7, <1>8 DEF Rest
  <2>. QED
    BY <1>3, <2>1, RestOK
<1>10. /\ \A kinds : Pending(u, kinds) = Pending(v, kinds)
       /\ \A k : Awaited(u, k) = Awaited(v, k)
       /\ Outdated(u) <=> Outdated(v)
       /\ AskedStyled(u) <=> AskedStyled(v)
       /\ FlightsOK(u, files) <=> FlightsOK(v, files)
  BY <1>7, SameFlights
<1>11. StylesOK(u)
  BY <1>2, <1>3, <1>4, <1>1, <1>7, <1>10 DEF AfterLeaving, StylesOK
<1>12. ASSUME u.tidy
       PROVE  AnswersOK(u, files) /\ DataOK(u, files) /\ MaskOK(u, files) /\ CmpOK(u)
  <2>1. /\ AnswersOK(v, files) /\ MaskOK(v, files) /\ DataOK(v, files)
        /\ \A key \in Awaited(v, "cmp") : CmpMatches(v.sel, key)
        /\ Pending(v, {"cmp"}) = {} => CmpMatches(v.sel, f.key)
    BY <1>3, <1>7, <1>12 DEF AfterLeaving, Tame
  <2>2. AnswersOK(u, files)
    BY <1>5, <1>6, <1>1, <1>7, <1>10, <1>12, <2>1 DEF AnswersOK
  <2>3. CmpOK(u)
    BY <1>2, <1>1, <1>7, <1>10, <2>1 DEF CmpOK
  <2>4. MaskOK(u, files) /\ DataOK(u, files)
    BY <1>7, <1>10, <2>1 DEF MaskOK, MaskShown, DataOK, DataShown
  <2>. QED
    BY <2>2, <2>3, <2>4
<1>. QED
  BY <1>9, <1>11, <1>12 DEF Good, ViewOK

LEMMA LandMask ==
  ASSUME NEW t, NEW files, Good(t, files), NEW i \in DOMAIN t.flights, t.flights[i].pc = "answered",
         t.flights[i].kind = "mask",
         NEW v, AfterLeaving(t, v, t.flights[i], files), NEW u,
         Changes(v, u, {"mask"}), u.mask = Shown(t.flights[i].key, t.flights[i].answer)
  PROVE  Good(u, files)
<1>. DEFINE f == t.flights[i]
            shown == Shown(f.key, f.answer)
<1>1. f.kind = "mask" /\ AfterLeaving(t, v, f, files)
  OBVIOUS
<1>2. v.tidy /\ ~Outdated(v) => f.answer = MasksOf(files, f.key)
  BY <1>1, AnswerIsCurrent DEF AfterLeaving, Tame
<1>3. u.mask = shown
  OBVIOUS
<1>. HIDE DEF f
<1>4. f.answer = MasksOf(files, f.key) => shown = Shown(f.key, MasksOf(files, f.key))
  OBVIOUS
<1>. HIDE DEF shown
<1>5. /\ u.sel = v.sel /\ u.flights = v.flights /\ u.dataCmp = v.dataCmp /\ u.data = v.data
      /\ u.dataLoading = v.dataLoading /\ u.listLoading = v.listLoading /\ u.saving = v.saving
      /\ u.cmpLoading = v.cmpLoading
      /\ u.removing = v.removing /\ u.tidy = v.tidy /\ u.dataError = v.dataError
      /\ u.cache = v.cache /\ DOMAIN u = TabFields
  BY DEF Changes, TabFields
<1>6. \A flag \in Flags : u[flag] = v[flag] \/ u[flag] \in BOOLEAN
  BY <1>3, <1>5 DEF Flags
<1>7. TabOK(u) /\ LoadingOK(u) /\ BusyOK(u)
  <2>1. Rest(v, f, u)
    BY <1>1, <1>5, <1>6 DEF Rest
  <2>. QED
    BY <1>1, <2>1, RestOK
<1>8. /\ \A kinds : Pending(u, kinds) = Pending(v, kinds)
      /\ \A k : Awaited(u, k) = Awaited(v, k)
      /\ Outdated(u) <=> Outdated(v)
      /\ AskedStyled(u) <=> AskedStyled(v)
      /\ FlightsOK(u, files) <=> FlightsOK(v, files)
  BY <1>5, SameFlights
<1>9. StylesOK(u)
  BY <1>1, <1>5, <1>8 DEF AfterLeaving, StylesOK
<1>10. ASSUME u.tidy
       PROVE  AnswersOK(u, files) /\ DataOK(u, files) /\ MaskOK(u, files) /\ CmpOK(u)
  <2>1. /\ AnswersOK(v, files) /\ CmpOK(v) /\ DataOK(v, files)
        /\ Awaited(v, "mask") \subseteq {At(v.sel.plot, v.sel.sensor)}
        /\ Pending(v, {"mask"}) = {} => f.key = At(v.sel.plot, v.sel.sensor)
    BY <1>1, <1>5, <1>10 DEF AfterLeaving, Tame
  <2>2. AnswersOK(u, files)
    BY <1>5, <1>8, <2>1 DEF AnswersOK, CacheOK
  <2>3. MaskOK(u, files)
    BY <1>2, <1>4, <1>3, <1>5, <1>8, <1>10, <2>1 DEF MaskOK, MaskShown
  <2>4. CmpOK(u) /\ DataOK(u, files)
    BY <1>5, <1>8, <2>1 DEF CmpOK, DataOK, DataShown
  <2>. QED
    BY <2>2, <2>3, <2>4
<1>. QED
  BY <1>7, <1>9, <1>10 DEF Good, ViewOK

\* The rest of a handler that does not show its answer.
LEMMA RestGood ==
  ASSUME NEW t, NEW v, NEW f, NEW files, AfterLeaving(t, v, f, files), NEW u, Rest(v, f, u),
         u.cache = v.cache, u.mask = v.mask,
         \/ u.data = v.data /\ u.dataError = v.dataError /\ f.kind # "data"
         \/ u.data = Nothing /\ u.dataError = TRUE,
         (u.dataCmp = v.dataCmp /\ f.kind # "cmp") \/ u.dataCmp = Nothing,
         u.tidy => v.tidy /\ Tame(f) /\ (f.kind = "mask" => v.mask = Nothing)
  PROVE  Good(u, files)
<1>1. TabOK(u) /\ LoadingOK(u) /\ BusyOK(u)
  BY RestOK
<1>2. /\ u.flights = v.flights /\ u.sel = v.sel
      /\ \A kinds : Pending(u, kinds) = Pending(v, kinds)
      /\ \A k : Awaited(u, k) = Awaited(v, k)
      /\ Outdated(u) <=> Outdated(v)
      /\ AskedStyled(u) <=> AskedStyled(v)
      /\ FlightsOK(u, files) <=> FlightsOK(v, files)
  BY SameFlights DEF Rest
<1>3. StylesOK(u)
  BY <1>2 DEF AfterLeaving, StylesOK
<1>4. ASSUME u.tidy
      PROVE  AnswersOK(u, files) /\ DataOK(u, files) /\ MaskOK(u, files) /\ CmpOK(u)
  <2>1. /\ AnswersOK(v, files)
        /\ f.kind # "data" => DataOK(v, files)
        /\ f.kind # "mask" => MaskOK(v, files)
        /\ f.kind # "cmp" => CmpOK(v)
        /\ Awaited(v, "data") \subseteq {DataKey(v.sel)}
        /\ Awaited(v, "mask") \subseteq {At(v.sel.plot, v.sel.sensor)}
        /\ \A key \in Awaited(v, "cmp") : CmpMatches(v.sel, key)
    BY <1>4 DEF AfterLeaving
  <2>2. AnswersOK(u, files)
    BY <1>2, <2>1 DEF AnswersOK, CacheOK
  <2>3. DataOK(u, files)
    BY <1>2, <2>1 DEF DataOK, DataShown
  <2>4. MaskOK(u, files)
    BY <1>2, <1>4, <2>1 DEF MaskOK, MaskShown
  <2>5. CmpOK(u)
    BY <1>2, <2>1 DEF CmpOK
  <2>. QED
    BY <2>2, <2>3, <2>4, <2>5
<1>. QED
  BY <1>1, <1>3, <1>4 DEF Good, ViewOK

\* The rest of a handler after a change of the masks: w is the tab before everything is
\* fetched anew, x after that.
LEMMA ChangeGood ==
  ASSUME NEW t, NEW v, NEW f, NEW files, AfterLeaving(t, v, f, files),
         f.kind \in {"save", "remove", "relist"},
         NEW w, Changes(v, w, {"picked", "viewer", "list", "listError", "listLoading", "saving"}),
         w.listLoading = FALSE \/ (w.listLoading = v.listLoading /\ f.kind # "relist"),
         IF f.kind = "save" THEN w.saving = FALSE ELSE w.saving = v.saving,
         NEW x, x = AfterChange(w, files),
         NEW u, Changes(x, u, {"removing"}),
         IF f.kind = "save" THEN u.removing = x.removing ELSE u.removing = FALSE
  PROVE  Good(u, files)
<1>1. /\ DOMAIN w = TabFields
      /\ w.sel = v.sel /\ w.flights = v.flights /\ w.data = v.data /\ w.dataCmp = v.dataCmp
      /\ w.removing = v.removing /\ w.dataLoading = v.dataLoading /\ w.cmpLoading = v.cmpLoading
      /\ w.tidy = v.tidy /\ w.dataError = v.dataError
  BY DEF Changes, TabFields
<1>2. /\ \A kinds : Pending(w, kinds) = Pending(v, kinds)
      /\ \A k : Awaited(w, k) = Awaited(v, k)
      /\ AskedStyled(w) <=> AskedStyled(v)
  BY <1>1, SameFlights
<1>3. TabOK(w)
  <2>1. TabOK(v) /\ AreFlights(v.flights)
    BY DEF AfterLeaving, TabOK
  <2>2. \A flag \in Flags : w[flag] = v[flag] \/ w[flag] \in BOOLEAN
    BY <1>1 DEF Flags
  <2>. QED
    BY <1>1, <2>1, <2>2, TabStays
<1>4. LoadingOK(w)
  BY <1>1, <1>2 DEF AfterLeaving, LoadingOK
<1>5. StylesOK(w)
  BY <1>1, <1>2 DEF AfterLeaving, StylesOK
<1>6. w.tidy => CmpOK(w)
  BY <1>1, <1>2 DEF AfterLeaving, CmpOK
<1>7. /\ TabOK(x)
      /\ Changes(w, x, {"data", "dataLoading", "dataError", "mask", "flights", "cache", "tidy"})
      /\ x.tidy => w.tidy
      /\ \A kinds : "data" \notin kinds /\ "mask" \notin kinds => Pending(x, kinds) = Pending(w, kinds)
      /\ LoadingOK(x)
      /\ StylesOK(x)
      /\ x.tidy => AnswersOK(x, files) /\ DataOK(x, files) /\ MaskOK(x, files)
      /\ CmpOK(w) => CmpOK(x)
  BY <1>3, <1>4, <1>5, AfterChangeOK
<1>8. /\ x.saving = w.saving /\ x.removing = w.removing /\ u.saving = x.saving
      /\ u.sel = x.sel /\ u.flights = x.flights /\ u.data = x.data /\ u.dataCmp = x.dataCmp
      /\ u.mask = x.mask /\ u.cache = x.cache /\ u.dataLoading = x.dataLoading
      /\ u.cmpLoading = x.cmpLoading /\ u.listLoading = x.listLoading
      /\ u.tidy = x.tidy /\ u.dataError = x.dataError /\ DOMAIN u = TabFields
  BY <1>7 DEF Changes, TabFields
<1>9. /\ \A kinds : Pending(u, kinds) = Pending(x, kinds)
      /\ \A k : Awaited(u, k) = Awaited(x, k)
      /\ Outdated(u) <=> Outdated(x)
      /\ AskedStyled(u) <=> AskedStyled(x)
      /\ FlightsOK(u, files) <=> FlightsOK(x, files)
  BY <1>8, SameFlights
<1>10. TabOK(u)
  <2>1. \A flag \in Flags : u[flag] = x[flag] \/ u[flag] \in BOOLEAN
    BY <1>8 DEF Flags
  <2>2. AreFlights(x.flights)
    BY <1>7 DEF TabOK
  <2>. QED
    BY <1>7, <1>8, <2>1, <2>2, TabStays
<1>11. LoadingOK(u)
  BY <1>7, <1>8, <1>9 DEF LoadingOK
<1>12. StylesOK(u)
  BY <1>7, <1>8, <1>9 DEF StylesOK
<1>13. BusyOK(u)
  <2>1. Pending(u, {"save"}) = Pending(v, {"save"})
        /\ Pending(u, {"remove", "relist"}) = Pending(v, {"remove", "relist"})
    BY <1>2, <1>7, <1>9
  <2>2. u.saving <=> Pending(u, {"save"}) # {}
    BY <1>8, <2>1 DEF AfterLeaving
  <2>3. u.removing <=> Pending(u, {"remove", "relist"}) # {}
    BY <1>1, <1>8, <2>1 DEF AfterLeaving
  <2>4. AtMostOne(u, {"save"}) /\ AtMostOne(u, {"remove", "relist"})
    BY <2>1 DEF AfterLeaving, AtMostOne
  <2>. QED
    BY <2>2, <2>3, <2>4 DEF BusyOK
<1>14. ASSUME u.tidy
       PROVE  AnswersOK(u, files) /\ DataOK(u, files) /\ MaskOK(u, files) /\ CmpOK(u)
  <2>1. AnswersOK(x, files) /\ DataOK(x, files) /\ MaskOK(x, files) /\ CmpOK(x)
    BY <1>6, <1>7, <1>8, <1>14
  <2>2. AnswersOK(u, files)
    BY <1>8, <1>9, <2>1 DEF AnswersOK, CacheOK
  <2>3. DataOK(u, files)
    BY <1>8, <1>9, <2>1 DEF DataOK, DataShown
  <2>4. MaskOK(u, files) /\ CmpOK(u)
    BY <1>8, <1>9, <2>1 DEF MaskOK, MaskShown, CmpOK
  <2>. QED
    BY <2>2, <2>3, <2>4
<1>. QED
  BY <1>10, <1>11, <1>12, <1>13, <1>14 DEF Good, ViewOK

\* The row is removed and the list is fetched again: until it is there, the view is outdated.
LEMMA RelistGood ==
  ASSUME NEW t, NEW files, Good(t, files), NEW i \in DOMAIN t.flights,
         t.flights[i].kind = "remove",
         NEW v, AfterLeaving(t, v, t.flights[i], files),
         NEW u, u = fetchMaskList(v, "relist"), Pending(u, {"relist"}) # {}
  PROVE  Good(u, files)
<1>. DEFINE f == t.flights[i]
<1>1. f.kind = "remove" /\ AfterLeaving(t, v, f, files)
  OBVIOUS
<1>2. t.removing
  <2>1. i \in Pending(t, {"remove", "relist"})
    BY DEF Pending
  <2>. QED
    BY <2>1 DEF Good, BusyOK
<1>. HIDE DEF f
<1>3. TabOK(v) /\ StylesOK(v) /\ v.removing = t.removing
  BY <1>1 DEF AfterLeaving, Changes, TabFields
<1>4. LoadingOK(v)
  BY <1>1 DEF AfterLeaving, LoadingOK
<1>5. /\ TabOK(u) /\ Changes(v, u, {"list", "listLoading", "listError", "flights"})
      /\ Grown(v, u, "relist", At(v.sel.plot, v.sel.sensor))
      /\ StylesOK(u)
  BY <1>3, FetchMaskListOK
<1>6. /\ u.sel = v.sel /\ u.data = v.data /\ u.dataCmp = v.dataCmp /\ u.mask = v.mask
      /\ u.dataLoading = v.dataLoading /\ u.cmpLoading = v.cmpLoading /\ u.saving = v.saving
      /\ u.removing = v.removing /\ u.tidy = v.tidy
  BY <1>5 DEF Changes, TabFields
<1>7. /\ \A kinds : "relist" \notin kinds => Pending(u, kinds) = Pending(v, kinds)
      /\ \A k : k # "relist" => Awaited(u, k) = Awaited(v, k)
      /\ \A kinds : Pending(v, kinds) = {} => AtMostOne(u, kinds)
  BY <1>5, GrownKeeps
<1>8. Outdated(u) /\ Pending(u, {"remove", "relist"}) # {} /\ Pending(u, {"list", "relist"}) # {}
  BY DEF Outdated, Pending
<1>9. LoadingOK(u)
  BY <1>4, <1>6, <1>7, <1>8 DEF LoadingOK
<1>10. BusyOK(u)
  <2>1. Pending(u, {"save"}) = Pending(v, {"save"})
    BY <1>7
  <2>2. u.saving <=> Pending(u, {"save"}) # {}
    BY <1>1, <1>6, <2>1 DEF AfterLeaving
  <2>3. AtMostOne(u, {"remove", "relist"})
    BY <1>1, <1>7 DEF AfterLeaving
  <2>4. AtMostOne(u, {"save"})
    BY <1>1, <2>1 DEF AfterLeaving, AtMostOne
  <2>. QED
    BY <1>2, <1>3, <1>6, <1>8, <2>2, <2>3, <2>4 DEF BusyOK
<1>11. ASSUME u.tidy
       PROVE  AnswersOK(u, files) /\ DataOK(u, files) /\ MaskOK(u, files) /\ CmpOK(u)
  <2>1. /\ Awaited(v, "data") \subseteq {DataKey(v.sel)}
        /\ Awaited(v, "mask") \subseteq {At(v.sel.plot, v.sel.sensor)}
        /\ CmpOK(v)
    BY <1>1, <1>6, <1>11 DEF AfterLeaving
  <2>2. Awaited(u, "data") = Awaited(v, "data") /\ Awaited(u, "mask") = Awaited(v, "mask")
        /\ Awaited(u, "cmp") = Awaited(v, "cmp") /\ Pending(u, {"cmp"}) = Pending(v, {"cmp"})
    BY <1>7
  <2>3. CmpOK(u)
    BY <1>6, <2>1, <2>2 DEF CmpOK
  <2>. QED
    BY <1>6, <1>8, <2>1, <2>2, <2>3 DEF AnswersOK, DataOK, MaskOK
<1>. QED
  BY <1>5, <1>9, <1>10, <1>11 DEF Good, ViewOK

-----------------------------------------------------------------------------
(* The network                                                             *)

LEMMA LandOK ==
  ASSUME Good(tab, rows), NEW i \in DOMAIN tab.flights, tab.flights[i].pc = "answered"
  PROVE  Good(Continue(Landed(i), tab.flights[i]), rows)
<1>. DEFINE f == tab.flights[i]
            v == Landed(i)
            u == Continue(v, f)
<1>1. AfterLeaving(tab, v, f, rows)
  BY LandedOK
<1>2. f.kind \in Kinds
  BY FlightDomain DEF Good, TabOK, AreFlights, IsFlight
<1>. HIDE DEF v
<1>3. DOMAIN v = TabFields
  BY <1>1 DEF AfterLeaving, TabOK
<1>4. CASE f.kind = "data"
  <2>. DEFINE shown == Shown(f.key, f.answer)
              cache == Put(v.cache, f.key, f.answer)
  <2>1. u = [v EXCEPT !.data = shown, !.dataLoading = FALSE, !.cache = cache]
    BY <1>4 DEF Continue
  <2>. HIDE DEF u, shown, cache
  <2>2. /\ Changes(v, u, {"data", "dataLoading", "cache"}) /\ u.dataLoading = FALSE
        /\ u.data = shown /\ u.cache = cache
    BY <1>3, <2>1 DEF Changes, TabFields
  <2>3. Good(u, rows)
    BY <1>1, <1>4, <2>2, LandData DEF shown, cache
  <2>. QED
    BY <2>3 DEF u, v
<1>5. CASE f.kind = "cmp"
  <2>. DEFINE shown == Shown(f.key, f.answer)
              cache == Put(v.cache, f.key, f.answer)
  <2>1. u = [v EXCEPT !.dataCmp = shown, !.cmpLoading = FALSE, !.cache = cache]
    BY <1>5 DEF Continue
  <2>. HIDE DEF u, shown, cache
  <2>2. /\ Changes(v, u, {"dataCmp", "cmpLoading", "cache"}) /\ u.cmpLoading = FALSE
        /\ u.dataCmp = shown /\ u.cache = cache
    BY <1>3, <2>1 DEF Changes, TabFields
  <2>3. Good(u, rows)
    BY <1>1, <1>5, <2>2, LandCmp DEF shown, cache
  <2>. QED
    BY <2>3 DEF u, v
<1>6. CASE f.kind = "mask"
  <2>. DEFINE shown == Shown(f.key, f.answer)
  <2>1. u = [v EXCEPT !.mask = shown]
    BY <1>6 DEF Continue
  <2>. HIDE DEF u, shown
  <2>2. Changes(v, u, {"mask"}) /\ u.mask = shown
    BY <1>3, <2>1 DEF Changes, TabFields
  <2>3. Good(u, rows)
    BY <1>1, <1>6, <2>2, LandMask DEF shown
  <2>. QED
    BY <2>3 DEF u, v
<1>7. CASE f.kind = "save"
  <2>. DEFINE reset == resetSelection(v)
              w == [reset EXCEPT !.saving = FALSE]
  <2>1. u = AfterChange(w, rows)
    BY <1>7 DEF Continue
  <2>2. Changes(v, reset, {"viewer", "picked"})
    BY <1>3 DEF resetSelection, Pick, Changes, TabFields
  <2>. HIDE DEF u, reset
  <2>3. Changes(v, w, {"viewer", "picked", "saving"}) /\ w.saving = FALSE
    BY <2>2 DEF Changes, TabFields
  <2>. HIDE DEF w
  <2>4. /\ Changes(v, w, {"picked", "viewer", "list", "listError", "listLoading", "saving"})
        /\ w.listLoading = v.listLoading
    BY <2>3 DEF Changes, TabFields
  <2>5. DOMAIN u = TabFields
    <3>1. TabOK(w)
      <4>1. TabOK(v) /\ AreFlights(v.flights)
        BY <1>1 DEF AfterLeaving, TabOK
      <4>2. \A flag \in Flags : w[flag] = v[flag] \/ w[flag] \in BOOLEAN
        BY <2>3 DEF Changes, TabFields, Flags
      <4>. QED
        BY <2>3, <4>1, <4>2, TabStays DEF Changes, TabFields
    <3>. QED
      BY <2>1, <3>1, AfterChangeOK DEF TabOK
  <2>6. Changes(u, u, {"removing"})
    BY <2>5 DEF Changes
  <2>. HIDE DEF f
  <2>7. Good(u, rows)
    BY <1>1, <1>7, <2>1, <2>3, <2>4, <2>6, ChangeGood
  <2>. QED
    BY <2>7 DEF u, v, f
<1>8. CASE f.kind = "list"
  <2>1. u = [v EXCEPT !.list = f.answer, !.listLoading = FALSE]
    BY <1>8 DEF Continue
  <2>. HIDE DEF u, f
  <2>2. Changes(v, u, {"list", "listLoading"}) /\ u.listLoading = FALSE
    BY <1>3, <2>1 DEF Changes, TabFields
  <2>3. \A flag \in Flags : u[flag] = v[flag] \/ u[flag] \in BOOLEAN
    BY <2>2 DEF Changes, TabFields, Flags
  <2>4. /\ u.sel = v.sel /\ u.flights = v.flights /\ u.cache = v.cache /\ u.mask = v.mask
        /\ u.data = v.data /\ u.dataError = v.dataError /\ u.dataCmp = v.dataCmp
        /\ u.tidy = v.tidy /\ DOMAIN u = TabFields /\ u.saving = v.saving
        /\ u.removing = v.removing /\ u.dataLoading = v.dataLoading /\ u.cmpLoading = v.cmpLoading
    BY <2>2 DEF Changes, TabFields
  <2>5. Rest(v, f, u) /\ Tame(f)
    BY <1>8, <2>2, <2>3, <2>4 DEF Rest, Tame
  <2>6. Good(u, rows)
    BY <1>1, <1>8, <2>4, <2>5, RestGood
  <2>. QED
    BY <2>6 DEF u, v, f
<1>9. CASE f.kind = "remove"
  <2>. DEFINE again == fetchMaskList(v, "relist")
              x == AfterChange(again, rows)
  <2>1. u = IF Pending(again, {"relist"}) = {} THEN [x EXCEPT !.removing = FALSE] ELSE again
    BY <1>9 DEF Continue, Removed
  <2>2. TabOK(v)
    BY <1>1 DEF AfterLeaving
  <2>. HIDE DEF u
  <2>3. CASE Pending(again, {"relist"}) # {}
    <3>1. u = fetchMaskList(v, "relist") /\ Pending(u, {"relist"}) # {}
      BY <2>1, <2>3
    <3>2. Good(u, rows)
      BY <1>1, <1>9, <3>1, RelistGood
    <3>. QED
      BY <3>2 DEF u, v
  <2>4. CASE Pending(again, {"relist"}) = {}
    <3>1. /\ TabOK(again)
          /\ Changes(v, again, {"list", "listLoading", "listError", "flights"})
          /\ again.flights = v.flights /\ again.listLoading = v.listLoading
      BY <2>2, <2>4, FetchMaskListOK
    <3>. HIDE DEF again
    <3>2. Changes(v, again, {"picked", "viewer", "list", "listError", "listLoading", "saving"})
          /\ again.saving = v.saving
      BY <3>1 DEF Changes, TabFields
    <3>3. DOMAIN x = TabFields
      BY <3>1, AfterChangeOK DEF TabOK
    <3>4. u = [x EXCEPT !.removing = FALSE]
      BY <2>1, <2>4
    <3>5. x = AfterChange(again, rows)
      OBVIOUS
    <3>. HIDE DEF x, f
    <3>6. Changes(x, u, {"removing"}) /\ u.removing = FALSE
      BY <3>3, <3>4 DEF Changes, TabFields
    <3>7. Good(u, rows)
      BY <1>1, <1>9, <3>1, <3>2, <3>5, <3>6, ChangeGood
    <3>. QED
      BY <3>7 DEF u, v, f
  <2>. QED
    BY <2>3, <2>4
<1>10. CASE f.kind = "relist"
  <2>. DEFINE w == [v EXCEPT !.list = f.answer, !.listLoading = FALSE]
              x == AfterChange(w, rows)
  <2>1. u = [x EXCEPT !.removing = FALSE]
    BY <1>10 DEF Continue, Removed
  <2>. HIDE DEF u, f
  <2>2. Changes(v, w, {"list", "listLoading"}) /\ w.listLoading = FALSE
    BY <1>3 DEF Changes, TabFields
  <2>. HIDE DEF w
  <2>3. Changes(v, w, {"picked", "viewer", "list", "listError", "listLoading", "saving"})
        /\ w.saving = v.saving
    BY <2>2 DEF Changes, TabFields
  <2>4. DOMAIN x = TabFields
    <3>1. TabOK(w)
      <4>1. TabOK(v) /\ AreFlights(v.flights)
        BY <1>1 DEF AfterLeaving, TabOK
      <4>2. \A flag \in Flags : w[flag] = v[flag] \/ w[flag] \in BOOLEAN
        BY <2>2 DEF Changes, TabFields, Flags
      <4>. QED
        BY <2>2, <4>1, <4>2, TabStays DEF Changes, TabFields
    <3>. QED
      BY <3>1, AfterChangeOK DEF TabOK
  <2>5. x = AfterChange(w, rows)
    OBVIOUS
  <2>. HIDE DEF x
  <2>6. Changes(x, u, {"removing"}) /\ u.removing = FALSE
    BY <2>1, <2>4 DEF Changes, TabFields
  <2>7. Good(u, rows)
    BY <1>1, <1>10, <2>2, <2>3, <2>5, <2>6, ChangeGood
  <2>. QED
    BY <2>7 DEF u, v, f
<1>. QED
  BY <1>2, <1>4, <1>5, <1>6, <1>7, <1>8, <1>9, <1>10 DEF Kinds

LEMMA FailOK ==
  ASSUME Good(tab, rows), NEW i \in DOMAIN tab.flights
  PROVE  Good(GiveUp(Landed(i), tab.flights[i]), rows)
<1>. DEFINE f == tab.flights[i]
            v == Landed(i)
            u == GiveUp(v, f)
<1>1. AfterLeaving(tab, v, f, rows)
  BY LandedOK
<1>2. f.kind \in Kinds /\ f.pc \in {"sent", "answered"}
  BY FlightDomain DEF Good, TabOK, AreFlights, IsFlight
<1>. HIDE DEF v
<1>3. DOMAIN v = TabFields /\ v.tidy \in BOOLEAN
  BY <1>1 DEF AfterLeaving, TabOK, Flags
\* All but the second listing only set what is shown and their flags.
<1>4. ASSUME f.kind # "relist"
      PROVE  /\ Changes(v, u, {"data", "dataError", "dataLoading", "dataCmp", "cmpLoading", "saving",
                               "removing", "listError", "listLoading", "tidy"})
             /\ Rest(v, f, u)
             /\ \/ u.data = v.data /\ u.dataError = v.dataError /\ f.kind # "data"
                \/ u.data = Nothing /\ u.dataError = TRUE
             /\ (u.dataCmp = v.dataCmp /\ f.kind # "cmp") \/ u.dataCmp = Nothing
             /\ u.tidy => v.tidy /\ Tame(f) /\ (f.kind = "mask" => v.mask = Nothing)
  <2>1. CASE f.kind = "data"
    <3>1. u = [v EXCEPT !.data = Nothing, !.dataError = TRUE, !.dataLoading = FALSE]
      BY <2>1 DEF GiveUp
    <3>. HIDE DEF u, f
    <3>2. /\ Changes(v, u, {"data", "dataError", "dataLoading"})
          /\ u.data = Nothing /\ u.dataError = TRUE /\ u.dataLoading = FALSE
      BY <1>3, <3>1 DEF Changes, TabFields
    <3>3. \A flag \in Flags : u[flag] = v[flag] \/ u[flag] \in BOOLEAN
      BY <3>2 DEF Changes, TabFields, Flags
    <3>. QED
      BY <2>1, <3>2, <3>3 DEF Changes, TabFields, Rest, Tame
  <2>2. CASE f.kind = "cmp"
    <3>1. u = [v EXCEPT !.dataCmp = Nothing, !.cmpLoading = FALSE]
      BY <2>2 DEF GiveUp
    <3>. HIDE DEF u, f
    <3>2. /\ Changes(v, u, {"dataCmp", "cmpLoading"})
          /\ u.dataCmp = Nothing /\ u.cmpLoading = FALSE
      BY <1>3, <3>1 DEF Changes, TabFields
    <3>3. \A flag \in Flags : u[flag] = v[flag] \/ u[flag] \in BOOLEAN
      BY <3>2 DEF Changes, TabFields, Flags
    <3>. QED
      BY <2>2, <3>2, <3>3 DEF Changes, TabFields, Rest, Tame
  <2>3. CASE f.kind = "mask"
    <3>1. u = [v EXCEPT !.tidy = @ /\ v.mask = Nothing]
      BY <2>3 DEF GiveUp
    <3>. HIDE DEF u, f
    <3>2. Changes(v, u, {"tidy"}) /\ u.tidy = (v.tidy /\ v.mask = Nothing)
      BY <1>3, <3>1 DEF Changes, TabFields
    <3>3. u.tidy \in BOOLEAN /\ (u.tidy => v.tidy /\ v.mask = Nothing)
      BY <1>3, <3>2
    <3>4. \A flag \in Flags : u[flag] = v[flag] \/ u[flag] \in BOOLEAN
      BY <3>2, <3>3 DEF Changes, TabFields, Flags
    <3>. QED
      BY <2>3, <3>2, <3>3, <3>4 DEF Changes, TabFields, Rest, Tame
  <2>4. CASE f.kind = "save"
    <3>1. u = [v EXCEPT !.saving = FALSE, !.tidy = @ /\ f.pc = "sent"]
      BY <2>4 DEF GiveUp
    <3>. HIDE DEF u, f
    <3>2. Changes(v, u, {"saving", "tidy"}) /\ u.saving = FALSE /\ u.tidy = (v.tidy /\ f.pc = "sent")
      BY <1>3, <3>1 DEF Changes, TabFields
    <3>3. u.tidy \in BOOLEAN /\ (u.tidy => v.tidy /\ f.pc = "sent")
      BY <1>3, <3>2
    <3>4. \A flag \in Flags : u[flag] = v[flag] \/ u[flag] \in BOOLEAN
      BY <3>2, <3>3 DEF Changes, TabFields, Flags
    <3>. QED
      BY <2>4, <3>2, <3>3, <3>4 DEF Changes, TabFields, Rest, Tame
  <2>5. CASE f.kind = "list"
    <3>1. u = [v EXCEPT !.listError = TRUE, !.listLoading = FALSE]
      BY <2>5 DEF GiveUp
    <3>. HIDE DEF u, f
    <3>2. Changes(v, u, {"listError", "listLoading"}) /\ u.listLoading = FALSE
      BY <1>3, <3>1 DEF Changes, TabFields
    <3>3. \A flag \in Flags : u[flag] = v[flag] \/ u[flag] \in BOOLEAN
      BY <3>2 DEF Changes, TabFields, Flags
    <3>. QED
      BY <2>5, <3>2, <3>3 DEF Changes, TabFields, Rest, Tame
  <2>6. CASE f.kind = "remove"
    <3>1. u = [v EXCEPT !.removing = FALSE, !.tidy = @ /\ f.pc = "sent"]
      BY <2>6 DEF GiveUp
    <3>. HIDE DEF u, f
    <3>2. Changes(v, u, {"removing", "tidy"}) /\ u.removing = FALSE
          /\ u.tidy = (v.tidy /\ f.pc = "sent")
      BY <1>3, <3>1 DEF Changes, TabFields
    <3>3. u.tidy \in BOOLEAN /\ (u.tidy => v.tidy /\ f.pc = "sent")
      BY <1>3, <3>2
    <3>4. \A flag \in Flags : u[flag] = v[flag] \/ u[flag] \in BOOLEAN
      BY <3>2, <3>3 DEF Changes, TabFields, Flags
    <3>. QED
      BY <2>6, <3>2, <3>3, <3>4 DEF Changes, TabFields, Rest, Tame
  <2>. QED
    BY <1>2, <1>4, <2>1, <2>2, <2>3, <2>4, <2>5, <2>6 DEF Kinds
<1>5. CASE f.kind # "relist"
  <2>. HIDE DEF u, f
  <2>1. u.cache = v.cache /\ u.mask = v.mask
    BY <1>4, <1>5 DEF Changes, TabFields
  <2>2. Good(u, rows)
    BY <1>1, <1>4, <1>5, <2>1, RestGood
  <2>. QED
    BY <2>2 DEF u, v, f
<1>6. CASE f.kind = "relist"
  <2>. DEFINE w == [v EXCEPT !.listError = TRUE, !.listLoading = FALSE]
              x == AfterChange(w, rows)
  <2>1. u = [x EXCEPT !.removing = FALSE]
    BY <1>6 DEF GiveUp, Removed
  <2>. HIDE DEF u, f
  <2>2. Changes(v, w, {"listError", "listLoading"}) /\ w.listLoading = FALSE
    BY <1>3 DEF Changes, TabFields
  <2>. HIDE DEF w
  <2>3. Changes(v, w, {"picked", "viewer", "list", "listError", "listLoading", "saving"})
        /\ w.saving = v.saving
    BY <2>2 DEF Changes, TabFields
  <2>4. DOMAIN x = TabFields
    <3>1. TabOK(w)
      <4>1. TabOK(v) /\ AreFlights(v.flights)
        BY <1>1 DEF AfterLeaving, TabOK
      <4>2. \A flag \in Flags : w[flag] = v[flag] \/ w[flag] \in BOOLEAN
        BY <2>2 DEF Changes, TabFields, Flags
      <4>. QED
        BY <2>2, <4>1, <4>2, TabStays DEF Changes, TabFields
    <3>. QED
      BY <3>1, AfterChangeOK DEF TabOK
  <2>5. x = AfterChange(w, rows)
    OBVIOUS
  <2>. HIDE DEF x
  <2>6. Changes(x, u, {"removing"}) /\ u.removing = FALSE
    BY <2>1, <2>4 DEF Changes, TabFields
  <2>7. Good(u, rows)
    BY <1>1, <1>6, <2>2, <2>3, <2>5, <2>6, ChangeGood
  <2>. QED
    BY <2>7 DEF u, v, f
<1>. QED
  BY <1>5, <1>6

LEMMA ServeOK ==
  ASSUME NEW t, NEW files, Good(t, files), NEW i \in DOMAIN t.flights,
         NEW new, AnsweredWith(t.flights, new, i, AnswerTo(files, t.flights[i])),
         NEW u, u = [t EXCEPT !.flights = new]
  PROVE  Good(u, Change(files, t.flights[i]))
<1>. DEFINE f == t.flights[i]
            answer == AnswerTo(files, f)
<1>1. DOMAIN t = TabFields /\ AreFlights(t.flights) /\ TabOK(t)
  BY DEF Good, TabOK
<1>2. Changes(t, u, {"flights"}) /\ u.flights = new
  BY <1>1 DEF Changes, TabFields
<1>3. /\ AreFlights(new)
      /\ DOMAIN new = DOMAIN t.flights
      /\ \A k \in DOMAIN t.flights \ {i} : new[k] = t.flights[k]
      /\ SameRequest(new[i], f) /\ new[i].pc = "answered" /\ new[i].answer = answer
  BY DEF AnsweredWith
<1>4. Answered(t, u, i)
  BY <1>2, <1>3 DEF Answered
<1>5. /\ \A kinds : Pending(u, kinds) = Pending(t, kinds)
      /\ \A k : Awaited(u, k) = Awaited(t, k)
      /\ ~Outdated(u) => ~Outdated(t) /\ f.kind \notin {"save", "remove"}
      /\ AskedStyled(t) => AskedStyled(u)
  BY <1>4, AnsweredKeeps
<1>6. /\ u.sel = t.sel /\ u.data = t.data /\ u.dataCmp = t.dataCmp /\ u.mask = t.mask
      /\ u.dataLoading = t.dataLoading /\ u.cmpLoading = t.cmpLoading
      /\ u.listLoading = t.listLoading /\ u.saving = t.saving /\ u.removing = t.removing
      /\ u.tidy = t.tidy /\ u.dataError = t.dataError /\ u.cache = t.cache /\ DOMAIN u = TabFields
  BY <1>2 DEF Changes, TabFields
<1>7. TabOK(u)
  <2>1. \A flag \in Flags : u[flag] = t[flag] \/ u[flag] \in BOOLEAN
    BY <1>6 DEF Flags
  <2>. QED
    BY <1>1, <1>2, <1>3, <1>6, <2>1, TabStays
<1>8. f.kind \notin {"save", "remove"} => Change(files, f) = files
  <2>. HIDE DEF f
  <2>. QED
    BY DEF Change
<1>9. AnswerTo(files, new[i]) = AnswerTo(files, f)
  <2>1. new[i].kind = f.kind /\ new[i].key = f.key
    BY <1>3 DEF SameRequest
  <2>. HIDE DEF f
  <2>. QED
    BY <2>1 DEF AnswerTo
<1>. HIDE DEF f
<1>10. LoadingOK(u) /\ BusyOK(u) /\ StylesOK(u)
  BY <1>5, <1>6 DEF Good, LoadingOK, BusyOK, StylesOK, AtMostOne
<1>11. ASSUME t.tidy, ~Outdated(u)
       PROVE  FlightsOK(u, files) /\ CacheOK(u, files)
  <2>1. FlightsOK(t, files) /\ CacheOK(t, files)
    BY <1>5, <1>11 DEF Good, ViewOK, AnswersOK
  <2>2. ASSUME NEW k \in Pending(u, {"data", "cmp", "mask"}), u.flights[k].pc = "answered"
        PROVE  u.flights[k].answer = AnswerTo(files, u.flights[k])
    <3>1. CASE k = i
      BY <1>2, <1>3, <1>9, <3>1
    <3>2. CASE k # i
      <4>1. k \in DOMAIN t.flights /\ k \in Pending(t, {"data", "cmp", "mask"})
        BY <1>2, <1>3, <1>5 DEF Pending
      <4>2. u.flights[k] = t.flights[k]
        BY <1>2, <1>3, <3>2, <4>1
      <4>. QED
        BY <2>1, <2>2, <4>1, <4>2 DEF FlightsOK
    <3>. QED
      BY <3>1, <3>2
  <2>. QED
    BY <1>6, <2>1, <2>2 DEF FlightsOK, CacheOK
<1>12. ViewOK(u, Change(files, f))
  <2>. SUFFICES ASSUME t.tidy
                PROVE  /\ AnswersOK(u, Change(files, f)) /\ DataOK(u, Change(files, f))
                       /\ MaskOK(u, Change(files, f)) /\ CmpOK(u)
    BY <1>6 DEF ViewOK
  <2>1. DataOK(t, files) /\ MaskOK(t, files) /\ CmpOK(t)
    BY DEF Good, ViewOK
  <2>2. AnswersOK(u, Change(files, f))
    BY <1>5, <1>8, <1>11 DEF AnswersOK
  <2>3. DataOK(u, Change(files, f))
    BY <1>5, <1>6, <1>8, <2>1 DEF DataOK, DataShown
  <2>4. MaskOK(u, Change(files, f))
    BY <1>5, <1>6, <1>8, <2>1 DEF MaskOK, MaskShown
  <2>5. CmpOK(u)
    BY <1>5, <1>6, <2>1 DEF CmpOK
  <2>. QED
    BY <2>2, <2>3, <2>4, <2>5
<1>. QED
  BY <1>7, <1>10, <1>12 DEF Good, f

-----------------------------------------------------------------------------
(* The user                                                                *)

LEMMA UnseenGood ==
  ASSUME NEW t, NEW files, Good(t, files), NEW u, Changes(t, u, Unseen)
  PROVE  Good(u, files)
<1>1. TabOK(t)
  BY DEF Good
<1>. QED
  BY <1>1, UnseenKeeps DEF Good

LEMMA SendChangeOK ==
  ASSUME NEW t, NEW files, Good(t, files), NEW kind, NEW key, NEW u,
         Changes(t, u, {"saving", "removing", "flights"}), Grown(t, u, kind, key),
         Pending(u, {kind}) # {},
         \/ kind = "save" /\ ~t.saving /\ u.saving = TRUE /\ u.removing = t.removing
         \/ kind = "remove" /\ ~t.removing /\ u.removing = TRUE /\ u.saving = t.saving
  PROVE  Good(u, files)
<1>1. TabOK(t) /\ LoadingOK(t) /\ BusyOK(t) /\ StylesOK(t) /\ ViewOK(t, files)
  BY DEF Good
<1>2. /\ u.sel = t.sel /\ u.data = t.data /\ u.dataCmp = t.dataCmp /\ u.mask = t.mask
      /\ u.dataLoading = t.dataLoading /\ u.cmpLoading = t.cmpLoading
      /\ u.listLoading = t.listLoading /\ u.dataError = t.dataError
      /\ u.tidy = t.tidy /\ u.cache = t.cache /\ DOMAIN u = TabFields
  BY DEF Changes, TabFields
<1>3. TabOK(u)
  <2>1. \A flag \in Flags : u[flag] = t[flag] \/ u[flag] \in BOOLEAN
    BY <1>2 DEF Flags
  <2>. QED
    BY <1>1, <1>2, <2>1, TabStays DEF Grown
<1>4. LoadingOK(u)
  BY <1>1, <1>2, GrownFlags
<1>5. /\ \A kinds : kind \notin kinds => Pending(u, kinds) = Pending(t, kinds)
      /\ \A kinds : Pending(t, kinds) = {} => AtMostOne(u, kinds)
      /\ kind \notin {"data", "cmp"} => (AskedStyled(t) => AskedStyled(u))
  BY GrownKeeps
<1>6. BusyOK(u)
  <2>1. CASE kind = "save" /\ ~t.saving /\ u.saving = TRUE /\ u.removing = t.removing
    <3>1. Pending(u, {"remove", "relist"}) = Pending(t, {"remove", "relist"})
      BY <1>5, <2>1
    <3>2. AtMostOne(u, {"save"})
      BY <1>1, <1>5, <2>1 DEF BusyOK
    <3>. QED
      BY <1>1, <2>1, <3>1, <3>2 DEF BusyOK, AtMostOne
  <2>2. CASE kind = "remove" /\ ~t.removing /\ u.removing = TRUE /\ u.saving = t.saving
    <3>1. Pending(u, {"save"}) = Pending(t, {"save"})
      BY <1>5, <2>2
    <3>2. AtMostOne(u, {"remove", "relist"})
      BY <1>1, <1>5, <2>2 DEF BusyOK
    <3>3. Pending(u, {"remove", "relist"}) # {}
      BY <2>2 DEF Pending
    <3>. QED
      BY <1>1, <2>2, <3>1, <3>2, <3>3 DEF BusyOK, AtMostOne
  <2>. QED
    BY <2>1, <2>2
<1>7. StylesOK(u)
  BY <1>1, <1>2, <1>5 DEF StylesOK
<1>8. kind # "data" /\ kind # "mask" /\ kind # "cmp" /\ kind # "relist"
  OBVIOUS
<1>9. ViewOK(u, files)
  BY <1>1, <1>2, <1>8, ViewKept DEF ViewOK
<1>. QED
  BY <1>3, <1>4, <1>6, <1>7, <1>9 DEF Good

LEMMA ListGood ==
  ASSUME NEW t, NEW files, Good(t, files), NEW u, u = fetchMaskList(t, "list")
  PROVE  Good(u, files)
<1>1. TabOK(t) /\ LoadingOK(t) /\ BusyOK(t) /\ StylesOK(t) /\ ViewOK(t, files)
  BY DEF Good
<1>2. /\ TabOK(u) /\ Changes(t, u, {"list", "listLoading", "listError", "flights"})
      /\ Grown(t, u, "list", At(t.sel.plot, t.sel.sensor))
      /\ Pending(u, {"list"}) # {} \/ (u.flights = t.flights /\ u.listLoading = t.listLoading)
      /\ StylesOK(t) => StylesOK(u)
  BY <1>1, FetchMaskListOK
<1>3. /\ u.sel = t.sel /\ u.data = t.data /\ u.dataCmp = t.dataCmp /\ u.mask = t.mask
      /\ u.dataLoading = t.dataLoading /\ u.cmpLoading = t.cmpLoading
      /\ u.saving = t.saving /\ u.removing = t.removing /\ u.dataError = t.dataError
      /\ u.tidy = t.tidy /\ u.cache = t.cache
  BY <1>2 DEF Changes, TabFields
<1>4. u.listLoading => t.listLoading \/ Pending(u, {"list", "relist"}) # {}
  BY <1>2 DEF Pending
<1>5. LoadingOK(u) /\ BusyOK(u)
  BY <1>1, <1>2, <1>3, <1>4, GrownFlags
<1>6. ViewOK(u, files)
  BY <1>1, <1>2, <1>3, ViewKept DEF ViewOK
<1>. QED
  BY <1>1, <1>2, <1>5, <1>6 DEF Good

LEMMA RetryGood ==
  ASSUME NEW t, NEW files, Good(t, files), NEW u, u = fetchData(t)
  PROVE  Good(u, files)
<1>1. TabOK(t) /\ LoadingOK(t) /\ BusyOK(t) /\ StylesOK(t) /\ ViewOK(t, files)
  BY DEF Good
<1>2. /\ TabOK(u) /\ Changes(t, u, {"data", "dataLoading", "dataError", "flights", "tidy"})
      /\ Grown(t, u, "data", DataKey(t.sel))
      /\ u.tidy => t.tidy
      /\ u.dataLoading => t.dataLoading \/ Pending(u, {"data"}) # {}
      /\ StylesOK(t) => StylesOK(u)
      /\ u.tidy /\ AnswersOK(t, files) => DataOK(u, files)
  BY <1>1, FetchDataOK
<1>3. /\ u.sel = t.sel /\ u.dataCmp = t.dataCmp /\ u.mask = t.mask
      /\ u.cmpLoading = t.cmpLoading /\ u.listLoading = t.listLoading
      /\ u.saving = t.saving /\ u.removing = t.removing /\ u.cache = t.cache
  BY <1>2 DEF Changes, TabFields
<1>4. LoadingOK(u) /\ BusyOK(u)
  BY <1>1, <1>2, <1>3, GrownFlags
<1>5. ViewOK(u, files)
  BY <1>1, <1>2, <1>3, ViewKept DEF ViewOK
<1>. QED
  BY <1>1, <1>2, <1>4, <1>5 DEF Good

-----------------------------------------------------------------------------
(* The shell is mounted                                                    *)

LEMMA FreshOK ==
  ASSUME NEW sel, SelOK(sel), NEW t, t = Tab(sel), NEW files
  PROVE  /\ TabOK(t) /\ LoadingOK(t) /\ BusyOK(t) /\ StylesOK(t) /\ AnswersOK(t, files)
         /\ t.sel = sel
         /\ sel.plot = None \/ sel.sensor = None => Good(t, files)
<1>1. /\ DOMAIN t = TabFields /\ t.sel = sel /\ t.flights = <<>> /\ t.cache = <<>>
      /\ t.data = Nothing /\ t.dataCmp = Nothing /\ t.mask = Nothing
      /\ t.dataLoading = FALSE /\ t.dataError = FALSE /\ t.cmpLoading = FALSE /\ t.saving = FALSE
      /\ t.listLoading = FALSE /\ t.removing = FALSE /\ t.tidy = TRUE
  BY DEF Tab, TabFields
<1>2. DOMAIN t.flights = {} /\ DOMAIN t.cache = {} /\ Len(t.flights) = 0
  BY <1>1, EmptySeq
<1>3. \A kinds : Pending(t, kinds) = {}
  BY <1>2 DEF Pending
<1>4. \A k : Awaited(t, k) = {}
  BY <1>3, NothingAwaited
<1>5. AreFlights(t.flights)
  <2>1. t.flights \in Seq({t.flights[i] : i \in 1..Len(t.flights)}) /\ Len(t.flights) \in Nat
    BY <1>1, <1>2, EmptySeq
  <2>2. 1..Len(t.flights) = {}
    BY <1>2
  <2>. QED
    BY <2>1, <2>2 DEF AreFlights
<1>6. TabOK(t)
  <2>1. \A flag \in Flags : t[flag] \in BOOLEAN
    BY <1>1 DEF Flags
  <2>. QED
    BY <1>1, <1>5, <2>1 DEF TabOK
<1>7. LoadingOK(t) /\ BusyOK(t)
  BY <1>1, <1>3 DEF LoadingOK, BusyOK, AtMostOne
<1>8. StylesOK(t)
  BY <1>1, <1>2 DEF StylesOK, AskedStyled
<1>9. AnswersOK(t, files)
  BY <1>2, <1>3 DEF AnswersOK, FlightsOK, CacheOK
<1>10. ASSUME sel.plot = None \/ sel.sensor = None
       PROVE  DataOK(t, files) /\ MaskOK(t, files) /\ CmpOK(t)
  BY <1>1, <1>4, <1>10 DEF DataOK, DataShown, MaskOK, MaskShown, CmpOK
<1>. QED
  BY <1>1, <1>6, <1>7, <1>8, <1>9, <1>10 DEF Good, ViewOK

LEMMA LoadedOK ==
  ASSUME NEW t, NEW files, TabOK(t), LoadingOK(t), BusyOK(t), StylesOK(t), AnswersOK(t, files),
         NEW u, u = fetchDataCmp(fetchMask(fetchData(t)))
  PROVE  Good(u, files)
<1>. DEFINE v == fetchMask(fetchData(t))
<1>1. /\ TabOK(v)
      /\ Changes(t, v, {"data", "dataLoading", "dataError", "mask", "flights", "tidy"})
      /\ v.tidy => t.tidy
      /\ \A kinds : "data" \notin kinds /\ "mask" \notin kinds => Pending(v, kinds) = Pending(t, kinds)
      /\ LoadingOK(v)
      /\ StylesOK(v)
      /\ v.tidy => AnswersOK(v, files) /\ DataOK(v, files) /\ MaskOK(v, files)
  BY FetchBothOK
<1>2. u = fetchDataCmp(v)
  OBVIOUS
<1>. HIDE DEF v
<1>3. BusyOK(v)
  <2>1. /\ Pending(v, {"save"}) = Pending(t, {"save"})
        /\ Pending(v, {"remove", "relist"}) = Pending(t, {"remove", "relist"})
    BY <1>1
  <2>2. v.saving = t.saving /\ v.removing = t.removing
    BY <1>1 DEF Changes, TabFields
  <2>. QED
    BY <2>1, <2>2 DEF BusyOK, AtMostOne
<1>4. /\ TabOK(u) /\ Changes(v, u, {"dataCmp", "cmpLoading", "flights", "tidy"})
      /\ Grown(v, u, "cmp", CmpKey(v.sel))
      /\ u.tidy => v.tidy
      /\ u.cmpLoading => v.cmpLoading \/ Pending(u, {"cmp"}) # {}
      /\ StylesOK(v) => StylesOK(u)
      /\ u.tidy => CmpOK(u)
  BY <1>1, <1>2, FetchDataCmpOK
<1>5. /\ u.sel = v.sel /\ u.cache = v.cache /\ u.data = v.data
      /\ u.dataError = v.dataError /\ u.mask = v.mask /\ u.saving = v.saving
      /\ u.removing = v.removing
      /\ u.dataLoading = v.dataLoading /\ u.listLoading = v.listLoading
  BY <1>4 DEF Changes, TabFields
<1>6. LoadingOK(u) /\ BusyOK(u)
  BY <1>1, <1>3, <1>4, <1>5, GrownFlags
<1>7. u.tidy => AnswersOK(u, files) /\ DataOK(u, files) /\ MaskOK(u, files)
  BY <1>1, <1>4, <1>5, ViewKept
<1>. QED
  BY <1>1, <1>4, <1>6, <1>7 DEF Good, ViewOK

-----------------------------------------------------------------------------
(* The steps keep the invariant                                            *)

LEMMA ChooseGood ==
  ASSUME Good(tab, rows), NEW choices, ChooseOneOf(choices),
         \A sel \in choices : ChoiceOK(tab.sel, sel)
  PROVE  Good(tab', rows')
<1>1. PICK sel \in choices : tab' = Choose(tab, sel)
  BY DEF ChooseOneOf
<1>2. rows' = rows
  BY DEF ChooseOneOf, Clicks
<1>3. Good(Choose(tab, sel), rows)
  BY ChooseOK
<1>. QED
  BY <1>1, <1>2, <1>3

\* A choice in the toolbar.
LEMMA ChoicesGood ==
  ASSUME Good(tab, rows),
         \/ SelectProject \/ SelectGroup \/ SelectPlot \/ selectAdjacentPlot \/ SelectSensor
         \/ SelectAggregation \/ SelectQuality \/ SelectSensorCmp \/ SelectPlotCmp
         \/ selectAdjacentPlotCmp \/ SwitchOption
  PROVE  Good(tab', rows')
<1>. DEFINE old == tab.sel
            all == ProjectChoices(old) \cup GroupChoices(old) \cup PlotChoices(old)
                   \cup {PreviousPlot(old), NextPlot(old)} \cup SensorChoices(old)
                   \cup AggregationChoices(old) \cup QualityChoices(old) \cup CmpChoices(old)
                   \cup PlotCmpChoices(old)
                   \cup {AdjacentPlotCmp(old, -1), AdjacentPlotCmp(old, 1)}
                   \cup SwitchChoices(old)
<1>1. \A sel \in all : ChoiceOK(old, sel)
  <2>1. SelOK(old)
    BY DEF Good, TabOK
  <2>. HIDE DEF old
  <2>. QED
    BY <2>1, ChoicesOK
<1>2. \A choices : choices \subseteq all /\ ChooseOneOf(choices) => Good(tab', rows')
  <2>. SUFFICES ASSUME NEW choices, choices \subseteq all, ChooseOneOf(choices)
                PROVE  Good(tab', rows')
    OBVIOUS
  <2>1. \A sel \in choices : ChoiceOK(tab.sel, sel)
    <3>. HIDE DEF all
    <3>. QED
      BY <1>1
  <2>. QED
    BY <2>1, ChooseGood
<1>3. /\ ProjectChoices(old) \subseteq all /\ GroupChoices(old) \subseteq all
      /\ PlotChoices(old) \subseteq all /\ {PreviousPlot(old), NextPlot(old)} \subseteq all
      /\ SensorChoices(old) \subseteq all /\ AggregationChoices(old) \subseteq all
      /\ QualityChoices(old) \subseteq all /\ CmpChoices(old) \subseteq all
      /\ PlotCmpChoices(old) \subseteq all /\ SwitchChoices(old) \subseteq all
      /\ {AdjacentPlotCmp(old, -1), AdjacentPlotCmp(old, 1)} \subseteq all
  OBVIOUS
<1>. HIDE DEF all
<1>. QED
  BY <1>2, <1>3 DEF SelectProject, SelectGroup, SelectPlot, selectAdjacentPlot, SelectSensor,
     SelectAggregation, SelectQuality, SelectSensorCmp, SelectPlotCmp, selectAdjacentPlotCmp,
     SwitchOption

LEMMA PickUnseen ==
  ASSUME NEW t, DOMAIN t = TabFields, NEW s
  PROVE  Changes(t, Pick(t, s), Unseen)
BY DEF Pick, Changes, TabFields, Unseen

\* What is picked in the diagram and the dialog.
LEMMA PickGood ==
  ASSUME Good(tab, rows), PickStart \/ PickEnd \/ Escape \/ CloseMaskList
  PROVE  Good(tab', rows')
<1>1. DOMAIN tab = TabFields
  BY DEF Good, TabOK
<1>2. rows' = rows
  BY DEF PickStart, PickEnd, Escape, CloseMaskList, Clicks
<1>3. Changes(tab, tab', Unseen)
  <2>1. CASE PickStart
    BY <1>1, <2>1, PickUnseen DEF PickStart
  <2>2. CASE PickEnd
    BY <1>1, <2>2, PickUnseen DEF PickEnd
  <2>3. CASE Escape
    <3>. DEFINE t == resetSelection(tab)
    <3>1. Changes(tab, t, Unseen)
      <4>1. CASE Viewing(tab)
        BY <1>1, <4>1, PickUnseen DEF resetSelection
      <4>2. CASE ~Viewing(tab)
        BY <1>1, <4>2 DEF resetSelection, Changes
      <4>. QED
        BY <4>1, <4>2
    <3>2. tab' = [t EXCEPT !.dialog = FALSE]
      BY <2>3 DEF Escape
    <3>. HIDE DEF t
    <3>. QED
      BY <3>1, <3>2 DEF Changes, Unseen, TabFields
  <2>4. CASE CloseMaskList
    <3>1. tab' = [tab EXCEPT !.dialog = FALSE]
      BY <2>4 DEF CloseMaskList
    <3>. QED
      BY <1>1, <3>1 DEF Changes, Unseen, TabFields
  <2>. QED
    BY <2>1, <2>2, <2>3, <2>4
<1>. QED
  BY <1>2, <1>3, UnseenGood

LEMMA RetriesGood ==
  ASSUME Good(tab, rows), Retry \/ OpenMaskList \/ RetryMaskList
  PROVE  Good(tab', rows')
<1>1. DOMAIN tab = TabFields
  BY DEF Good, TabOK
<1>2. rows' = rows
  BY DEF Retry, OpenMaskList, RetryMaskList, Clicks
<1>3. CASE Retry
  <2>1. tab' = Render(fetchData(tab))
    BY <1>3 DEF Retry
  <2>2. Good(fetchData(tab), rows)
    BY RetryGood
  <2>. QED
    BY <1>2, <2>1, <2>2, RenderOK
<1>4. CASE OpenMaskList
  <2>. DEFINE t == [tab EXCEPT !.dialog = TRUE]
  <2>1. Changes(tab, t, Unseen)
    BY <1>1 DEF Changes, Unseen, TabFields
  <2>2. tab' = fetchMaskList(t, "list")
    BY <1>4 DEF OpenMaskList
  <2>. HIDE DEF t
  <2>3. Good(t, rows)
    BY <2>1, UnseenGood
  <2>. QED
    BY <1>2, <2>2, <2>3, ListGood
<1>5. CASE RetryMaskList
  <2>1. tab' = fetchMaskList(tab, "list")
    BY <1>5 DEF RetryMaskList
  <2>. QED
    BY <1>2, <2>1, ListGood
<1>. QED
  BY <1>3, <1>4, <1>5

LEMMA SaveGood ==
  ASSUME Good(tab, rows), maskSelectionSave
  PROVE  Good(tab', rows')
<1>1. DOMAIN tab = TabFields /\ AreFlights(tab.flights)
  BY DEF Good, TabOK
<1>. DEFINE w == [tab EXCEPT !.saving = TRUE]
            key == [series |-> At(tab.sel.plot, tab.sel.sensor), interval |-> tab.picked,
                    removed |-> FALSE]
<1>2. rows' = rows /\ tab.saving = FALSE /\ tab' = Send(w, "save", key)
  <2>1. tab.saving \in BOOLEAN
    BY DEF Good, TabOK, Flags
  <2>. QED
    BY <2>1 DEF maskSelectionSave, Clicks
<1>3. /\ DOMAIN w = TabFields /\ w.flights = tab.flights /\ w.saving = TRUE
      /\ Changes(tab, w, {"saving"})
  BY <1>1 DEF TabFields, Changes
<1>. HIDE DEF w, key
<1>4. /\ Changes(w, tab', {"flights"}) /\ Grown(w, tab', "save", key)
      /\ Pending(tab', {"save"}) # {}
  BY <1>1, <1>2, <1>3, SendOK DEF Kinds
<1>5. Grown(tab, tab', "save", key)
  BY <1>3, <1>4 DEF Grown
<1>6. /\ Changes(tab, tab', {"saving", "removing", "flights"})
      /\ tab'.saving = TRUE /\ tab'.removing = tab.removing
  BY <1>3, <1>4 DEF Changes, TabFields
<1>. QED
  BY <1>2, <1>4, <1>5, <1>6, SendChangeOK

LEMMA RemoveGood ==
  ASSUME Good(tab, rows), removeRow
  PROVE  Good(tab', rows')
<1>1. DOMAIN tab = TabFields /\ AreFlights(tab.flights)
  BY DEF Good, TabOK
<1>. DEFINE w == [tab EXCEPT !.removing = TRUE]
<1>2. rows' = rows /\ tab.removing = FALSE
  <2>1. tab.removing \in BOOLEAN
    BY DEF Good, TabOK, Flags
  <2>. QED
    BY <2>1 DEF removeRow, Clicks
<1>3. PICK key : tab' = Send(w, "remove", key)
  BY DEF removeRow
<1>4. /\ DOMAIN w = TabFields /\ w.flights = tab.flights /\ w.removing = TRUE
      /\ Changes(tab, w, {"removing"})
  BY <1>1 DEF TabFields, Changes
<1>. HIDE DEF w
<1>5. /\ Changes(w, tab', {"flights"}) /\ Grown(w, tab', "remove", key)
      /\ Pending(tab', {"remove"}) # {}
  BY <1>1, <1>3, <1>4, SendOK DEF Kinds
<1>6. Grown(tab, tab', "remove", key)
  BY <1>4, <1>5 DEF Grown
<1>7. /\ Changes(tab, tab', {"saving", "removing", "flights"})
      /\ tab'.removing = TRUE /\ tab'.saving = tab.saving
  BY <1>4, <1>5 DEF Changes, TabFields
<1>. QED
  BY <1>2, <1>5, <1>6, <1>7, SendChangeOK

LEMMA ServeGood ==
  ASSUME Good(tab, rows), Serve(Kinds)
  PROVE  Good(tab', rows')
<1>1. PICK i \in Pending(tab, Kinds) :
        /\ rows' = Change(rows, tab.flights[i])
        /\ tab' = [tab EXCEPT !.flights =
                     [@ EXCEPT ![i].pc = "answered",
                               ![i].answer = AnswerTo(rows, tab.flights[i])]]
  BY DEF Serve
<1>2. i \in DOMAIN tab.flights /\ DOMAIN tab = TabFields /\ AreFlights(tab.flights)
  BY DEF Pending, Good, TabOK
<1>. DEFINE answer == AnswerTo(rows, tab.flights[i])
            new == [tab.flights EXCEPT ![i].pc = "answered", ![i].answer = answer]
<1>3. tab' = [tab EXCEPT !.flights = new]
  BY <1>1, <1>2 DEF TabFields
<1>4. AnsweredWith(tab.flights, new, i, answer)
  <2>. HIDE DEF answer
  <2>. QED
    BY <1>2, AnswerFlight
<1>. HIDE DEF new
<1>. QED
  BY <1>1, <1>2, <1>3, <1>4, ServeOK

LEMMA LandGood ==
  ASSUME Good(tab, rows), Land(Kinds) \/ Fail(Kinds)
  PROVE  Good(tab', rows')
<1>1. rows' = rows
  BY DEF Land, Fail
<1>2. CASE Land(Kinds)
  <2>1. PICK i \in Pending(tab, Kinds) :
          /\ tab.flights[i].pc = "answered"
          /\ tab' = Render(Continue(Landed(i), tab.flights[i]))
    BY <1>2 DEF Land
  <2>2. i \in DOMAIN tab.flights
    BY DEF Pending
  <2>3. Good(Continue(Landed(i), tab.flights[i]), rows)
    BY <2>1, <2>2, LandOK
  <2>. QED
    BY <1>1, <2>1, <2>3, RenderOK
<1>3. CASE Fail(Kinds)
  <2>1. PICK i \in Pending(tab, Kinds) : tab' = Render(GiveUp(Landed(i), tab.flights[i]))
    BY <1>3 DEF Fail
  <2>2. i \in DOMAIN tab.flights
    BY DEF Pending
  <2>3. Good(GiveUp(Landed(i), tab.flights[i]), rows)
    BY <2>2, FailOK
  <2>. QED
    BY <1>1, <2>1, <2>3, RenderOK
<1>. QED
  BY <1>2, <1>3

LEMMA MountedGood ==
  ASSUME tab = Tab(FirstSelection), MetaDataLoaded
  PROVE  Good(tab', rows')
<1>1. rows' = rows /\ tab.sel = FirstSelection
  BY DEF MetaDataLoaded, Tab
<1>2. /\ TabOK(tab) /\ LoadingOK(tab) /\ BusyOK(tab) /\ StylesOK(tab) /\ AnswersOK(tab, rows)
      /\ FirstSelection.plot = None \/ FirstSelection.sensor = None => Good(tab, rows)
  BY FirstOK, FreshOK
<1>3. CASE tab.sel.plot # None /\ tab.sel.sensor # None
  <2>1. tab' = fetchDataCmp(fetchMask(fetchData(tab)))
    BY <1>3 DEF MetaDataLoaded
  <2>. QED
    BY <1>1, <1>2, <2>1, LoadedOK
<1>4. CASE tab.sel.plot = None \/ tab.sel.sensor = None
  <2>1. tab' = tab
    BY <1>4 DEF MetaDataLoaded
  <2>. QED
    BY <1>1, <1>2, <1>4, <2>1
<1>. QED
  BY <1>3, <1>4

LEMMA Initial == Init => IInv
BY DEF Init, IInv

LEMMA Inductive == IInv /\ [Next]_vars => IInv'
<1>. SUFFICES ASSUME IInv, [Next]_vars
              PROVE  IInv'
  OBVIOUS
<1>1. CASE MetaDataLoaded
  <2>1. page' = "shell" /\ tab = Tab(FirstSelection)
    BY <1>1 DEF MetaDataLoaded, IInv
  <2>2. Good(tab', rows')
    BY <1>1, <2>1, MountedGood
  <2>. QED
    BY <2>1, <2>2 DEF IInv
<1>2. CASE MetaDataFailed \/ retryLoad
  <2>1. /\ tab' = tab /\ page' \in {"failed", "loading"} /\ page # "shell"
    BY <1>2 DEF MetaDataFailed, retryLoad
  <2>. QED
    BY <2>1 DEF IInv
<1>3. CASE User \/ Serve(Kinds) \/ Land(Kinds) \/ Fail(Kinds)
  <2>1. page' = page
    BY <1>3 DEF User, SelectProject, SelectGroup, SelectPlot, selectAdjacentPlot, SelectSensor,
       SelectAggregation, SelectQuality, SelectSensorCmp, SelectPlotCmp, selectAdjacentPlotCmp,
       SwitchOption, ChooseOneOf, PickStart, PickEnd, Escape, Retry, maskSelectionSave,
       OpenMaskList, CloseMaskList, RetryMaskList, removeRow, Clicks, Serve, Land, Fail
  <2>2. page = "shell"
    <3>1. CASE User
      BY <3>1 DEF User, SelectProject, SelectGroup, SelectPlot, selectAdjacentPlot, SelectSensor,
         SelectAggregation, SelectQuality, SelectSensorCmp, SelectPlotCmp, selectAdjacentPlotCmp,
         SwitchOption, ChooseOneOf, PickStart, PickEnd, Escape, Retry, maskSelectionSave,
         OpenMaskList, CloseMaskList, RetryMaskList, removeRow, Clicks
    <3>2. CASE Serve(Kinds) \/ Land(Kinds) \/ Fail(Kinds)
      <4>1. Pending(tab, Kinds) # {}
        BY <3>2 DEF Serve, Land, Fail
      <4>2. SUFFICES ASSUME tab = Tab(FirstSelection)
                     PROVE  FALSE
        BY DEF IInv
      <4>3. DOMAIN tab.flights = {}
        BY <4>2, EmptySeq DEF Tab
      <4>. QED
        BY <4>1, <4>3 DEF Pending
    <3>. QED
      BY <1>3, <3>1, <3>2
  <2>3. Good(tab, rows)
    BY <2>2 DEF IInv
  <2>4. Good(tab', rows')
    BY <1>3, <2>3, ChoicesGood, PickGood, RetriesGood, SaveGood, RemoveGood, ServeGood, LandGood
       DEF User
  <2>. QED
    BY <2>1, <2>2, <2>4 DEF IInv
<1>4. CASE UNCHANGED vars
  <2>1. page' = page /\ tab' = tab /\ rows' = rows
    BY <1>4 DEF vars
  <2>. QED
    BY <2>1 DEF IInv
<1>. QED
  BY <1>1, <1>2, <1>3, <1>4 DEF Next

LEMMA Always == Spec => []IInv
<1>1. Init => IInv
  BY Initial
<1>2. IInv /\ [Next]_vars => IInv'
  BY Inductive
<1>. QED
  BY <1>1, <1>2, PTL DEF Spec

-----------------------------------------------------------------------------
(* The masks of the comparison diagram                                     *)

\* What is shown or answered is as the files are, of the series that are unchanged since.
Fresh(files, since, shown) ==
  \A k \in DOMAIN shown.key.series :
    shown.key.series[k] \notin since => shown.answer[k] = Current(files, shown.key)[k]

CmpFresh(t, files, since) ==
  /\ Pending(t, {"cmp"}) = {} /\ t.dataCmp # Nothing => Fresh(files, since, t.dataCmp)
  /\ \A i : Newest(t, i, "cmp") /\ t.flights[i].pc = "answered" =>
       Fresh(files, since, t.flights[i])

CInv == tab.tidy => CmpFresh(tab, rows, changed)

\* The newest flight stays, and the diagram unless it goes.
Undisturbed(t, u) ==
  /\ u.tidy => t.tidy
  /\ Pending(u, {"cmp"}) = {} => Pending(t, {"cmp"}) = {}
  /\ u.dataCmp \in {t.dataCmp, Nothing}
  /\ \A i : Newest(u, i, "cmp") => \E j : Newest(t, j, "cmp") /\ u.flights[i] = t.flights[j]

LEMMA UndisturbedFresh ==
  ASSUME NEW t, NEW u, Undisturbed(t, u), NEW files, NEW since, CmpFresh(t, files, since)
  PROVE  CmpFresh(u, files, since)
<1>1. ASSUME NEW i, Newest(u, i, "cmp"), u.flights[i].pc = "answered"
      PROVE  Fresh(files, since, u.flights[i])
  <2>1. PICK j : Newest(t, j, "cmp") /\ u.flights[i] = t.flights[j]
    BY <1>1 DEF Undisturbed
  <2>. QED
    BY <1>1, <2>1 DEF CmpFresh
<1>. QED
  BY <1>1 DEF CmpFresh, Undisturbed

LEMMA UndisturbedTwice ==
  ASSUME NEW t, NEW u, NEW v, Undisturbed(t, u), Undisturbed(u, v)
  PROVE  Undisturbed(t, v)
<1>1. ASSUME NEW i, Newest(v, i, "cmp")
      PROVE  \E j : Newest(t, j, "cmp") /\ v.flights[i] = t.flights[j]
  <2>1. PICK k : Newest(u, k, "cmp") /\ v.flights[i] = u.flights[k]
    BY <1>1 DEF Undisturbed
  <2>2. PICK j : Newest(t, j, "cmp") /\ u.flights[k] = t.flights[j]
    BY <2>1 DEF Undisturbed
  <2>. QED
    BY <2>1, <2>2
<1>. QED
  BY <1>1 DEF Undisturbed

\* Flights of another kind are sent.
LEMMA GrownUndisturbed ==
  ASSUME NEW t, NEW u, NEW kind, NEW key, Grown(t, u, kind, key), kind # "cmp",
         u.dataCmp \in {t.dataCmp, Nothing}, u.tidy => t.tidy
  PROVE  Undisturbed(t, u) /\ Pending(u, {"cmp"}) = Pending(t, {"cmp"})
<1>1. Pending(u, {"cmp"}) = Pending(t, {"cmp"})
  BY GrownKeeps
<1>2. \A i : Newest(u, i, "cmp") => Newest(t, i, "cmp") /\ u.flights[i] = t.flights[i]
  <2>1. \A i \in Pending(t, {"cmp"}) : u.flights[i] = t.flights[i]
    BY DEF Grown, Pending
  <2>. QED
    BY <1>1, <2>1 DEF Newest
<1>. QED
  BY <1>1, <1>2 DEF Undisturbed

LEMMA SameUndisturbed ==
  ASSUME NEW t, NEW u, u.flights = t.flights, u.dataCmp \in {t.dataCmp, Nothing},
         u.tidy => t.tidy
  PROVE  Undisturbed(t, u) /\ Pending(u, {"cmp"}) = Pending(t, {"cmp"})
<1>1. Pending(u, {"cmp"}) = Pending(t, {"cmp"})
  BY SameFlights
<1>2. \A i : Newest(u, i, "cmp") <=> Newest(t, i, "cmp")
  BY <1>1 DEF Newest
<1>. QED
  BY <1>1, <1>2 DEF Undisturbed

LEMMA FetchesUndisturbed ==
  ASSUME NEW t, TabOK(t), NEW u, u \in {fetchData(t), fetchMask(fetchData(t))}
  PROVE  /\ Undisturbed(t, u) /\ Pending(u, {"cmp"}) = Pending(t, {"cmp"})
         /\ TabOK(u) /\ u.dataCmp = t.dataCmp /\ u.cache = t.cache
<1>. DEFINE v == fetchData(t)
            w == fetchMask(v)
<1>1. /\ TabOK(v) /\ Changes(t, v, {"data", "dataLoading", "dataError", "flights", "tidy"})
      /\ Grown(t, v, "data", DataKey(t.sel))
      /\ v.tidy => t.tidy
  BY FetchDataOK
<1>. HIDE DEF v
<1>2. v.dataCmp = t.dataCmp /\ v.cache = t.cache
  BY <1>1 DEF Changes, TabFields
<1>3. Undisturbed(t, v) /\ Pending(v, {"cmp"}) = Pending(t, {"cmp"})
  BY <1>1, <1>2, GrownUndisturbed
<1>4. /\ TabOK(w) /\ Changes(v, w, {"mask", "flights", "tidy"})
      /\ Grown(v, w, "mask", At(v.sel.plot, v.sel.sensor))
      /\ w.tidy => v.tidy
  BY <1>1, FetchMaskOK
<1>. HIDE DEF w
<1>5. w.dataCmp = v.dataCmp /\ w.cache = v.cache
  BY <1>4 DEF Changes, TabFields
<1>6. Undisturbed(v, w) /\ Pending(w, {"cmp"}) = Pending(v, {"cmp"})
  BY <1>4, <1>5, GrownUndisturbed
<1>7. Undisturbed(t, w)
  BY <1>3, <1>6, UndisturbedTwice
<1>8. u = v \/ u = w
  BY DEF v, w
<1>. QED
  BY <1>1, <1>2, <1>3, <1>4, <1>5, <1>6, <1>7, <1>8

LEMMA ListUndisturbed ==
  ASSUME NEW t, TabOK(t), NEW kind \in {"list", "relist"}, NEW u, u = fetchMaskList(t, kind)
  PROVE  Undisturbed(t, u) /\ TabOK(u)
<1>1. /\ TabOK(u) /\ Changes(t, u, {"list", "listLoading", "listError", "flights"})
      /\ Grown(t, u, kind, At(t.sel.plot, t.sel.sensor))
  BY FetchMaskListOK
<1>2. u.dataCmp = t.dataCmp /\ u.tidy = t.tidy
  BY <1>1 DEF Changes, TabFields
<1>. QED
  BY <1>1, <1>2, GrownUndisturbed

LEMMA RenderUndisturbed ==
  ASSUME NEW t, DOMAIN t = TabFields
  PROVE  /\ Undisturbed(t, Render(t))
         /\ Pending(Render(t), {"cmp"}) = Pending(t, {"cmp"}) /\ Render(t).dataCmp = t.dataCmp
<1>. DEFINE u == Render(t)
<1>1. Changes(t, u, {"viewer"})
  BY RenderChanges
<1>. HIDE DEF u
<1>2. u.flights = t.flights /\ u.dataCmp = t.dataCmp /\ u.tidy = t.tidy
  BY <1>1 DEF Changes, TabFields
<1>. QED
  BY <1>2, SameUndisturbed DEF u

\* A choice of the user or the mounting of the shell: the comparison diagram is as it was,
\* or fetched.
FetchStep(t, u) ==
  /\ u.tidy => t.tidy
  /\ \/ /\ Undisturbed(t, u) /\ Pending(u, {"cmp"}) = Pending(t, {"cmp"})
     \/ /\ Pending(u, {"cmp"}) = Pending(t, {"cmp"}) /\ (u.tidy => Pending(t, {"cmp"}) = {})
        /\ \E key \in DOMAIN t.cache : u.dataCmp = Shown(key, t.cache[key])
     \/ Asked(t, u, "cmp")

LEMMA FetchedStep ==
  ASSUME NEW t, NEW v, Undisturbed(t, v), Pending(v, {"cmp"}) = Pending(t, {"cmp"}),
         v.cache = t.cache, NEW u, CmpFetched(v, u), u.tidy => v.tidy
  PROVE  FetchStep(t, u)
<1>1. u.tidy => t.tidy
  BY DEF Undisturbed
<1>2. CASE u.flights = v.flights /\ u.dataCmp = Nothing
  <2>1. Undisturbed(v, u) /\ Pending(u, {"cmp"}) = Pending(v, {"cmp"})
    BY <1>2, SameUndisturbed
  <2>2. Undisturbed(t, u)
    BY <2>1, UndisturbedTwice
  <2>. QED
    BY <1>1, <2>1, <2>2 DEF FetchStep
<1>3. CASE /\ u.flights = v.flights /\ (u.tidy => Pending(v, {"cmp"}) = {})
           /\ \E key \in DOMAIN v.cache : u.dataCmp = Shown(key, v.cache[key])
  <2>1. Pending(u, {"cmp"}) = Pending(v, {"cmp"})
    BY <1>3, SameFlights
  <2>. QED
    BY <1>1, <1>3, <2>1 DEF FetchStep
<1>4. CASE Asked(v, u, "cmp")
  BY <1>1, <1>4 DEF FetchStep, Asked
<1>. QED
  BY <1>2, <1>3, <1>4 DEF CmpFetched

LEMMA FetchStepThen ==
  ASSUME NEW t, NEW u, FetchStep(t, u), NEW w, w.flights = u.flights, w.dataCmp = u.dataCmp,
         w.tidy = u.tidy
  PROVE  FetchStep(t, w)
<1>1. \A kinds : Pending(w, kinds) = Pending(u, kinds)
  BY SameFlights
<1>2. \A i : Newest(w, i, "cmp") <=> Newest(u, i, "cmp")
  BY <1>1 DEF Newest
<1>3. Undisturbed(t, u) => Undisturbed(t, w)
  BY <1>1, <1>2 DEF Undisturbed
<1>4. Asked(t, u, "cmp") => Asked(t, w, "cmp")
  BY <1>1, <1>2 DEF Asked
<1>. QED
  BY <1>1, <1>3, <1>4 DEF FetchStep

LEMMA ChooseFetches ==
  ASSUME NEW t, NEW files, Good(t, files), NEW sel, ChoiceOK(t.sel, sel)
  PROVE  FetchStep(t, Choose(t, sel))
<1>. DEFINE new == Settle(t.sel, sel)
            v == [t EXCEPT !.sel = new]
            differs(fields) == \E f \in fields : v.sel[f] # t.sel[f]
            both == {"plot", "agg", "plotCmp", "separate", "cmp", "qc"}
            all == both \cup {"sensor", "interpolation"}
            main == IF differs(all) THEN fetchMask(fetchData(v)) ELSE v
            without == [main EXCEPT !.dataCmp = Nothing]
            chosen == FetchChanged(v, t.sel)
            told == [chosen EXCEPT !.picked = Ordered(t.viewer)]
<1>1. SelOK(new)
  BY SettleOK DEF Good, TabOK
<1>. HIDE DEF new
<1>2. Good(chosen, files)
  BY <1>1, FetchChangedOK
<1>3. chosen = IF ~differs(both) THEN main
               ELSE IF main.sel.cmp # None THEN fetchDataCmp(main)
               ELSE Overtaken(without, {"cmp"})
  BY DEF FetchChanged
<1>4. Choose(t, sel) = Render(IF Viewing(t) /\ new.agg # t.sel.agg THEN told ELSE chosen)
  BY DEF Choose, new
<1>5. Changes(t, v, {"sel"}) /\ v.sel = new /\ DOMAIN t = TabFields /\ TabOK(t)
  BY DEF Good, TabOK, Changes, TabFields
<1>. HIDE DEF v, chosen
<1>6. /\ v.flights = t.flights /\ v.dataCmp = t.dataCmp /\ v.tidy = t.tidy /\ v.cache = t.cache
      /\ \A flag \in Flags : v[flag] = t[flag]
  BY <1>5 DEF Changes, TabFields, Flags
<1>7. TabOK(v)
  BY <1>1, <1>5, <1>6 DEF TabOK, Changes
<1>8. Undisturbed(t, v) /\ Pending(v, {"cmp"}) = Pending(t, {"cmp"})
  BY <1>6, SameUndisturbed
<1>9. /\ Undisturbed(t, main) /\ Pending(main, {"cmp"}) = Pending(t, {"cmp"})
      /\ TabOK(main) /\ main.cache = t.cache
  <2>1. CASE main = v
    BY <1>6, <1>7, <1>8, <2>1
  <2>2. CASE main = fetchMask(fetchData(v))
    <3>. HIDE DEF main
    <3>1. /\ Undisturbed(v, main) /\ Pending(main, {"cmp"}) = Pending(v, {"cmp"})
          /\ TabOK(main) /\ main.cache = v.cache
      BY <1>7, <2>2, FetchesUndisturbed
    <3>. QED
      BY <1>6, <1>8, <3>1, UndisturbedTwice
  <2>. QED
    BY <2>1, <2>2
<1>. HIDE DEF main, differs, all, both
<1>10. FetchStep(t, chosen)
  <2>1. CASE chosen = main
    BY <1>9, <2>1 DEF FetchStep, Undisturbed
  <2>2. CASE chosen = fetchDataCmp(main)
    <3>1. CmpFetched(main, chosen) /\ (chosen.tidy => main.tidy)
      BY <1>9, <2>2, FetchDataCmpOK
    <3>. QED
      BY <1>9, <3>1, FetchedStep
  <2>3. CASE chosen = Overtaken(without, {"cmp"})
    <3>1. Changes(main, without, {"dataCmp"}) /\ without.dataCmp = Nothing
      BY <1>9 DEF TabOK, Changes, TabFields
    <3>. HIDE DEF without
    <3>2. DOMAIN without = TabFields
      BY <3>1 DEF Changes
    <3>3. Changes(without, chosen, {"tidy"}) /\ (chosen.tidy => without.tidy)
      BY <2>3, <3>2, OvertakenOK
    <3>4. chosen.flights = main.flights /\ chosen.dataCmp = Nothing /\ (chosen.tidy => main.tidy)
      BY <3>1, <3>3 DEF Changes, TabFields
    <3>5. CmpFetched(main, chosen)
      BY <3>4 DEF CmpFetched
    <3>. QED
      BY <1>9, <3>4, <3>5, FetchedStep
  <2>. QED
    BY <1>3, <2>1, <2>2, <2>3
<1>11. DOMAIN chosen = TabFields
  BY <1>2 DEF Good, TabOK
<1>12. /\ DOMAIN told = TabFields /\ told.flights = chosen.flights
       /\ told.dataCmp = chosen.dataCmp /\ told.tidy = chosen.tidy
  BY <1>11 DEF TabFields
<1>. HIDE DEF told
<1>13. PICK w : Choose(t, sel) = Render(w) /\ w \in {told, chosen}
  BY <1>4
<1>14. DOMAIN w = TabFields /\ FetchStep(t, w)
  BY <1>10, <1>11, <1>12, <1>13, FetchStepThen
<1>15. /\ Render(w).flights = w.flights /\ Render(w).dataCmp = w.dataCmp
       /\ Render(w).tidy = w.tidy
  BY <1>14, RenderChanges DEF Changes, TabFields
<1>. QED
  BY <1>13, <1>14, <1>15, FetchStepThen

\* The comparison diagram after a handler that may have fetched it.
LEMMA FetchedFresh ==
  ASSUME DOMAIN tab = TabFields, tab.tidy => AnswersOK(tab, rows),
         Outdated(tab) => Pending(tab, {"save", "remove", "relist"}) # {},
         CInv, FetchStep(tab, tab'), ComparisonFetched(tab'), rows' = rows
  PROVE  CInv'
<1>. SUFFICES ASSUME tab'.tidy
              PROVE  CmpFresh(tab', rows, changed')
  BY DEF CInv
<1>1. tab.tidy /\ CmpFresh(tab, rows, changed) /\ AnswersOK(tab, rows)
  BY DEF FetchStep, CInv
<1>2. CASE Asked(tab, tab', "cmp")
  BY <1>2 DEF Asked, CmpFresh
<1>3. CASE /\ Undisturbed(tab, tab') /\ Pending(tab', {"cmp"}) = Pending(tab, {"cmp"})
  <2>1. changed' = changed
    BY <1>3 DEF ComparisonFetched, Undisturbed
  <2>. QED
    BY <1>1, <1>3, <2>1, UndisturbedFresh
<1>4. ASSUME Pending(tab', {"cmp"}) = Pending(tab, {"cmp"}), Pending(tab, {"cmp"}) = {},
             NEW key \in DOMAIN tab.cache, tab'.dataCmp = Shown(key, tab.cache[key])
      PROVE  CmpFresh(tab', rows, changed')
  <2>. DEFINE shown == tab'.dataCmp
  <2>1. \A i : ~Newest(tab', i, "cmp")
    BY <1>4 DEF Newest
  <2>2. CASE shown \in {tab.dataCmp, Nothing}
    <3>1. changed' = changed
      BY <1>4, <2>2 DEF ComparisonFetched
    <3>2. shown # Nothing => Fresh(rows, changed, shown)
      BY <1>1, <1>4, <2>2 DEF CmpFresh
    <3>. QED
      BY <2>1, <3>1, <3>2 DEF CmpFresh
  <2>3. CASE shown \notin {tab.dataCmp, Nothing} /\ Pending(tab, {"save", "remove", "relist"}) = {}
    <3>1. tab.cache[key] = Current(rows, key)
      BY <1>1, <1>4, <2>3 DEF AnswersOK, CacheOK
    <3>2. shown.key = key /\ shown.answer = tab.cache[key]
      BY <1>4 DEF Shown
    <3>3. Fresh(rows, changed', shown)
      BY <3>1, <3>2 DEF Fresh
    <3>. QED
      BY <2>1, <3>3 DEF CmpFresh
  <2>4. CASE /\ shown \notin {tab.dataCmp, Nothing}
             /\ Pending(tab, {"save", "remove", "relist"}) # {}
    <3>1. changed' = ToSet(shown.key.series)
      BY <1>4, <2>4 DEF ComparisonFetched
    <3>2. Fresh(rows, changed', shown)
      BY <3>1 DEF Fresh, ToSet
    <3>. QED
      BY <2>1, <3>2 DEF CmpFresh
  <2>. QED
    BY <2>2, <2>3, <2>4
<1>. QED
  BY <1>1, <1>2, <1>3, <1>4 DEF FetchStep

LEMMA OutdatedPending ==
  ASSUME NEW t, Outdated(t)
  PROVE  Pending(t, {"save", "remove", "relist"}) # {}
BY DEF Outdated, Pending

\* The choices of the user.
LEMMA ChoicesFresh ==
  ASSUME Good(tab, rows), CInv,
         \/ SelectProject \/ SelectGroup \/ SelectPlot \/ selectAdjacentPlot \/ SelectSensor
         \/ SelectAggregation \/ SelectQuality \/ SelectSensorCmp \/ SelectPlotCmp
         \/ selectAdjacentPlotCmp \/ SwitchOption
  PROVE  CInv'
<1>. DEFINE old == tab.sel
            all == ProjectChoices(old) \cup GroupChoices(old) \cup PlotChoices(old)
                   \cup {PreviousPlot(old), NextPlot(old)} \cup SensorChoices(old)
                   \cup AggregationChoices(old) \cup QualityChoices(old) \cup CmpChoices(old)
                   \cup PlotCmpChoices(old)
                   \cup {AdjacentPlotCmp(old, -1), AdjacentPlotCmp(old, 1)}
                   \cup SwitchChoices(old)
<1>1. \A sel \in all : ChoiceOK(old, sel)
  <2>1. SelOK(old)
    BY DEF Good, TabOK
  <2>. HIDE DEF old
  <2>. QED
    BY <2>1, ChoicesOK
<1>2. PICK choices : choices \subseteq all /\ ChooseOneOf(choices)
  BY DEF SelectProject, SelectGroup, SelectPlot, selectAdjacentPlot, SelectSensor,
     SelectAggregation, SelectQuality, SelectSensorCmp, SelectPlotCmp, selectAdjacentPlotCmp,
     SwitchOption
<1>. HIDE DEF all
<1>3. PICK sel \in choices : tab' = Choose(tab, sel)
  BY <1>2 DEF ChooseOneOf
<1>4. rows' = rows /\ ComparisonFetched(tab')
  BY <1>2 DEF ChooseOneOf, Clicks
<1>5. FetchStep(tab, tab')
  BY <1>1, <1>2, <1>3, ChooseFetches
<1>6. DOMAIN tab = TabFields /\ (tab.tidy => AnswersOK(tab, rows))
  BY DEF Good, TabOK, ViewOK
<1>. QED
  BY <1>4, <1>5, <1>6, FetchedFresh, OutdatedPending

LEMMA MountedFresh ==
  ASSUME tab = Tab(FirstSelection), CInv, MetaDataLoaded
  PROVE  CInv'
<1>1. rows' = rows /\ ComparisonFetched(tab')
  BY DEF MetaDataLoaded
<1>2. TabOK(tab) /\ AnswersOK(tab, rows)
  BY FirstOK, FreshOK
<1>3. FetchStep(tab, tab')
  <2>1. CASE tab' = tab
    <3>1. Undisturbed(tab, tab) /\ (tab.tidy => tab.tidy)
      BY SameUndisturbed
    <3>. QED
      BY <2>1, <3>1 DEF FetchStep
  <2>2. CASE tab' = fetchDataCmp(fetchMask(fetchData(tab)))
    <3>. DEFINE v == fetchMask(fetchData(tab))
    <3>1. /\ Undisturbed(tab, v) /\ Pending(v, {"cmp"}) = Pending(tab, {"cmp"})
          /\ TabOK(v) /\ v.cache = tab.cache
      BY <1>2, FetchesUndisturbed
    <3>2. tab' = fetchDataCmp(v)
      BY <2>2
    <3>. HIDE DEF v
    <3>3. CmpFetched(v, tab') /\ (tab'.tidy => v.tidy)
      BY <3>1, <3>2, FetchDataCmpOK
    <3>. QED
      BY <3>1, <3>3, FetchedStep
  <2>. QED
    BY <2>1, <2>2 DEF MetaDataLoaded
<1>4. DOMAIN tab = TabFields
  BY <1>2 DEF TabOK
<1>. QED
  BY <1>1, <1>2, <1>3, <1>4, FetchedFresh, OutdatedPending

\* The other actions of the user leave the comparison diagram alone.
LEMMA UserFresh ==
  ASSUME Good(tab, rows), CInv,
         \/ PickStart \/ PickEnd \/ Escape \/ Retry \/ maskSelectionSave
         \/ OpenMaskList \/ CloseMaskList \/ RetryMaskList \/ removeRow
  PROVE  CInv'
<1>1. TabOK(tab) /\ DOMAIN tab = TabFields /\ AreFlights(tab.flights)
  BY DEF Good, TabOK
<1>2. rows' = rows /\ changed' = changed
  BY DEF PickStart, PickEnd, Escape, Retry, maskSelectionSave, OpenMaskList, CloseMaskList,
     RetryMaskList, removeRow, Clicks
<1>3. ASSUME NEW t, Changes(tab, t, Unseen \cup {"saving", "removing"})
      PROVE  /\ Undisturbed(tab, t) /\ DOMAIN t = TabFields /\ t.flights = tab.flights
             /\ Changes(tab, t, Unseen) => TabOK(t)
  <2>1. t.flights = tab.flights /\ t.dataCmp = tab.dataCmp /\ t.tidy = tab.tidy
    BY <1>3 DEF Changes, Unseen, TabFields
  <2>2. Changes(tab, t, Unseen) => TabOK(t)
    BY <1>1, UnseenKeeps
  <2>. QED
    BY <1>3, <2>1, <2>2, SameUndisturbed DEF Changes
<1>4. ASSUME NEW t, NEW kind \in {"save", "remove"}, NEW key, tab' = Send(t, kind, key),
             Changes(tab, t, {"saving", "removing"})
      PROVE  Undisturbed(tab, tab')
  <2>1. Undisturbed(tab, t) /\ DOMAIN t = TabFields /\ AreFlights(t.flights)
    BY <1>1, <1>3, <1>4 DEF Changes
  <2>2. Changes(t, tab', {"flights"}) /\ Grown(t, tab', kind, key)
    BY <1>4, <2>1, SendOK DEF Kinds
  <2>3. tab'.dataCmp = t.dataCmp /\ tab'.tidy = t.tidy
    BY <2>2 DEF Changes, TabFields
  <2>4. Undisturbed(t, tab')
    BY <2>2, <2>3, GrownUndisturbed
  <2>. QED
    BY <2>1, <2>4, UndisturbedTwice
<1>5. Undisturbed(tab, tab')
  <2>1. CASE PickStart \/ PickEnd \/ Escape \/ CloseMaskList
    <3>1. CASE PickStart \/ PickEnd
      <4>1. PICK s : tab' = Pick(tab, s)
        BY <3>1 DEF PickStart, PickEnd
      <4>2. Changes(tab, tab', Unseen)
        BY <1>1, <4>1, PickUnseen
      <4>. QED
        BY <1>3, <4>2 DEF Changes
    <3>2. CASE Escape
      <4>. DEFINE t == resetSelection(tab)
      <4>1. Changes(tab, t, Unseen)
        <5>1. CASE Viewing(tab)
          BY <1>1, <5>1, PickUnseen DEF resetSelection
        <5>2. CASE ~Viewing(tab)
          BY <1>1, <5>2 DEF resetSelection, Changes
        <5>. QED
          BY <5>1, <5>2
      <4>2. tab' = [t EXCEPT !.dialog = FALSE]
        BY <3>2 DEF Escape
      <4>. HIDE DEF t
      <4>3. Changes(tab, tab', Unseen)
        BY <4>1, <4>2 DEF Changes, Unseen, TabFields
      <4>. QED
        BY <1>3, <4>3 DEF Changes
    <3>3. CASE CloseMaskList
      <4>1. tab' = [tab EXCEPT !.dialog = FALSE]
        BY <3>3 DEF CloseMaskList
      <4>2. Changes(tab, tab', Unseen)
        BY <1>1, <4>1 DEF Changes, Unseen, TabFields
      <4>. QED
        BY <1>3, <4>2 DEF Changes
    <3>. QED
      BY <2>1, <3>1, <3>2, <3>3
  <2>2. CASE Retry
    <3>. DEFINE v == fetchData(tab)
    <3>1. Undisturbed(tab, v) /\ TabOK(v)
      BY <1>1, FetchesUndisturbed
    <3>2. tab' = Render(v)
      BY <2>2 DEF Retry
    <3>. HIDE DEF v
    <3>3. Undisturbed(v, tab')
      BY <3>1, <3>2, RenderUndisturbed DEF TabOK
    <3>. QED
      BY <3>1, <3>3, UndisturbedTwice
  <2>3. CASE maskSelectionSave
    <3>. DEFINE t == [tab EXCEPT !.saving = TRUE]
                key == [series |-> At(tab.sel.plot, tab.sel.sensor), interval |-> tab.picked,
                        removed |-> FALSE]
    <3>1. tab' = Send(t, "save", key)
      BY <2>3 DEF maskSelectionSave
    <3>2. Changes(tab, t, {"saving", "removing"})
      BY <1>1 DEF Changes, TabFields
    <3>. HIDE DEF t, key
    <3>. QED
      BY <1>4, <3>1, <3>2
  <2>4. CASE OpenMaskList
    <3>. DEFINE t == [tab EXCEPT !.dialog = TRUE]
    <3>1. Changes(tab, t, Unseen)
      BY <1>1 DEF Changes, Unseen, TabFields
    <3>2. tab' = fetchMaskList(t, "list")
      BY <2>4 DEF OpenMaskList
    <3>. HIDE DEF t
    <3>3. Undisturbed(tab, t) /\ TabOK(t)
      BY <1>3, <3>1 DEF Changes
    <3>4. Undisturbed(t, tab')
      BY <3>2, <3>3, ListUndisturbed
    <3>. QED
      BY <3>3, <3>4, UndisturbedTwice
  <2>5. CASE RetryMaskList
    BY <1>1, <2>5, ListUndisturbed DEF RetryMaskList
  <2>6. CASE removeRow
    <3>. DEFINE t == [tab EXCEPT !.removing = TRUE]
    <3>1. PICK key : tab' = Send(t, "remove", key)
      BY <2>6 DEF removeRow
    <3>2. Changes(tab, t, {"saving", "removing"})
      BY <1>1 DEF Changes, TabFields
    <3>. HIDE DEF t
    <3>. QED
      BY <1>4, <3>1, <3>2
  <2>. QED
    BY <2>1, <2>2, <2>3, <2>4, <2>5, <2>6
<1>. QED
  BY <1>2, <1>5, UndisturbedFresh DEF CInv, Undisturbed

\* A request that the server has answered: the series it masks otherwise are counted.
LEMMA ServeFresh ==
  ASSUME Good(tab, rows), CInv, Serve(Kinds)
  PROVE  CInv'
<1>1. PICK i \in Pending(tab, Kinds) :
        /\ tab.flights[i].pc = "sent"
        /\ rows' = Change(rows, tab.flights[i])
        /\ changed' = changed \cup MaskedOtherwise(rows, rows')
        /\ tab' = [tab EXCEPT !.flights =
                     [@ EXCEPT ![i].pc = "answered",
                               ![i].answer = AnswerTo(rows, tab.flights[i])]]
  BY DEF Serve
<1>2. i \in DOMAIN tab.flights /\ DOMAIN tab = TabFields /\ AreFlights(tab.flights)
  BY DEF Pending, Good, TabOK
<1>. DEFINE f == tab.flights[i]
            answer == AnswerTo(rows, f)
            new == [tab.flights EXCEPT ![i].pc = "answered", ![i].answer = answer]
<1>3. tab' = [tab EXCEPT !.flights = new]
  BY <1>1, <1>2 DEF TabFields
<1>4. AnsweredWith(tab.flights, new, i, answer)
  <2>. HIDE DEF answer
  <2>. QED
    BY <1>2, AnswerFlight
<1>. HIDE DEF new, answer, f
<1>5. tab'.flights = new /\ tab'.dataCmp = tab.dataCmp /\ tab'.tidy = tab.tidy
  BY <1>2, <1>3 DEF TabFields
<1>6. \A series : series \notin changed' => MasksOf(rows', series) = MasksOf(rows, series)
  <2>. SUFFICES ASSUME NEW series, MasksOf(rows', series) # MasksOf(rows, series)
                PROVE  series \in changed'
    OBVIOUS
  <2>1. series \in SeriesOf(rows) \cup SeriesOf(rows')
    BY DEF MasksOf, SeriesOf
  <2>. QED
    BY <1>1, <2>1 DEF MaskedOtherwise
<1>7. \A key : \A k \in DOMAIN key.series : Current(rows', key)[k] = MasksOf(rows', key.series[k])
                                            /\ Current(rows, key)[k] = MasksOf(rows, key.series[k])
  BY DEF Current, AnswerTo
<1>8. \A shown : Fresh(rows, changed, shown) => Fresh(rows', changed', shown)
  BY <1>1, <1>6, <1>7 DEF Fresh
<1>9. \A kinds : Pending(tab', kinds) = Pending(tab, kinds)
  <2>1. Answered(tab, tab', i)
    BY <1>4, <1>5 DEF AnsweredWith, Answered, f
  <2>. QED
    BY <1>2, <2>1, AnsweredKeeps
<1>10. ASSUME NEW j, Newest(tab', j, "cmp"), tab'.flights[j].pc = "answered",
              CmpFresh(tab, rows, changed)
       PROVE  Fresh(rows', changed', tab'.flights[j])
  <2>1. Newest(tab, j, "cmp") /\ j \in DOMAIN tab.flights
    BY <1>9, <1>10 DEF Newest, Pending
  <2>2. CASE j # i
    <3>1. tab'.flights[j] = tab.flights[j]
      BY <1>4, <1>5, <2>1, <2>2 DEF AnsweredWith
    <3>. QED
      BY <1>8, <1>10, <2>1, <3>1 DEF CmpFresh
  <2>3. CASE j = i
    <3>1. f.kind = "cmp" /\ new[i].key = f.key /\ new[i].answer = answer
      BY <1>4, <2>1, <2>3 DEF AnsweredWith, SameRequest, Newest, Pending, f
    <3>2. answer = Current(rows, f.key)
      BY <3>1 DEF answer, Current, AnswerTo
    <3>3. Fresh(rows, changed, new[i])
      BY <3>1, <3>2 DEF Fresh
    <3>. QED
      BY <1>5, <1>8, <2>3, <3>3
  <2>. QED
    BY <2>2, <2>3
<1>. QED
  BY <1>5, <1>8, <1>9, <1>10 DEF CInv, CmpFresh

\* A flight that has left: the newest stays the newest, if it was not overtaken.
LEMMA LeftFresh ==
  ASSUME NEW t, AreFlights(t.flights), NEW i \in DOMAIN t.flights, NEW v, Left(t, v, i),
         v.dataCmp = t.dataCmp,
         v.tidy => t.tidy /\ \A j \in Pending(t, Rivals(t.flights[i].kind)) : j >= i,
         v.tidy, NEW files, NEW since, CmpFresh(t, files, since)
  PROVE  /\ t.flights[i].kind # "cmp" => CmpFresh(v, files, since)
         /\ \A k : Newest(v, k, "cmp") /\ v.flights[k].pc = "answered" =>
              Fresh(files, since, v.flights[k])
         /\ t.flights[i].kind = "cmp" /\ t.flights[i].pc = "answered" /\ Pending(v, {"cmp"}) = {} =>
              Fresh(files, since, t.flights[i])
<1>1. /\ \A k \in DOMAIN v.flights :
           /\ Moved(k, i) \in DOMAIN t.flights /\ Moved(k, i) # i
           /\ v.flights[k] = t.flights[Moved(k, i)]
      /\ \A j \in DOMAIN t.flights : j # i => \E k \in DOMAIN v.flights : j = Moved(k, i)
      /\ DOMAIN t.flights \subseteq Nat /\ DOMAIN v.flights \subseteq Nat
  BY FlightDomain DEF Left
<1>2. /\ \A k \in DOMAIN v.flights : k \in Pending(v, {"cmp"}) <=> Moved(k, i) \in Pending(t, {"cmp"})
      /\ \A j \in Pending(t, {"cmp"}) : j # i => \E k \in Pending(v, {"cmp"}) : j = Moved(k, i)
      /\ Pending(v, {"cmp"}) \subseteq DOMAIN v.flights
      /\ Pending(t, {"cmp"}) \subseteq DOMAIN t.flights
  BY <1>1 DEF Pending
<1>3. i \in Pending(t, {"cmp"}) => \A j \in Pending(t, {"cmp"}) : j >= i
  BY DEF Rivals, Pending
<1>4. ASSUME NEW k, Newest(v, k, "cmp")
      PROVE  Newest(t, Moved(k, i), "cmp") /\ v.flights[k] = t.flights[Moved(k, i)]
  <2>1. k \in DOMAIN v.flights /\ Moved(k, i) \in Pending(t, {"cmp"})
    BY <1>2, <1>4 DEF Newest
  <2>2. ASSUME NEW j \in Pending(t, {"cmp"})
        PROVE  j <= Moved(k, i)
    <3>1. CASE j = i
      <4>1. Moved(k, i) >= i /\ Moved(k, i) \in Nat /\ i \in Nat
        BY <1>1, <1>2, <1>3, <2>1, <2>2, <3>1
      <4>. QED
        BY <3>1, <4>1
    <3>2. CASE j # i
      <4>1. PICK l \in Pending(v, {"cmp"}) : j = Moved(l, i)
        BY <1>2, <3>2
      <4>. QED
        BY <1>2, <1>4, <2>1, <4>1 DEF Newest, Left
    <3>. QED
      BY <3>1, <3>2
  <2>. QED
    BY <1>1, <2>1, <2>2 DEF Newest
<1>5. \A k : Newest(v, k, "cmp") /\ v.flights[k].pc = "answered" => Fresh(files, since, v.flights[k])
  BY <1>4 DEF CmpFresh
<1>6. ASSUME t.flights[i].kind # "cmp"
      PROVE  CmpFresh(v, files, since)
  <2>1. i \notin Pending(t, {"cmp"})
    BY <1>6 DEF Pending
  <2>2. Pending(v, {"cmp"}) = {} => Pending(t, {"cmp"}) = {}
    BY <1>2, <2>1
  <2>. QED
    BY <1>5, <2>2 DEF CmpFresh
<1>7. ASSUME t.flights[i].kind = "cmp", t.flights[i].pc = "answered", Pending(v, {"cmp"}) = {}
      PROVE  Fresh(files, since, t.flights[i])
  <2>1. i \in Pending(t, {"cmp"}) /\ \A j \in Pending(t, {"cmp"}) : j = i
    BY <1>2, <1>7 DEF Pending
  <2>2. Newest(t, i, "cmp")
    BY <1>1, <2>1 DEF Newest
  <2>. QED
    BY <1>7, <2>2 DEF CmpFresh
<1>. QED
  BY <1>5, <1>6, <1>7

LEMMA AfterChangeUndisturbed ==
  ASSUME NEW t, TabOK(t), NEW files, NEW u, u = AfterChange(t, files)
  PROVE  Undisturbed(t, u) /\ DOMAIN u = TabFields
<1>. DEFINE old == {i \in Pending(t, {"data", "cmp", "mask"}) :
                      t.flights[i].pc = "answered" /\ t.flights[i].answer # AnswerTo(files, t.flights[i])}
            v == [t EXCEPT !.cache = <<>>, !.tidy = @ /\ old = {}]
<1>1. u = fetchMask(fetchData(v))
  BY DEF AfterChange
<1>. HIDE DEF old
<1>2. DOMAIN t = TabFields /\ AreFlights(t.flights) /\ t.tidy \in BOOLEAN
  BY DEF TabOK, Flags
<1>3. Changes(t, v, {"cache", "tidy"}) /\ v.tidy = (t.tidy /\ old = {})
  BY <1>2 DEF Changes, TabFields
<1>. HIDE DEF v
<1>4. /\ v.flights = t.flights /\ v.sel = t.sel /\ v.dataCmp = t.dataCmp /\ DOMAIN v = TabFields
      /\ v.tidy \in BOOLEAN /\ \A flag \in Flags \ {"tidy"} : v[flag] = t[flag]
  BY <1>2, <1>3 DEF Changes, TabFields, Flags
<1>5. TabOK(v)
  <2>1. \A flag \in Flags : v[flag] = t[flag] \/ v[flag] \in BOOLEAN
    BY <1>4 DEF Flags
  <2>. QED
    BY <1>2, <1>4, <2>1, TabStays
<1>6. Undisturbed(t, v)
  BY <1>3, <1>4, SameUndisturbed
<1>7. Undisturbed(v, u) /\ TabOK(u)
  BY <1>1, <1>5, FetchesUndisturbed
<1>. QED
  BY <1>6, <1>7, UndisturbedTwice DEF TabOK

LEMMA RemovedUndisturbed ==
  ASSUME NEW t, TabOK(t), NEW u, u = Removed(t)
  PROVE  Undisturbed(t, u) /\ DOMAIN u = TabFields
<1>. DEFINE v == AfterChange(t, rows)
<1>1. Undisturbed(t, v) /\ DOMAIN v = TabFields
  BY AfterChangeUndisturbed
<1>2. u = [v EXCEPT !.removing = FALSE]
  BY DEF Removed
<1>. HIDE DEF v
<1>3. DOMAIN u = TabFields /\ u.flights = v.flights /\ u.dataCmp = v.dataCmp /\ u.tidy = v.tidy
  BY <1>1, <1>2 DEF TabFields
<1>4. Undisturbed(v, u)
  BY <1>3, SameUndisturbed
<1>. QED
  BY <1>1, <1>3, <1>4, UndisturbedTwice

\* The rests of handlers that leave the comparison diagram alone.
LEMMA RestUndisturbed ==
  ASSUME NEW v, TabOK(v), NEW f, f.kind \in Kinds \ {"cmp"},
         NEW u \in {Continue(v, f), GiveUp(v, f)}
  PROVE  Undisturbed(v, u) /\ DOMAIN u = TabFields
<1>1. DOMAIN v = TabFields /\ AreFlights(v.flights) /\ v.tidy \in BOOLEAN
  BY DEF TabOK, Flags
<1>2. ASSUME NEW w, Changes(v, w, TabFields \ {"sel", "flights", "dataCmp", "tidy"}),
             \A flag \in Flags : w[flag] = v[flag] \/ w[flag] \in BOOLEAN
      PROVE  Undisturbed(v, w) /\ TabOK(w)
  <2>1. /\ DOMAIN w = TabFields /\ w.sel = v.sel /\ w.flights = v.flights
        /\ w.dataCmp = v.dataCmp /\ w.tidy = v.tidy
    BY <1>2 DEF Changes, TabFields
  <2>. QED
    BY <1>1, <1>2, <2>1, SameUndisturbed, TabStays
<1>3. CASE f.kind \in {"data", "mask", "list"}
  <2>1. /\ DOMAIN u = TabFields /\ u.flights = v.flights /\ u.dataCmp = v.dataCmp
        /\ u.tidy => v.tidy
    <3>1. CASE u = Continue(v, f)
      BY <1>1, <1>3, <3>1 DEF Continue, TabFields
    <3>2. CASE u = GiveUp(v, f)
      BY <1>1, <1>3, <3>2 DEF GiveUp, TabFields
    <3>. QED
      BY <3>1, <3>2
  <2>. QED
    BY <2>1, SameUndisturbed
<1>4. CASE f.kind = "save" /\ u = Continue(v, f)
  <2>. DEFINE r == resetSelection(v)
              w == [r EXCEPT !.saving = FALSE]
  <2>1. u = AfterChange(w, rows)
    BY <1>4 DEF Continue
  <2>2. Changes(v, r, Unseen)
    <3>1. CASE Viewing(v)
      BY <1>1, <3>1, PickUnseen DEF resetSelection
    <3>2. CASE ~Viewing(v)
      BY <1>1, <3>2 DEF resetSelection, Changes
    <3>. QED
      BY <3>1, <3>2
  <2>. HIDE DEF r
  <2>3. /\ Changes(v, w, TabFields \ {"sel", "flights", "dataCmp", "tidy"})
        /\ \A flag \in Flags : w[flag] = v[flag] \/ w[flag] \in BOOLEAN
    BY <2>2 DEF Changes, TabFields, Unseen, Flags
  <2>. HIDE DEF w
  <2>4. Undisturbed(v, w) /\ TabOK(w)
    BY <1>2, <2>3
  <2>. QED
    BY <2>1, <2>4, AfterChangeUndisturbed, UndisturbedTwice
<1>5. CASE f.kind \in {"save", "remove"} /\ u = GiveUp(v, f)
  <2>1. /\ DOMAIN u = TabFields /\ u.flights = v.flights /\ u.dataCmp = v.dataCmp
        /\ u.tidy => v.tidy
    BY <1>1, <1>5 DEF GiveUp, TabFields
  <2>. QED
    BY <2>1, SameUndisturbed
<1>6. CASE f.kind = "remove" /\ u = Continue(v, f)
  <2>. DEFINE again == fetchMaskList(v, "relist")
  <2>1. Undisturbed(v, again) /\ TabOK(again)
    BY ListUndisturbed
  <2>2. u = Removed(again) \/ u = again
    BY <1>6 DEF Continue
  <2>. HIDE DEF again
  <2>. QED
    BY <2>1, <2>2, RemovedUndisturbed, UndisturbedTwice DEF TabOK
<1>7. CASE f.kind = "relist"
  <2>. DEFINE w == [v EXCEPT !.list = f.answer, !.listLoading = FALSE]
              x == [v EXCEPT !.listError = TRUE, !.listLoading = FALSE]
  <2>1. u = Removed(w) \/ u = Removed(x)
    BY <1>7 DEF Continue, GiveUp
  <2>2. /\ Changes(v, w, TabFields \ {"sel", "flights", "dataCmp", "tidy"})
        /\ \A flag \in Flags : w[flag] = v[flag] \/ w[flag] \in BOOLEAN
    BY <1>1 DEF Changes, TabFields, Flags
  <2>3. /\ Changes(v, x, TabFields \ {"sel", "flights", "dataCmp", "tidy"})
        /\ \A flag \in Flags : x[flag] = v[flag] \/ x[flag] \in BOOLEAN
    BY <1>1 DEF Changes, TabFields, Flags
  <2>. HIDE DEF w, x
  <2>4. Undisturbed(v, w) /\ TabOK(w) /\ Undisturbed(v, x) /\ TabOK(x)
    BY <1>2, <2>2, <2>3
  <2>. QED
    BY <2>1, <2>4, RemovedUndisturbed, UndisturbedTwice
<1>. QED
  BY <1>3, <1>4, <1>5, <1>6, <1>7 DEF Kinds

LEMMA LandFresh ==
  ASSUME Good(tab, rows), CInv, Land(Kinds) \/ Fail(Kinds)
  PROVE  CInv'
<1>1. rows' = rows /\ changed' = changed
  BY DEF Land, Fail
<1>2. PICK i \in Pending(tab, Kinds) :
        \/ /\ tab.flights[i].pc = "answered"
           /\ tab' = Render(Continue(Landed(i), tab.flights[i]))
        \/ tab' = Render(GiveUp(Landed(i), tab.flights[i]))
  BY DEF Land, Fail
<1>. DEFINE f == tab.flights[i]
            v == Landed(i)
            first == \A j \in Pending(tab, Rivals(f.kind)) : j >= i
<1>3. /\ DOMAIN tab = TabFields /\ AreFlights(tab.flights) /\ i \in DOMAIN tab.flights
      /\ f.kind \in Kinds
  BY DEF Good, TabOK, Pending
<1>4. TabOK(v)
  BY <1>3, LandedOK DEF AfterLeaving
<1>5. /\ Left(tab, v, i) /\ v.dataCmp = tab.dataCmp /\ (v.tidy => tab.tidy /\ first)
  <2>. DEFINE new == RemoveAt(tab.flights, i)
  <2>1. v = [tab EXCEPT !.flights = new, !.tidy = @ /\ first]
    BY DEF Landed
  <2>2. /\ AreFlights(new)
        /\ \A k \in DOMAIN new :
             Moved(k, i) \in DOMAIN tab.flights \ {i} /\ new[k] = tab.flights[Moved(k, i)]
        /\ \A j \in DOMAIN tab.flights \ {i} : \E k \in DOMAIN new : j = Moved(k, i)
        /\ \A k, l \in DOMAIN new : k <= l <=> Moved(k, i) <= Moved(l, i)
    BY SMTT(30), <1>3, RemoveFlight
  <2>. HIDE DEF new, first, v, f
  <2>3. v.flights = new /\ v.dataCmp = tab.dataCmp /\ v.tidy = (tab.tidy /\ first)
    BY <1>3, <2>1 DEF TabFields
  <2>. QED
    BY <2>2, <2>3 DEF Left
<1>. HIDE DEF v
<1>6. ASSUME v.tidy
      PROVE  /\ f.kind # "cmp" => CmpFresh(v, rows, changed)
             /\ \A k : Newest(v, k, "cmp") /\ v.flights[k].pc = "answered" =>
                  Fresh(rows, changed, v.flights[k])
             /\ f.kind = "cmp" /\ f.pc = "answered" /\ Pending(v, {"cmp"}) = {} =>
                  Fresh(rows, changed, f)
  <2>1. CmpFresh(tab, rows, changed)
    BY <1>5, <1>6 DEF CInv
  <2>. QED
    BY <1>3, <1>5, <1>6, <2>1, LeftFresh
<1>7. ASSUME NEW u, DOMAIN u = TabFields, u.tidy => CmpFresh(u, rows, changed), tab' = Render(u)
      PROVE  CInv'
  <2>1. Undisturbed(u, tab')
    BY <1>7, RenderUndisturbed
  <2>. QED
    BY <1>1, <1>7, <2>1, UndisturbedFresh DEF CInv, Undisturbed
<1>8. CASE f.kind # "cmp"
  <2>1. PICK u \in {Continue(v, f), GiveUp(v, f)} : tab' = Render(u)
    BY <1>2 DEF v
  <2>. HIDE DEF f
  <2>2. Undisturbed(v, u) /\ DOMAIN u = TabFields
    BY <1>3, <1>4, <1>8, <2>1, RestUndisturbed
  <2>3. u.tidy => CmpFresh(u, rows, changed)
    BY <1>6, <1>8, <2>2, UndisturbedFresh DEF Undisturbed
  <2>. QED
    BY <1>7, <2>1, <2>2, <2>3
<1>9. CASE f.kind = "cmp" /\ f.pc = "answered" /\ tab' = Render(Continue(v, f))
  <2>. DEFINE u == Continue(v, f)
              shown == Shown(f.key, f.answer)
              cache == Put(v.cache, f.key, f.answer)
  <2>1. u = [v EXCEPT !.dataCmp = shown, !.cmpLoading = FALSE, !.cache = cache]
    BY <1>9 DEF Continue
  <2>2. shown.key = f.key /\ shown.answer = f.answer
    BY DEF Shown
  <2>. HIDE DEF shown, cache, u
  <2>3. /\ DOMAIN u = TabFields /\ u.flights = v.flights /\ u.dataCmp = shown /\ u.tidy = v.tidy
    BY <1>4, <2>1 DEF TabFields, TabOK
  <2>4. Pending(u, {"cmp"}) = Pending(v, {"cmp"})
    BY <2>3, SameFlights
  <2>5. \A k : Newest(u, k, "cmp") <=> Newest(v, k, "cmp")
    BY <2>4 DEF Newest
  <2>6. Fresh(rows, changed, f) => Fresh(rows, changed, shown)
    BY <2>2 DEF Fresh
  <2>7. u.tidy => CmpFresh(u, rows, changed)
    BY <1>6, <1>9, <2>3, <2>4, <2>5, <2>6 DEF CmpFresh
  <2>. QED
    BY <1>7, <1>9, <2>3, <2>7 DEF u
<1>10. CASE f.kind = "cmp" /\ tab' = Render(GiveUp(v, f))
  <2>. DEFINE u == GiveUp(v, f)
  <2>1. u = [v EXCEPT !.dataCmp = Nothing, !.cmpLoading = FALSE]
    BY <1>10 DEF GiveUp
  <2>. HIDE DEF u
  <2>3. /\ DOMAIN u = TabFields /\ u.flights = v.flights /\ u.dataCmp = Nothing /\ u.tidy = v.tidy
    BY <1>4, <2>1 DEF TabFields, TabOK
  <2>4. Pending(u, {"cmp"}) = Pending(v, {"cmp"})
    BY <2>3, SameFlights
  <2>5. \A k : Newest(u, k, "cmp") <=> Newest(v, k, "cmp")
    BY <2>4 DEF Newest
  <2>7. u.tidy => CmpFresh(u, rows, changed)
    BY <1>6, <2>3, <2>4, <2>5 DEF CmpFresh
  <2>. QED
    BY <1>7, <1>10, <2>3, <2>7 DEF u
<1>. QED
  BY <1>2, <1>8, <1>9, <1>10 DEF v

LEMMA ComparisonInitial == Init => CInv
<1>. SUFFICES ASSUME Init
              PROVE  CInv
  OBVIOUS
<1>1. tab.dataCmp = Nothing /\ DOMAIN tab.flights = {}
  BY EmptySeq DEF Init, Tab
<1>. QED
  BY <1>1 DEF CInv, CmpFresh, Newest, Pending

LEMMA ComparisonInductive == IInv /\ CInv /\ [Next]_vars => CInv'
<1>. SUFFICES ASSUME IInv, CInv, [Next]_vars
              PROVE  CInv'
  OBVIOUS
<1>1. CASE MetaDataLoaded
  <2>1. tab = Tab(FirstSelection)
    BY <1>1 DEF MetaDataLoaded, IInv
  <2>. QED
    BY <1>1, <2>1, MountedFresh
<1>2. CASE MetaDataFailed \/ retryLoad
  BY <1>2 DEF MetaDataFailed, retryLoad, CInv
<1>3. CASE User
  <2>1. page = "shell"
    BY <1>3 DEF User, SelectProject, SelectGroup, SelectPlot, selectAdjacentPlot, SelectSensor,
       SelectAggregation, SelectQuality, SelectSensorCmp, SelectPlotCmp, selectAdjacentPlotCmp,
       SwitchOption, ChooseOneOf, PickStart, PickEnd, Escape, Retry, maskSelectionSave,
       OpenMaskList, CloseMaskList, RetryMaskList, removeRow, Clicks
  <2>2. Good(tab, rows)
    BY <2>1 DEF IInv
  <2>. QED
    BY <1>3, <2>2, ChoicesFresh, UserFresh DEF User
<1>4. CASE Serve(Kinds) \/ Land(Kinds) \/ Fail(Kinds)
  <2>1. Pending(tab, Kinds) # {}
    BY <1>4 DEF Serve, Land, Fail
  <2>2. tab # Tab(FirstSelection)
    <3>1. SUFFICES ASSUME tab = Tab(FirstSelection)
                   PROVE  FALSE
      OBVIOUS
    <3>2. DOMAIN tab.flights = {}
      BY <3>1, EmptySeq DEF Tab
    <3>. QED
      BY <2>1, <3>2 DEF Pending
  <2>3. Good(tab, rows)
    BY <2>2 DEF IInv
  <2>. QED
    BY <1>4, <2>3, ServeFresh, LandFresh
<1>5. CASE UNCHANGED vars
  BY <1>5 DEF vars, CInv
<1>. QED
  BY <1>1, <1>2, <1>3, <1>4, <1>5 DEF Next

LEMMA ComparisonAlways == Spec => []CInv
<1>1. Init => CInv
  BY ComparisonInitial
<1>2. IInv /\ CInv /\ [Next]_vars => CInv'
  BY ComparisonInductive
<1>. QED
  BY <1>1, <1>2, Always, PTL DEF Spec

-----------------------------------------------------------------------------
(* The theorems                                                            *)

\* What the invariant says of the tab before and after the shell is mounted.
LEMMA TabAlways ==
  ASSUME IInv
  PROVE  TabOK(tab) /\ LoadingOK(tab) /\ BusyOK(tab) /\ StylesOK(tab)
<1>1. CASE page = "shell"
  BY <1>1 DEF IInv, Good
<1>2. CASE page # "shell"
  BY <1>2, FirstOK, FreshOK DEF IInv
<1>. QED
  BY <1>1, <1>2

\* Whatever the projects, groups, plots and sensors of the model are, and however choices
\* cascade through the watchers of Shell.vue, what is selected is offered.
THEOREM OfferedCorrect == Spec => []SelectionOffered
<1>1. IInv => SelectionOffered
  <2>. SUFFICES ASSUME IInv
                PROVE  SelectionOffered
    OBVIOUS
  <2>1. SelOK(tab.sel)
    BY TabAlways DEF TabOK
  <2>. QED
    BY <2>1 DEF SelOK, PlaceOK, SensorsOK, SelectionOffered
<1>. QED
  BY <1>1, Always, PTL

\* With any number of requests under way, answered or failing in any order, a flag of
\* Shell.vue or MaskListDialog.vue is set only while the handler that resets it is
\* under way; saving and removing are set as long as it is.
THEOREM FlagsCorrect == Spec => []FlagsEnd
<1>1. IInv => FlagsEnd
  <2>. SUFFICES ASSUME IInv
                PROVE  FlagsEnd
    OBVIOUS
  <2>. QED
    BY TabAlways DEF LoadingOK, BusyOK, FlagsEnd
<1>. QED
  BY <1>1, Always, PTL

\* Whatever was chosen, saved, removed and fetched before, and whatever failed: when no
\* request is under way and no answer was overtaken, the diagram, the masks and the cache
\* of Shell.vue are those of the selection and of the mask files.  The comparison diagram
\* is that of the selection, and of the mask files as far as no mask of a series it shows
\* has changed since it was fetched.
THEOREM ViewCorrect == Spec => []TidyViewCurrent
<1>1. IInv /\ CInv => TidyViewCurrent
  <2>. SUFFICES ASSUME IInv, CInv, Quiet, tab.tidy
                PROVE  TidyViewCurrent
    BY DEF TidyViewCurrent
  <2>1. Good(tab, rows) /\ tab.flights = <<>>
    BY DEF Quiet, IInv
  <2>2. /\ AnswersOK(tab, rows) /\ DataOK(tab, rows) /\ MaskOK(tab, rows) /\ CmpOK(tab)
        /\ SelOK(tab.sel)
    BY <2>1 DEF Good, ViewOK, TabOK
  <2>3. DOMAIN tab.flights = {}
    BY <2>1, EmptySeq
  <2>4. ~Outdated(tab) /\ \A kinds : Pending(tab, kinds) = {}
    BY <2>3 DEF Outdated, Pending
  <2>. DEFINE sel == tab.sel
              current(key, kind) == AnswerTo(rows, [kind |-> kind, key |-> key])
  <2>5. tab.data # Nothing => tab.data = Shown(DataKey(sel), current(DataKey(sel), "data"))
    BY <2>2, <2>4 DEF DataOK, DataShown, Current
  <2>6. tab.data = Nothing => tab.dataError \/ sel.sensor = None
    <3>1. tab.data = Nothing => tab.dataError \/ sel.plot = None \/ sel.sensor = None
      BY <2>2, <2>4 DEF DataOK, DataShown
    <3>2. ASSUME sel.plot = None
          PROVE  sel.sensor = None
      <4>1. sensorOptions(sel) = <<>>
        BY <3>2 DEF sensorOptions, HasSensors
      <4>2. ToSet(sensorOptions(sel)) = {}
        BY <4>1, EmptySeq DEF ToSet
      <4>. QED
        BY <2>2, <4>2 DEF SelOK, SensorsOK
    <3>. QED
      BY <3>1, <3>2
  <2>7. ASSUME tab.mask # Nothing
        PROVE  /\ tab.mask.key = At(sel.plot, sel.sensor)
               /\ MasksDrawn(tab) = IF sel.showMasks
                                     THEN UNION {Covered(i) : i \in current(tab.mask.key, "mask")}
                                     ELSE {}
    <3>. DEFINE key == At(sel.plot, sel.sensor)
    <3>1. tab.mask = Shown(key, MasksOf(rows, key))
      BY <2>2, <2>4, <2>7 DEF MaskOK, MaskShown
    <3>. HIDE DEF key
    <3>2. tab.mask.key = key /\ tab.mask.answer = MasksOf(rows, key)
      BY <3>1 DEF Shown
    <3>3. current(key, "mask") = MasksOf(rows, key)
      BY DEF AnswerTo
    <3>. HIDE DEF current
    <3>4. MasksDrawn(tab) = IF sel.showMasks
                             THEN UNION {Covered(i) : i \in current(tab.mask.key, "mask")}
                             ELSE {}
      BY <2>7, <3>2, <3>3 DEF MasksDrawn
    <3>. QED
      BY <3>2, <3>4 DEF key
  <2>8. tab.dataCmp # Nothing => sel.cmp # None /\ sel.separate /\ tab.dataCmp.key = CmpKey(sel)
    BY <2>2, <2>4 DEF CmpOK, CmpMatches
  <2>10. ASSUME tab.dataCmp # Nothing, NEW k \in DOMAIN tab.dataCmp.key.series,
                tab.dataCmp.key.series[k] \notin changed
         PROVE  tab.dataCmp.answer[k] = current(tab.dataCmp.key, "cmp")[k]
    <3>1. Fresh(rows, changed, tab.dataCmp)
      BY <2>4, <2>10 DEF CInv, CmpFresh
    <3>2. current(tab.dataCmp.key, "cmp") = Current(rows, tab.dataCmp.key)
      BY DEF Current, AnswerTo
    <3>. QED
      BY <2>10, <3>1, <3>2 DEF Fresh
  <2>9. \A key \in DOMAIN tab.cache : tab.cache[key] = current(key, "data")
    BY <2>2, <2>4 DEF AnswersOK, CacheOK, Current
  <2>. HIDE DEF current
  <2>. QED
    BY <2>5, <2>6, <2>7, <2>8, <2>9, <2>10 DEF TidyViewCurrent, current
<1>. QED
  BY <1>1, Always, ComparisonAlways, PTL

\* Whatever is selected, with or without comparison, fetchData and fetchDataCmp ask for
\* as many lines as Viewer.vue has styles for.
THEOREM StylesCorrect == Spec => []EveryLineStyled
<1>1. IInv => EveryLineStyled
  <2>. SUFFICES ASSUME IInv
                PROVE  EveryLineStyled
    OBVIOUS
  <2>1. /\ tab.data # Nothing => DataStyled(tab.data.key)
        /\ tab.dataCmp # Nothing => CmpStyled(tab.dataCmp.key)
    BY TabAlways DEF StylesOK
  <2>2. \A n \in {1, 2, 4} : StyledColumns(n + 1) = n + 1
    BY DEF StyledColumns
  <2>3. \A n \in {1, 2} : StyledColumnsCmp(n + 1) = n + 1
    BY DEF StyledColumnsCmp
  <2>. QED
    BY <2>1, <2>2, <2>3 DEF DataStyled, CmpStyled, EveryLineStyled
<1>. QED
  BY <1>1, Always, PTL

=============================================================================
