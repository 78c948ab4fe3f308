--------------------------- MODULE AppMonitoring ---------------------------
(***************************************************************************)
(* The page for monitoring of the web application (MonitoringLayout): a set *)
(* of plots and sensors is chosen, some of them may be, and the newest      *)
(* values are asked for and coloured.                                      *)
(***************************************************************************)
EXTENDS AppStore, Integers

CONSTANTS
  MSets,      \* the sets
  SetPlots,   \* set -> its plots, in order
  SetSensors, \* set -> its sensors, in order
  Limits,     \* sensor -> [ok, warn], each an interval or None
  Newest      \* plot -> sensor -> [value, age] of its newest row or None; value may be None

ASSUME SetsAssumption ==
  /\ None \notin MSets
  /\ \A x \in MSets : SetPlots[x] \in Seq(ToSet(SetPlots[x])) /\ SetSensors[x] \in Seq(ToSet(SetSensors[x]))

\* A row has a time.
ASSUME NewestAssumption ==
  \A x \in MSets : \A plot \in ToSet(SetPlots[x]), sensor \in ToSet(SetSensors[x]) :
    Newest[plot][sensor] = None \/ Newest[plot][sensor].age \in Int

MonitoringPage ==
  [name |-> "monitoring", set |-> None, plots |-> None, sensors |-> None, data |-> None,
   loading |-> FALSE]

openMonitoring(t) == Route(t, MonitoringPage)

\* What is asked for: all of the set unless some are selected.
wantedPlots(p) == IF p.plots = None THEN SetPlots[p.set] ELSE p.plots
wantedSensors(p) == IF p.sensors = None THEN SetSensors[p.set] ELSE p.sensors

OnMonitoring == OnPage("monitoring")
HasSet == OnMonitoring /\ tab.page.set # None

\* Mutant: the table of the old set stays.
KeepsTable ==
  /\ Click /\ OnMonitoring
  /\ \E x \in MSets \ {tab.page.set} :
       tab' = UntidyIf([tab EXCEPT !.page.set = x, !.page.plots = None, !.page.sensors = None],
                       Pending(tab, {"monitoring"}) # {})

\* watch selectedSet: a request under way is not cancelled.
selectSet ==
  /\ Click /\ OnMonitoring
  /\ \E x \in MSets \ {tab.page.set} :
       tab' = UntidyIf([tab EXCEPT !.page.set = x, !.page.plots = None, !.page.sensors = None,
                                   !.page.data = None],
                       Pending(tab, {"monitoring"}) # {})

\* A choice of several: one more or one less, or cleared.
Picked(model, offered) ==
  LET now == IF model = None THEN <<>> ELSE model
      one(x) == IF x \in ToSet(now) THEN Among(now, ToSet(now) \ {x}) ELSE Append(now, x)
  IN  {one(x) : x \in ToSet(offered)} \cup (IF model = None THEN {} ELSE {None})

selectMonitoredPlots ==
  /\ Click /\ HasSet
  /\ \E v \in Picked(tab.page.plots, SetPlots[tab.page.set]) : tab' = [tab EXCEPT !.page.plots = v]

selectMonitoredSensors ==
  /\ Click /\ HasSet
  /\ \E v \in Picked(tab.page.sensors, SetSensors[tab.page.set]) : tab' = [tab EXCEPT !.page.sensors = v]

\* The button is not active while it is loading.
refreshMonitoring ==
  /\ Click /\ HasSet /\ ~tab.page.loading
  /\ tab' = Send([tab EXCEPT !.page.loading = TRUE], "monitoring",
                 [plots |-> wantedPlots(tab.page), sensors |-> wantedSensors(tab.page)])

\* The server refuses a request without plots or without sensors.
getStrings(names) == names # <<>>

MonitoringLanded(t, f) ==
  LET q == f.key
      refused == ~(getStrings(q.plots) /\ getStrings(q.sensors))
  IN  [t EXCEPT !.page.loading = FALSE, !.page.data = IF refused THEN None ELSE q]
MonitoringFailed(t, f) == [t EXCEPT !.page.loading = FALSE, !.page.data = None]

LandMonitoring == OnMonitoring /\ LandWith({"monitoring"}, LAMBDA f : f.key, MonitoringLanded)
FailMonitoring == OnMonitoring /\ FailWith({"monitoring"}, MonitoringFailed)

MonitoringNext ==
  \/ selectSet \/ selectMonitoredPlots \/ selectMonitoredSensors \/ refreshMonitoring
  \/ LandMonitoring \/ FailMonitoring

-----------------------------------------------------------------------------
(* Colours                                                                 *)

\* For each sensor of the data that the set has: its time and its value.
sensorColumns(p) ==
  LET known == Among(p.data.sensors, ToSet(SetSensors[p.set]))
  IN  [k \in 1..(2 * Len(known)) |->
         IF k % 2 = 1 THEN [sensor |-> known[(k + 1) \div 2], kind |-> "datetime"]
         ELSE [sensor |-> known[k \div 2], kind |-> "number"]]

\* Older than it should be, or newer than now by more than the zones of time explain.
deltaWarn(age) == age > 100000 \/ age < -1440
deltaError(age) == age > 200000 \/ age < -2880

Within(range, value) == range[1] <= value /\ value <= range[2]

\* ok, warn or error of a value; what has no limits is ok.
Grade(sensor, value) ==
  LET l == Limits[sensor]
      meets(range) == range # None /\ Within(range, value)
  IN  IF meets(l.ok) \/ (l.ok = None /\ l.warn = None) THEN "ok"
      ELSE IF meets(l.warn) THEN "warn" ELSE "error"

\* The value, of a row or without one.
Missing(m) == m = None \/ m.value = None

\* The time of a missing row is 0, which is long ago.
cellClass(column, m) ==
  CASE column.kind = "number" /\ Missing(m) -> <<"none", FALSE>>
    [] column.kind = "number" /\ ~Missing(m) -> <<Grade(column.sensor, m.value), deltaWarn(m.age)>>
    [] column.kind = "datetime" /\ (m = None \/ deltaError(m.age)) -> <<"error", FALSE>>
    [] column.kind = "datetime" /\ m # None /\ deltaWarn(m.age) /\ ~deltaError(m.age) -> <<"warn", FALSE>>
    [] OTHER -> <<"ok", FALSE>>

\* Mutant: a warning replaces an error found before.
LastWins(c, column, m) ==
  IF m = None \/ cellClass(column, m)[1] \in {"ok", "none"} THEN c ELSE cellClass(column, m)[1]

\* One step of plotClass, which has its own copy of the conditions: missing values do not
\* count, and an error stays.
Worse(c, column, m) ==
  LET number == column.kind = "number"
      missing == m = None \/ (number /\ Missing(m))
      found == IF number THEN Grade(column.sensor, m.value)
               ELSE IF ~deltaWarn(m.age) THEN "ok" ELSE IF deltaError(m.age) THEN "error" ELSE "warn"
  IN  CASE ~missing /\ found = "error" -> "error"
        [] ~missing /\ found = "warn" /\ c = "ok" -> "warn"
        [] OTHER -> c

plotClass(p, plot) ==
  LET columns == sensorColumns(p)
      class[n \in 0..Len(columns)] ==
        IF n = 0 THEN "ok" ELSE Worse(class[n - 1], columns[n], Newest[plot][columns[n].sensor])
  IN  class[Len(columns)]

-----------------------------------------------------------------------------

\* Unless the set was changed while its data were under way, the table is of the set, all
\* its columns are known, and the button is busy exactly while a request is under way.
MonitoringExact ==
  LET p == tab.page
  IN  OnMonitoring =>
        /\ p.loading <=> Pending(tab, {"monitoring"}) # {}
        /\ tab.tidy /\ p.data # None =>
             /\ ToSet(p.data.plots) \subseteq ToSet(SetPlots[p.set])
             /\ Len(sensorColumns(p)) = 2 * Len(p.data.sensors)

\* A plot is coloured as the worst of its cells that are not missing.
PlotClassExact ==
  HasSet /\ tab.page.data # None =>
    \A plot \in ToSet(tab.page.data.plots) :
      LET cells == {<<column, Newest[plot][column.sensor]>> : column \in ToSet(sensorColumns(tab.page))}
          found == {cellClass(c[1], c[2])[1] : c \in {d \in cells : d[2] # None}}
      IN  plotClass(tab.page, plot) = CASE "error" \in found -> "error"
                                        [] "error" \notin found /\ "warn" \in found -> "warn"
                                        [] OTHER -> "ok"
=============================================================================
