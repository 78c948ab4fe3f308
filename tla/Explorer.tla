------------------------------ MODULE Explorer ------------------------------
(***************************************************************************)
(* The explorer of the web client (webcontent/visualisation_meta): what is  *)
(* selected - group, plots and stations, sensors, aggregation, time, type   *)
(* of view - determines a list of views.  Whenever the list changes a new   *)
(* cycle begins and a few runners fetch the views one after the other; a    *)
(* runner ends when its cycle is not the current one any more.              *)
(***************************************************************************)
EXTENDS Browser

CONSTANTS
  All,          \* "*": no restriction
  EProjects,    \* the projects, in order
  EGroups,      \* project -> its groups
  EPlots,       \* project -> its plots, in order
  EDefault,     \* project -> its default group or "*"
  GroupOfPlot,  \* plot -> its group
  StationsAt,   \* plot -> the stations of a plot, in order
  SensorsAt,    \* plot or station -> its sensors
  ESensors,     \* the sensors, in order
  Raw,          \* the sensors without aggregation
  Defaults,     \* the default sensors, in order
  Years,        \* the years of the view
  MaxViews,     \* the most views at a time
  Parallel      \* the runners of a cycle

\* A start and an end: year, month, day; "*" is no start and None no end.
FirstTime ==
  [year |-> All, month |-> All, day |-> All, endYear |-> None, endMonth |-> None, endDay |-> None]

openExplorer(t) ==
  Send(Leave(t, [name |-> "explorer", projects |-> <<>>, project |-> None, message |-> "query",
                 meta |-> None, group |-> All, plotIDs |-> <<All>>, plotstations |-> <<>>,
                 sensorIDs |-> <<>>, aggregation |-> "hour", time |-> FirstTime,
                 viewType |-> "diagram", option |-> 1, views |-> <<>>, done |-> 0, cycle |-> 0,
                 started |-> 0, table |-> None], {}),
       "region_json", None)

-----------------------------------------------------------------------------
(* What is offered and selected                                            *)

plots(p) ==
  IF p.group = All THEN EPlots[p.meta]
  ELSE SelectSeq(EPlots[p.meta], LAMBDA x : GroupOfPlot[x] = p.group)

\* The sensors of the selected plots; all of the project if nothing restricts them.
sensors(p) ==
  IF p.plotIDs[1] = All /\ p.group = All THEN ESensors
  ELSE LET chosen == IF p.plotIDs[1] = All THEN plots(p) ELSE p.plotIDs
       IN  SelectSeq(ESensors, LAMBDA s : \E k \in DOMAIN chosen : s \in SensorsAt[chosen[k]])

visibleSensors(p) ==
  IF p.aggregation = "raw" THEN sensors(p) ELSE SelectSeq(sensors(p), LAMBDA s : s \notin Raw)

\* visibleSensors also sets sensorIDs: those that are visible, else all defaults if one of
\* them is visible, else the first one.
visibleSensorIDs(p) ==
  LET visible == visibleSensors(p)
      kept == SelectSeq(p.sensorIDs, LAMBDA s : s \in ToSet(visible))
  IN  IF p.sensorIDs # <<>> /\ p.sensorIDs[1] = All THEN <<All>>
      ELSE IF visible = <<>> \/ kept # <<>> THEN kept
      ELSE IF ToSet(visible) \cap ToSet(Defaults) # {} THEN Defaults ELSE <<visible[1]>>

\* The stations of the selected plots: a plot with several is merged from them.
plotstations_internal(p) ==
  LET ids == IF p.plotIDs[1] = All THEN plots(p) ELSE p.plotIDs
      entry(plot, station, selected) == [plot |-> plot, station |-> station, selected |-> selected]
      of(plot) == <<entry(plot, None, TRUE)>> \o
                  (IF Len(StationsAt[plot]) <= 1 THEN <<>>
                   ELSE [k \in DOMAIN StationsAt[plot] |-> entry(plot, StationsAt[plot][k], FALSE)])
  IN  FlattenSeq([k \in DOMAIN ids |-> of(ids[k])])

processingSensors(p) ==
  LET chosen == IF p.sensorIDs # <<>> /\ p.sensorIDs[1] = All THEN ESensors ELSE p.sensorIDs
  IN  SelectSeq(chosen, LAMBDA s : s \notin Raw \/ p.aggregation = "raw")

-----------------------------------------------------------------------------
(* Time                                                                    *)

timeParameters(time) ==
  LET month == time.year # All /\ time.month # All
      day == month /\ time.day # All
      endMonth == time.endYear # None /\ time.endMonth # None
      endDay == endMonth /\ time.endDay # None
      if(condition, value) == IF condition THEN value ELSE None
  IN  [year |-> IF time.year = All THEN Min(Years) ELSE time.year,
       month |-> if(month, time.month), day |-> if(day, time.day),
       end_year |-> IF time.year = All /\ time.endYear = None THEN Max(Years) ELSE time.endYear,
       end_month |-> if(endMonth, time.endMonth), end_day |-> if(endDay, time.endDay)]

timeYearEnds(time) == IF time.year = All THEN Years ELSE {y \in Years : y >= time.year}

timeMonthEnds(time) ==
  IF \/ time.endYear = None \/ time.year = All \/ time.year # time.endYear \/ time.month = All
    THEN 1..12 ELSE time.month..12

timeDayEnds(time) ==
  IF time.endMonth = None \/ time.month = All \/ time.month # time.endMonth \/ time.day = All
    THEN 1..31 ELSE time.day..31

\* The watchers of the ends: one that is not offered any more is reset.
SettleTime(time) ==
  LET year  == IF time.endYear \in timeYearEnds(time) THEN time ELSE [time EXCEPT !.endYear = None]
      month == IF year.endMonth \in timeMonthEnds(year) THEN year ELSE [year EXCEPT !.endMonth = None]
  IN  IF month.endDay \in timeDayEnds(month) THEN month ELSE [month EXCEPT !.endDay = None]

-----------------------------------------------------------------------------
(* Views and runners                                                       *)

\* sensorNamePlotMap and sensorNameStationMap of the metadata.
Measured(p, entry, sensor) ==
  /\ entry.plot \in ToSet(EPlots[p.meta])
  /\ sensor \in SensorsAt[IF entry.station = None THEN entry.plot ELSE entry.station]

\* The views of updateViews: one for each selected plot or station and each of its sensors;
\* a table or a file is one view of all of them.
newViews(p) ==
  LET chosen == SelectSeq(p.plotstations, LAMBDA e : e.selected)
      names  == processingSensors(p)
      view(e, s) == [type |-> p.viewType, plot |-> <<e.plot, e.station>>, sensor |-> s,
                     aggregation |-> p.aggregation, time |-> timeParameters(p.time), option |-> p.option]
      ofSensor(s) == LET those == SelectSeq(chosen, LAMBDA e : Measured(p, e, s))
                     IN  [k \in DOMAIN those |-> view(those[k], s)]
      separate == FlattenSeq([k \in DOMAIN names |-> ofSensor(names[k])])
  IN  CASE p.viewType \in {"sensors", "plots"} \/ separate = <<>> -> <<>>
        [] separate # <<>> /\ p.viewType \in {"table", "csv-file"} ->
             <<[separate[1] EXCEPT !.plot = [k \in DOMAIN chosen |-> <<chosen[k].plot, chosen[k].station>>],
                                   !.sensor = names]>>
        [] OTHER -> SubSeq(separate, 1, IF Len(separate) < MaxViews THEN Len(separate) ELSE MaxViews)

\* compareViews; tables and files hold arrays, which never compare as equal.
compareViews(old, new) ==
  /\ Len(old) = Len(new)
  /\ \A k \in DOMAIN old : old[k].key = new[k] /\ new[k].type \notin {"table", "csv-file"}

\* The first view to be fetched, 0 if there is none.
NextInit(p) ==
  IF \E k \in DOMAIN p.views : p.views[k].status = "init"
    THEN CHOOSE k \in DOMAIN p.views :
           p.views[k].status = "init" /\ \A j \in 1..(k - 1) : p.views[j].status # "init"
    ELSE 0

\* taskRunner and taskRun: a file is a link and needs no fetch.
taskRunner(t, cycle) ==
  LET k == NextInit(t.page)
  IN  IF cycle # t.page.cycle \/ k = 0 THEN t
      ELSE IF t.page.viewType = "csv-file"
        THEN [t EXCEPT !.page.views[k].status = "done", !.page.done = @ + 1]
        ELSE Send([t EXCEPT !.page.views[k].status = "running"], "view",
                  [cycle |-> cycle, started |-> t.page.started, k |-> k, view |-> t.page.views[k].key])

\* The first runners of a cycle.
Run(t) == FoldFunction(LAMBDA k, s : taskRunner(s, s.page.cycle), t, [k \in 1..Parallel |-> k])

updateViews(t) ==
  LET p   == t.page
      new == newViews(p)
  IN  IF p.viewType \in {"sensors", "plots"}
        THEN [t EXCEPT !.page.views = <<>>, !.page.done = 0, !.page.cycle = @ + 1]
      ELSE IF compareViews(p.views, new) THEN t
      ELSE Run([t EXCEPT !.page.views = [k \in DOMAIN new |-> [key |-> new[k], status |-> "init"]],
                         !.page.done = 0, !.page.cycle = @ + 1, !.page.started = p.cycle + 1])

-----------------------------------------------------------------------------
(* The watchers                                                            *)

\* Mutant: the end of a view of an old cycle is counted.
TaskEndAlways(t, cycle) == [t EXCEPT !.page.done = @ + 1]

taskEnd(t, cycle) == IF cycle # t.page.cycle THEN t ELSE [t EXCEPT !.page.done = @ + 1]

\* Vue runs the watchers in the order of their declaration and then renders, which runs
\* visibleSensors: what is watched directly, the ends of time, the plot stations and the
\* sensors, and the views after each of them.
Regrouped(t, old) == t.page.meta # old.meta \/ t.page.group # old.group

WatchPlots(t, old) ==
  IF Regrouped(t, old)
    THEN [t EXCEPT !.page.plotIDs = IF plots(t.page) = <<>> THEN <<All>> ELSE <<plots(t.page)[1]>>]
    ELSE t

\* Mutant: the views are not those of the time after an end was reset.
WatchTimeOnly(t) == [t EXCEPT !.page.time = SettleTime(@)]

WatchTime(t) ==
  IF SettleTime(t.page.time) = t.page.time THEN t
  ELSE updateViews([t EXCEPT !.page.time = SettleTime(@)])

WatchPlotIDs(t, old) ==
  IF t.page.plotIDs = old.plotIDs /\ ~Regrouped(t, old) THEN t
  ELSE updateViews([t EXCEPT !.page.plotstations = plotstations_internal(t.page)])

WatchSensorIDs(t) ==
  IF visibleSensorIDs(t.page) = t.page.sensorIDs THEN t
  ELSE updateViews([t EXCEPT !.page.sensorIDs = visibleSensorIDs(t.page)])

SettleViews(t, old) ==
  WatchSensorIDs(WatchPlotIDs(WatchTime(updateViews(WatchPlots(t, old))), old))

Change(t, page) == SettleViews([t EXCEPT !.page = page], t.page)

\* A new project: running views are abandoned and the metadata are asked for.
updateMetadata(t) ==
  Send([t EXCEPT !.page.cycle = @ + 1, !.page.message = "query"], "metadata", t.page.project)

explorerAnswer(f) ==
  CASE f.kind = "region_json" -> EProjects
    [] f.kind = "metadata" -> f.key
    [] f.kind = "view" -> f.key.view

ExplorerKinds == {"region_json", "metadata", "view"}

\* Metadata are a new object, also if they are of the project shown: its watcher runs.  An
\* answer to a view sets the view it was asked for, which may be of an older list; a table
\* is shown whatever cycle it is from.
ExplorerLoaded(t, f) ==
  CASE f.kind = "region_json" ->
         updateMetadata([t EXCEPT !.page.projects = f.answer, !.page.project = f.answer[1]])
    [] f.kind = "metadata" ->
         SettleViews([t EXCEPT !.page.meta = f.answer, !.page.message = None,
                               !.page.group = EDefault[f.answer]],
                     [t.page EXCEPT !.meta = None])
    [] f.kind = "view" ->
         LET here == f.key.started = t.page.started /\ f.key.k \in DOMAIN t.page.views
             one == IF here THEN [t EXCEPT !.page.views[f.key.k].status = "done"] ELSE t
             two == IF f.key.view.type = "table" THEN [one EXCEPT !.page.table = f.answer] ELSE one
             three == [two EXCEPT !.tidy = tab.tidy]  \* views are independent of each other
         IN  taskRunner(taskEnd(three, f.key.cycle), f.key.cycle)

ExplorerNotLoaded(t, f) ==
  CASE f.kind \in {"region_json", "metadata"} -> [t EXCEPT !.page.message = "error"]
    [] f.kind = "view" ->
         LET here == f.key.started = t.page.started /\ f.key.k \in DOMAIN t.page.views
             one == IF here THEN [t EXCEPT !.page.views[f.key.k].status = "error"] ELSE t
         IN  taskRunner(taskEnd(one, f.key.cycle), f.key.cycle)

-----------------------------------------------------------------------------
(* The user                                                                *)

OnExplorer == tab.page.name = "explorer"
Ready == OnExplorer /\ tab.page.meta # None /\ tab.page.message = None

LandExplorer == OnExplorer /\ LandWith(ExplorerKinds, explorerAnswer, ExplorerLoaded)
FailExplorer == OnExplorer /\ FailWith(ExplorerKinds, ExplorerNotLoaded)

\* The view of a project is only there while there is no message of its own; the choice of
\* the project stays.
selectProject ==
  /\ Click /\ OnExplorer
  /\ \E x \in ToSet(tab.page.projects) \ {tab.page.project} :
       tab' = updateMetadata(UntidyIf([tab EXCEPT !.page.project = x],
                                      Pending(tab, {"metadata"}) # {}))

Select(choices) ==
  /\ Click /\ Ready
  /\ \E p \in choices \ {tab.page} : tab' = Change(tab, p)

selectGroup == Select({[tab.page EXCEPT !.group = g] : g \in EGroups[tab.page.meta] \cup {All}})
selectPlots ==
  Select({[tab.page EXCEPT !.plotIDs = <<x>>] : x \in ToSet(plots(tab.page)) \cup {All}})
selectSensors ==
  Select({[tab.page EXCEPT !.sensorIDs = <<x>>] : x \in ToSet(visibleSensors(tab.page)) \cup {All}})
selectAggregation == Select({[tab.page EXCEPT !.aggregation = x] : x \in {"raw", "hour"}})

\* Quality, interpolation, size and form of the diagrams, the range of the axis: each choice
\* is watched like the others.
selectOption == Select({[tab.page EXCEPT !.option = 3 - @]})
selectViewType ==
  Select({[tab.page EXCEPT !.viewType = x] : x \in {"diagram", "table", "csv-file", "sensors"}})

\* The fields of time that are not hidden.
selectTime ==
  LET time == tab.page.time
      hidden == (IF time.year = All THEN {"month", "day"} ELSE {})
                \cup (IF time.month = All THEN {"day"} ELSE {})
                \cup (IF time.endYear = None THEN {"endMonth", "endDay"} ELSE {})
                \cup (IF time.endMonth = None THEN {"endDay"} ELSE {})
      choices == [year |-> Years \cup {All}, month |-> {1, 2, All}, day |-> {1, 2, All},
                  endYear |-> timeYearEnds(time) \cup {None},
                  endMonth |-> (timeMonthEnds(time) \cap {1, 2}) \cup {None},
                  endDay |-> (timeDayEnds(time) \cap {1, 2}) \cup {None}]
  IN  /\ Ready
      /\ \E x \in DOMAIN choices \ hidden :
           Select({[tab.page EXCEPT !.time = [time EXCEPT ![x] = v]] : v \in choices[x]})

onClickPlotstation ==
  /\ Click /\ Ready
  /\ \E k \in DOMAIN tab.page.plotstations :
       tab' = updateViews([tab EXCEPT !.page.plotstations[k].selected = ~@])

\* The button X: the runners end with what they are fetching.
cancelProcessing ==
  /\ Click /\ Ready /\ tab.page.done < Len(tab.page.views)
  /\ tab' = [tab EXCEPT !.page.cycle = @ + 1, !.page.done = Len(tab.page.views)]

ExplorerNext ==
  \/ selectProject \/ selectGroup \/ selectPlots \/ selectSensors \/ selectAggregation
  \/ selectViewType \/ selectOption \/ selectTime \/ onClickPlotstation \/ cancelProcessing
  \/ LandExplorer \/ FailExplorer

-----------------------------------------------------------------------------

\* However the choices cascade, the list of views is the one of what is selected, and
\* only sensors that are offered or are a default are selected.
ViewsOfSelection ==
  Ready =>
    LET p == tab.page
    IN  /\ [k \in DOMAIN p.views |-> p.views[k].key] = newViews(p)
        /\ ToSet(p.sensorIDs) \subseteq ToSet(visibleSensors(p)) \cup ToSet(Defaults) \cup {All}
        /\ p.sensorIDs = <<>> => visibleSensors(p) = <<>>

\* The runners of a cycle that began with its views account for every view: as long as one
\* is not fetched, some runner is at work, and the progress shown is the number of views
\* that are done.  A cycle may also begin without views, to stop the runners: when another
\* project is asked for and when the user cancels.  If no request failed and no
\* project was asked for before the one before had answered, a page that waits for nothing
\* has done all views, whatever began its cycle.  Else it may not: if the metadata fail and
\* the project before is chosen again, compareViews finds its views unchanged and no runner
\* starts, so those that were not fetched stay queued.
RunnersAtWork ==
  OnExplorer =>
    LET p == tab.page
        ended == {k \in DOMAIN p.views : p.views[k].status \in {"done", "error"}}
        mine == {i \in Pending(tab, {"view"}) : tab.flights[i].key.cycle = p.cycle}
    IN  /\ p.cycle = p.started =>
             /\ p.done = Cardinality(ended)
             /\ Cardinality(mine) = Cardinality({k \in DOMAIN p.views : p.views[k].status = "running"})
             /\ Cardinality(mine) <= Parallel
             /\ NextInit(p) # 0 => mine # {}
        /\ tab.tidy /\ fails = 0 /\ Pending(tab, ExplorerKinds) = {} => p.done = Len(p.views)

\* The end of the time asked for is not before its start, whatever was selected in
\* whatever order.
TimeOrdered ==
  OnExplorer =>
    LET q == timeParameters(tab.page.time)
    IN  q.end_year # None =>
          /\ q.year <= q.end_year
          /\ (q.year = q.end_year /\ q.month # None /\ q.end_month # None) =>
               /\ q.month <= q.end_month
               /\ (q.month = q.end_month /\ q.day # None /\ q.end_day # None) => q.day <= q.end_day
=============================================================================
