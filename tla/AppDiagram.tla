----------------------------- MODULE AppDiagram -----------------------------
(***************************************************************************)
(* The page for diagrams of the web application: the selector of time       *)
(* series (timeseries-selector), the requests for their data                *)
(* (DiagramLayout) and the diagram (timeseries-diagram).                    *)
(***************************************************************************)
EXTENDS AppStore, Integers

CONSTANTS
  ViewTimes,   \* group -> [start, end] of what may be seen, None for no limit
  MaxSeries,   \* the most time series of a diagram
  FullRange,   \* the length of the time shown at first
  MinRange     \* bound: the shortest time that is zoomed in to

ASSUME RangeAssumption == FullRange \in Nat \ {0} /\ MinRange \in Nat \ {0}

\* What is selected.  A choice of several is None as long as nothing was chosen and when it
\* was cleared; it is empty when the last one was taken away.
NoSelection == [projects |-> None, groups |-> None, plots |-> None, stations |-> None, sensors |-> None]

openDiagramPage ==
  [name |-> "diagram", sel |-> NoSelection, asked |-> [stations |-> <<>>, sensors |-> <<>>],
   data |-> None, sent |-> 0, received |-> 0, error |-> TRUE, start |-> None, end |-> None,
   aggregation |-> "hour", quality |-> "step", interpolation |-> FALSE, hq |-> FALSE,
   window |-> None, zoomed |-> FALSE]

-----------------------------------------------------------------------------
(* What is offered                                                         *)

Chosen(model) == IF model = None THEN <<>> ELSE model

Offered(order, from, model) ==
  LET of == UNION {ToSet(from[x]) : x \in ToSet(Chosen(model))}
  IN  Among(order, of)

AllGroups == FlattenSeq([k \in DOMAIN AProjects |-> AGroups[AProjects[k]]])
AllPlots == SetToSeq(UNION {ToSet(APlots[g]) : g \in ToSet(AllGroups)})

\* Plots, their stations and the sensors come in lists.
ASSUME ListsAssumption ==
  /\ ASensors \in Seq(ToSet(ASensors))
  /\ \A g \in ToSet(AllGroups) : APlots[g] \in Seq(ToSet(APlots[g]))
  /\ \A x \in ToSet(AllPlots) : AStations[x] \in Seq(ToSet(AStations[x]))

groups(s) == Offered(AllGroups, AGroups, s.projects)
plots(s) == Offered(AllPlots, APlots, s.groups)

offeredStations(s) ==
  FlattenSeq([k \in DOMAIN Chosen(s.plots) |-> plotstations(s.plots[k])])

selectedPlotsHaveMultipleStations(s) == \E x \in ToSet(Chosen(s.plots)) : Len(AStations[x]) > 1

FirstStation(plot) == plotstations(plot)[1]

\* If some plot has several stations they are chosen, else each plot has one.
selectedPlotstations(s) ==
  IF selectedPlotsHaveMultipleStations(s)
    THEN IF s.stations = None THEN <<offeredStations(s)[1]>> ELSE s.stations
    ELSE [k \in DOMAIN Chosen(s.plots) |-> FirstStation(s.plots[k])]

sensors(s) ==
  LET of == UNION {sensorSet(e) : e \in ToSet(selectedPlotstations(s))}
  IN  Among(ASensors, of)

\* A sensor that cannot be chosen: one without all aggregations.
disabled(aggregation, sensor) == aggregation # "none" /\ AggregationsOf[sensor] # ToSet(Intervals)

\* The first start and the last end of the groups that have one: one group's limit is the
\* limit of all.
viewTimeRangeLimit(s) ==
  LET chosen == ToSet(Chosen(s.groups))
      starts == {ViewTimes[g].start : g \in chosen} \ {None}
      ends == {ViewTimes[g].end : g \in chosen} \ {None}
  IN  <<IF starts = {} THEN None ELSE Min(starts), IF ends = {} THEN None ELSE Max(ends)>>

-----------------------------------------------------------------------------
(* The watchers of the selector                                            *)

\* What is not offered any more is not selected any more, and what is offered alone is.
Watched(model, offered) ==
  LET kept == Among(Chosen(model), ToSet(offered))
  IN  CASE offered = <<>> -> None
        [] Len(offered) = 1 -> offered
        [] OTHER -> IF kept = <<>> THEN None ELSE kept

watchProjects(s) == [s EXCEPT !.projects = IF Len(AProjects) = 1 THEN AProjects ELSE None]
watchGroups(s) == [s EXCEPT !.groups = Watched(@, groups(s))]
watchPlots(s) == [s EXCEPT !.plots = Watched(@, plots(s))]
watchSensors(s) == [s EXCEPT !.sensors = Watched(@, sensors(s))]

\* Mutant: the stations of plots that were taken away stay.
KeepsStations(s, old) ==
  LET has(plot) == \E e \in ToSet(Chosen(s.stations)) : e.plot = plot
      new == Among(Chosen(s.plots), {x \in ToSet(Chosen(s.plots)) : ~has(x)})
      stations == Chosen(s.stations) \o [k \in DOMAIN new |-> FirstStation(new[k])]
  IN  [s EXCEPT !.stations = IF stations = <<>> THEN None ELSE stations]

\* The stations of plots that stay selected, and the first one of each new plot.
watchSelectedPlots(s, old) ==
  LET now == Chosen(s.plots)
      has(plot) == \E e \in ToSet(Chosen(s.stations)) : e.plot = plot
      new == Among(now, {x \in ToSet(now) \ ToSet(old) : ~has(x)})
      kept == Among(Chosen(s.stations), {e \in ToSet(Chosen(s.stations)) : e.plot \in ToSet(now) \cap ToSet(old)})
      stations == kept \o [k \in DOMAIN new |-> FirstStation(new[k])]
  IN  [s EXCEPT !.stations = IF stations = <<>> THEN None ELSE stations]

\* The sensors are looked at with the stations of the plots before and again after.
PlotsChanged(s, old) == watchSensors(watchSelectedPlots(watchSensors(s), old))
GroupsChanged(s) == PlotsChanged(watchPlots(s), Chosen(s.plots))
ProjectsChanged(s) == GroupsChanged(watchGroups(s))

-----------------------------------------------------------------------------
(* Requests                                                                *)

plotSensorList(asked) ==
  LET of(sensor) ==
        LET those == Among(asked.stations, {e \in ToSet(asked.stations) : sensor \in sensorSet(e)})
        IN  [k \in DOMAIN those |-> <<those[k], sensor>>]
      all == FlattenSeq([k \in DOMAIN asked.sensors |-> of(asked.sensors[k])])
  IN  SubSeq(all, 1, IF Len(all) < MaxSeries THEN Len(all) ELSE MaxSeries)

\* A time alone is start and end.
settings(p) ==
  [aggregation |-> p.aggregation, quality |-> p.quality,
   start |-> IF p.start # None THEN p.start ELSE p.end,
   end |-> IF p.end # None THEN p.end ELSE p.start,
   interpolation |-> p.aggregation # "none" /\ p.interpolation,
   limit |-> viewTimeRangeLimit(p.sel)]

\* The diagram is created anew with the data; it shows all of them.
createDiagram(t, data) ==
  [t EXCEPT !.page.data = data, !.page.zoomed = FALSE,
            !.page.window = IF data = None THEN None ELSE <<0, FullRange>>]

AwaitsData(p) == p.sent > p.received

\* With nothing to ask for the data go; the answer to a request under way is not refused.
requestData(t) ==
  CASE ~Loaded(t) -> t
    [] Loaded(t) /\ plotSensorList(t.page.asked) = <<>> -> UntidyIf(createDiagram(t, None), AwaitsData(t.page))
    [] OTHER -> Send([t EXCEPT !.page.sent = @ + 1, !.page.error = FALSE], "query",
                     [n |-> t.page.sent + 1, list |-> plotSensorList(t.page.asked),
                      settings |-> settings(t.page)])

\* onPlotSensorChanged: the layout is told what is selected and asks for it.
Told(t) ==
  [t EXCEPT !.page.asked = [stations |-> selectedPlotstations(t.page.sel),
                            sensors |-> Chosen(t.page.sel.sensors)]]
Tell(t) == requestData(Told(t))

\* The selector is there when the model is.  A single choice is made at once, before the
\* selector watches it; the layout is told of it if a sensor is chosen again afterwards.
mountSelector(t) ==
  LET s == ProjectsChanged(watchProjects(NoSelection))
      chosen == [t EXCEPT !.page.sel = s]
  IN  IF selectedPlotsHaveMultipleStations(s) /\ s.sensors # None THEN Tell(chosen) ELSE chosen

openDiagram(t) ==
  LET shown == Route(t, openDiagramPage)
  IN  IF Loaded(t) THEN mountSelector(shown) ELSE modelInit(shown)

\* Another model: the layout asks again and the selector begins anew.
DiagramModelSet(t, first) ==
  IF first THEN mountSelector(t)
  ELSE Tell([requestData(t) EXCEPT !.page.sel = ProjectsChanged(watchProjects(t.page.sel))])

\* Mutant: every answer counts.
AnyAnswer(t, f) ==
  createDiagram([t EXCEPT !.page.received = f.key.n], [list |-> f.key.list, settings |-> f.key.settings])

\* An answer counts if it is to the newest request.
QueryLanded(t, f) ==
  IF f.key.n < t.page.sent THEN t
  ELSE createDiagram([t EXCEPT !.page.received = f.key.n],
                     [list |-> f.key.list, settings |-> f.key.settings])

QueryFailed(t, f) ==
  IF f.key.n < t.page.sent THEN t
  ELSE createDiagram([t EXCEPT !.page.received = f.key.n, !.page.error = TRUE], None)

-----------------------------------------------------------------------------
(* The user                                                                *)

OnDiagram == OnPage("diagram") /\ Loaded(tab)

\* A choice of several: one more, one less, or none.
Toggled(model, offered) ==
  LET now == Chosen(model)
      one(x) == IF x \in ToSet(now) THEN Among(now, ToSet(now) \ {x}) ELSE Append(now, x)
  IN  {one(x) : x \in offered} \cup (IF model = None THEN {} ELSE {None})

Selects(selections) ==
  /\ Click /\ OnDiagram
  /\ \E s \in selections : tab' = Tell([tab EXCEPT !.page.sel = s])

selectProjects ==
  LET s == tab.page.sel
  IN  Selects({ProjectsChanged([s EXCEPT !.projects = v]) : v \in Toggled(s.projects, ToSet(AProjects))})

selectGroups ==
  LET s == tab.page.sel
  IN  /\ Chosen(s.projects) # <<>>
      /\ Selects({GroupsChanged([s EXCEPT !.groups = v]) : v \in Toggled(s.groups, ToSet(groups(s)))})

selectPlots ==
  LET s == tab.page.sel
  IN  /\ Chosen(s.groups) # <<>>
      /\ Selects({PlotsChanged([s EXCEPT !.plots = v], Chosen(s.plots)) :
                    v \in Toggled(s.plots, ToSet(plots(s)))})

selectStations ==
  LET s == tab.page.sel
  IN  /\ selectedPlotsHaveMultipleStations(s)
      /\ Selects({watchSensors([s EXCEPT !.stations = v]) :
                    v \in Toggled(s.stations, ToSet(offeredStations(s)))})

selectSensors ==
  LET s == tab.page.sel
  IN  /\ selectedPlotstations(s) # <<>>
      /\ Selects({[s EXCEPT !.sensors = v] :
           v \in Toggled(s.sensors, {x \in ToSet(sensors(s)) : ~disabled(tab.page.aggregation, x)})})

\* Raw data have no empirical quality; sensors that are not aggregated at all go when the
\* data are aggregated.  Quality and sensors are watched too: each asks again.
selectAggregation ==
  /\ Click /\ OnDiagram
  /\ \E v \in {"none", "hour", "day"} \ {tab.page.aggregation} :
       LET reset == v = "none" /\ tab.page.quality = "empirical"
           drops == tab.page.aggregation = "none" /\ tab.page.sel.sensors # None
           one == [tab EXCEPT !.page.aggregation = v, !.page.quality = IF reset THEN "step" ELSE @]
           two == IF reset THEN requestData(requestData(one)) ELSE requestData(one)
       IN  tab' = IF drops
                    THEN Tell([two EXCEPT !.page.sel.sensors = Among(@, {x \in ToSet(@) : AggregationsOf[x] # {}})])
                    ELSE two

Sets(pages) ==
  /\ Click /\ OnDiagram
  /\ \E p \in pages \ {tab.page} : tab' = requestData([tab EXCEPT !.page = p])

selectQuality ==
  Sets({[tab.page EXCEPT !.quality = v] :
          v \in {"none", "step", "empirical"} \ {q \in {"empirical"} : tab.page.aggregation = "none"}})
selectInterpolation == tab.page.aggregation # "none" /\ Sets({[tab.page EXCEPT !.interpolation = ~@]})
enterTime == Sets({[tab.page EXCEPT !.start = v] : v \in {None, 1}} \cup {[tab.page EXCEPT !.end = v] : v \in {None, 1}})

\* Only the diagram is created anew.
selectHighQuality ==
  /\ Click /\ OnDiagram
  /\ tab' = createDiagram([tab EXCEPT !.page.hq = ~@], tab.page.data)

LandQuery == OnDiagram /\ LandWith({"query"}, LAMBDA f : f.key, QueryLanded)
FailQuery == OnDiagram /\ FailWith({"query"}, QueryFailed)

-----------------------------------------------------------------------------
(* The window of time                                                      *)

\* Mutant: only the start is looked at.
ClampStart(range, lo) ==
  IF range > FullRange THEN <<0, FullRange>>
  ELSE LET start == IF lo < 0 THEN 0 ELSE lo IN <<start, start + range>>

\* What the wheel shows stays within all there is.
clamp(range, lo) ==
  IF range > FullRange THEN <<0, FullRange>>
  ELSE LET start == IF lo < 0 THEN 0 ELSE IF lo + range > FullRange THEN FullRange - range ELSE lo
       IN  <<start, start + range>>

\* The time under the mouse, at the left or the right edge, keeps its place.
Scaled(w, range, atRight) == IF atRight THEN w[2] - range ELSE w[1]

ZoomsTo(windows, wheel) ==
  /\ Click /\ OnDiagram /\ tab.page.window # None
  /\ \E w \in windows \ {tab.page.window} :
       tab' = [tab EXCEPT !.page.window = w, !.page.zoomed = wheel]

wheelZoom ==
  LET w == tab.page.window
      range == w[2] - w[1]
      ranges == {(range * 4) \div 3} \cup {r \in {(range * 3) \div 4} : r >= MinRange}
  IN  /\ w # None
      /\ \E r \in ranges : ZoomsTo({clamp(r, Scaled(w, r, atRight)) : atRight \in BOOLEAN}, TRUE)

\* Two fingers zoom, the mouse drags: both may leave what there is.
touchZoom ==
  LET w == tab.page.window
      range == ((w[2] - w[1]) * 4) \div 3
  IN  ZoomsTo({<<Scaled(w, range, atRight), Scaled(w, range, atRight) + range>> : atRight \in BOOLEAN}, FALSE)

drag ==
  LET w == tab.page.window
  IN  ZoomsTo({<<w[1] + d, w[2] + d>> : d \in {-(FullRange \div 3), FullRange \div 3}}, FALSE)

DiagramNext ==
  \/ selectProjects \/ selectGroups \/ selectPlots \/ selectStations \/ selectSensors
  \/ selectAggregation \/ selectQuality \/ selectInterpolation \/ enterTime \/ selectHighQuality
  \/ LandQuery \/ FailQuery \/ wheelZoom \/ touchZoom \/ drag

-----------------------------------------------------------------------------

\* Whatever was chosen and taken away above, what is selected is offered, no plot that is
\* not selected has a station, and the layout knows it - but for a single project, which
\* may be chosen before the selector watches it.
SelectorExact ==
  LET p == tab.page
      s == p.sel
      within(model, offered) == ToSet(Chosen(model)) \subseteq ToSet(offered)
  IN  OnDiagram =>
        /\ within(s.groups, groups(s)) /\ within(s.plots, plots(s)) /\ within(s.sensors, sensors(s))
        /\ within(s.stations, offeredStations(s))
        /\ Len(AProjects) > 1 => p.asked = [stations |-> selectedPlotstations(s), sensors |-> Chosen(s.sensors)]

\* In whatever order the answers come, the page waits exactly while the newest one has not;
\* when it does not wait any more and no error is told, it shows the series that are
\* selected, with the settings that are chosen now.  Only with nothing to ask for may it show
\* something else: no new request is made then, and the answer under way is not refused.
DiagramExact ==
  LET p == tab.page
      newest == {i \in Pending(tab, {"query"}) : tab.flights[i].key.n = p.sent}
      asked == plotSensorList(p.asked)
  IN  OnDiagram =>
        /\ AwaitsData(p) <=> newest # {}
        /\ asked # <<>> /\ ~AwaitsData(p) /\ ~p.error =>
             p.data = [list |-> asked, settings |-> settings(p)]
        /\ asked = <<>> /\ tab.tidy /\ ~AwaitsData(p) /\ ~p.error => p.data = None

\* However the diagram was dragged or zoomed before, the wheel shows a part of the time
\* there is.
WheelWithin ==
  OnDiagram /\ tab.page.zoomed =>
    /\ 0 <= tab.page.window[1]
    /\ tab.page.window[1] < tab.page.window[2]
    /\ tab.page.window[2] <= FullRange
=============================================================================
