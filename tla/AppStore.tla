------------------------------ MODULE AppStore ------------------------------
(***************************************************************************)
(* What the pages of the web application (app/src) have in common: the      *)
(* store with the model of the metadata, which the first page that needs it *)
(* asks for, and the way from page to page.  The pages with metadata only.  *)
(***************************************************************************)
EXTENDS Browser

CONSTANTS
  AProjects,      \* the projects, in order
  AGroups,        \* project -> its groups, in order
  APlots,         \* group -> its plots, in order
  AStations,      \* plot -> its stations, in order
  ASensorsAt,     \* plot or station -> its sensors
  ASensors,       \* the sensors, in order
  AggregationsOf  \* sensor -> the steps of time it is aggregated to

\* No value is none of the values.
ASSUME NoneAssumption == None \notin {"model"} \cup ToSet(ASensors)

\* There are projects, each with groups (the pages show nothing else without).
ASSUME ProjectsAssumption ==
  /\ AProjects \in Seq(ToSet(AProjects)) \ {<<>>}
  /\ \A p \in ToSet(AProjects) : AGroups[p] \in Seq(ToSet(AGroups[p])) \ {<<>>} /\ None \notin ToSet(AGroups[p])

Intervals == <<"hour", "day", "week", "month", "year">>

\* There are no other steps of time (AggregationInterval).
ASSUME StepsAssumption == \A s \in ToSet(ASensors) : AggregationsOf[s] \subseteq ToSet(Intervals)

\* Every page keeps the store: the application is loaded once.
EmptyStore == [data |-> None, loading |-> FALSE, error |-> FALSE]

Loaded(t) == t.page.store.data # None

\* Mutant: the error of an earlier request stays.
KeepsError(t) ==
  Send([Overtaking(t, {"model"}) EXCEPT !.page.store.loading = TRUE], "model", None)

modelRefresh(t) ==
  Send([Overtaking(t, {"model"}) EXCEPT !.page.store.loading = TRUE, !.page.store.error = FALSE], "model", None)

\* Asked for again by each page that is opened before it has arrived.
modelInit(t) == IF Loaded(t) THEN t ELSE modelRefresh(t)

setData(t) == [t EXCEPT !.page.store.loading = FALSE, !.page.store.data = "model"]
setError(t) == [t EXCEPT !.page.store.loading = FALSE, !.page.store.error = TRUE]

\* The series of a plot: of the plot itself if it has no station, of its station if it has
\* one, else merged from its stations and of each of them.
plotstations(plot) ==
  LET entry(station) == [plot |-> plot, station |-> station]
      stations == [k \in DOMAIN AStations[plot] |-> entry(AStations[plot][k])]
  IN  CASE AStations[plot] = <<>> -> <<entry(plot)>>
        [] Len(AStations[plot]) = 1 -> stations
        [] OTHER -> <<entry(None)>> \o stations

sensorSet(entry) == ASensorsAt[IF entry.station = None THEN entry.plot ELSE entry.station]

WithStore(page, store) ==
  [x \in DOMAIN page \cup {"store"} |-> IF x = "store" THEN store ELSE page[x]]

\* Another page is shown.  What waits for the model is the store, not the page; a change on
\* its way may still reach the server.
Route(t, page) ==
  LET left == Leave(t, WithStore(page, t.page.store), {"save"})
  IN  [left EXCEPT !.flights = Those(t.flights, Pending(t, {"model"})) \o @]

-----------------------------------------------------------------------------
(* The overview and the pages of the sensors                               *)

OverviewPage == [name |-> "overview"]

openOverview(t) == Route(t, OverviewPage)
openModel(t) == modelInit(Route(t, [name |-> "model", sensor |-> None]))

\* Mutant: after the day only the month is missed.
WeekNotMissed(sensor) ==
  LET has == AggregationsOf[sensor]
      hour == "hour" \in has
      day == hour /\ "day" \in has
      month == day /\ "month" \in has
  IN  [steps |-> {i \in {"hour"} : hour} \cup {i \in {"day"} : day}
                 \cup {i \in {"week"} : day /\ "week" \in has} \cup {i \in {"month"} : month}
                 \cup {i \in {"year"} : month /\ "year" \in has},
       ends |-> {i \in {"raw"} : ~hour} \cup {i \in {"hour"} : hour /\ "day" \notin has}
                \cup {i \in {"day"} : day /\ "month" \notin has}
                \cup {i \in {"month"} : month /\ "year" \notin has}]

\* The steps shown on the page of a sensor, and after which step it says that no further
\* aggregation is defined.
processing(sensor) ==
  LET has == AggregationsOf[sensor]
      hour == "hour" \in has
      day == hour /\ "day" \in has
      month == day /\ "month" \in has
  IN  [steps |-> {i \in {"hour"} : hour} \cup {i \in {"day"} : day}
                 \cup {i \in {"week"} : day /\ "week" \in has} \cup {i \in {"month"} : month}
                 \cup {i \in {"year"} : month /\ "year" \in has},
       ends |-> {i \in {"raw"} : ~hour} \cup {i \in {"hour"} : hour /\ "day" \notin has}
                \cup {i \in {"day"} : day /\ {"week", "month"} \ has # {}}
                \cup {i \in {"month"} : month /\ "year" \notin has}]

OnPage(name) == tab.page.name = name

\* The list of the sensors is shown with the model.
selectSensorPage ==
  /\ Click /\ OnPage("model") /\ Loaded(tab)
  /\ \E s \in ToSet(ASensors) \ {tab.page.sensor} : tab' = [tab EXCEPT !.page.sensor = s]

\* The pages for diagrams and for the status of plots offer to try again.
tryAgain ==
  /\ Click /\ tab.page.name \in {"diagram", "status"}
  /\ ~Loaded(tab) /\ ~tab.page.store.loading /\ tab.page.store.error
  /\ tab' = modelRefresh(tab)

-----------------------------------------------------------------------------

\* However many requests for the model were made: the store never says that it is loading
\* when none is under way, a page that needs the model has it, waits for it or was told an
\* error, and when nothing failed the last answer has brought it.  With one request at a time
\* - which pages that are opened one after the other do not keep to - the store says that it
\* is loading exactly while it is, and there is no error beside a model.
StoreExact ==
  LET store == tab.page.store
      asked == Pending(tab, {"model"}) # {}
  IN  /\ store.loading => asked
      /\ tab.page.name \in {"model", "diagram", "status"} => store.loading \/ Loaded(tab) \/ store.error
      /\ fails = 0 => ~store.error
      /\ tab.tidy => (store.loading <=> asked) /\ (Loaded(tab) => ~store.error)
=============================================================================
