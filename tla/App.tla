-------------------------------- MODULE App --------------------------------
(***************************************************************************)
(* The web application (app/src): one tab whose router shows one page at a  *)
(* time.  The pages share the store and the server, and an answer to the    *)
(* store reaches whatever page is shown when it comes.                     *)
(***************************************************************************)
EXTENDS AppDiagram, AppMonitoring, AppStatus

vars == <<browser, notes>>

Init ==
  /\ clicks = 0
  /\ fails = 0
  /\ notes = FirstNotes
  /\ LET blank == TabOf(WithStore(OverviewPage, EmptyStore))
     IN  tab \in {blank, openModel(blank), openDiagram(blank), openMonitoring(blank), openStatusPage(blank)}

\* The menu of the pages.
selectPage ==
  /\ Click
  /\ ~(OnPage("status") /\ tab.page.dialog.shown)
  /\ \/ ~OnPage("overview") /\ tab' = openOverview(tab)
     \/ ~OnPage("model") /\ tab' = openModel(tab)
     \/ ~OnPage("diagram") /\ tab' = openDiagram(tab)
     \/ ~OnPage("monitoring") /\ tab' = openMonitoring(tab)
     \/ ~OnPage("status") /\ tab' = openStatusPage(tab)

\* The model arrives: the watchers of the page that is shown run.
ModelLanded(t, f) ==
  LET set == setData(t)
  IN  CASE OnPage("diagram") -> DiagramModelSet(set, ~Loaded(t))
        [] OnPage("status") -> StatusModelSet(set)
        [] OTHER -> set

LandModel == LandWith({"model"}, LAMBDA f : "model", ModelLanded)
FailModel == FailWith({"model"}, LAMBDA t, f : setError(t))

OnDiagramPage == OnPage("diagram") /\ DiagramNext
OnMonitoringPage == OnMonitoring /\ MonitoringNext
OnStatusPage == OnPage("status") /\ StatusNext

Next ==
  \/ selectPage /\ UNCHANGED notes
  \/ selectSensorPage /\ UNCHANGED notes
  \/ tryAgain /\ UNCHANGED notes
  \/ LandModel /\ UNCHANGED notes
  \/ FailModel /\ UNCHANGED notes
  \/ OnDiagramPage /\ UNCHANGED notes
  \/ OnMonitoringPage /\ UNCHANGED notes
  \/ OnStatusPage
  \/ ServeOrphanSave

Spec == Init /\ [][Next]_vars

-----------------------------------------------------------------------------

\* The page of a sensor and the selector of the diagrams look at its aggregations each in
\* their own way: the page says nowhere that no further aggregation is defined, and shows
\* all of them, exactly if the sensor can be selected for every step of time.
SensorPageExact ==
  OnPage("model") /\ Loaded(tab) /\ tab.page.sensor # None =>
    LET shown == processing(tab.page.sensor)
    IN  /\ shown.ends = {} <=> ~disabled("hour", tab.page.sensor)
        /\ shown.ends = {} <=> shown.steps = ToSet(Intervals)
=============================================================================
