------------------------------ MODULE MaskApp ------------------------------
(***************************************************************************)
(* The mask app of one user and its server.  Shell.vue shows a diagram of   *)
(* the selected series with its masks, saves the interval selected in the   *)
(* diagram (Viewer.vue) as a mask, and lists and removes masks              *)
(* (MaskListDialog.vue).                                                    *)
(*                                                                          *)
(* Every fetch is a flight: it is sent by a handler, answered by the server *)
(* and landed by the rest of the handler, in any order, or it fails.  No    *)
(* handler looks if another one was called meanwhile.  An action of the     *)
(* user is a whole handler up to its first await, with the watchers of what *)
(* it changed; a landing is the whole rest, up to the next await.           *)
(*                                                                          *)
(* The data of a series stand for themselves: an answer is the series asked *)
(* for and the masks applied to each.                                       *)
(***************************************************************************)
EXTENDS MaskSelection, TLC

CONSTANTS
  Time,        \* positions in the diagram
  FirstRows,   \* the rows of the mask files at the beginning
  MaxRows,     \* bound: rows in the mask files
  MaxFlights,  \* bound: flights at a time
  MaxClicks,   \* bound: actions of the user
  MaxFails     \* bound: requests that fail

VARIABLES
  page,    \* App.vue: "loading", "failed" or "shell"
  tab,     \* the state of the components in the browser
  rows,    \* the rows of the mask files
  clicks,  \* the actions of the user so far
  fails,   \* the requests that failed so far
  changed  \* history: the series masked otherwise since the comparison diagram was fetched

vars == <<page, tab, rows, clicks, fails, changed>>

-----------------------------------------------------------------------------
(* The server                                                              *)

\* The masks of a series as the rows say (MaskRegistry).  The ends of an interval may be
\* open; its positions:
Covered(i) ==
  {x \in Time : (i.start = None \/ i.start <= x) /\ (i.end = None \/ x <= i.end)}
MasksOf(files, series) ==
  {files[k].interval : k \in {k \in DOMAIN files : files[k].series = series /\ ~files[k].removed}}

\* Handler_query_js, Handler_mask.handleGET and Handler_masklist.handleGET.
AnswerTo(files, f) ==
  CASE f.kind \in {"data", "cmp"} -> [k \in DOMAIN f.key.series |-> MasksOf(files, f.key.series[k])]
    [] f.kind = "mask" -> MasksOf(files, f.key)
    [] f.kind \in {"list", "relist"} ->
         {[line |-> k, row |-> files[k]] : k \in {k \in DOMAIN files : files[k].series = f.key}}
    [] OTHER -> None

-----------------------------------------------------------------------------
(* The browser: operators that take the tab to the tab                     *)

Pending(t, kinds) == {i \in DOMAIN t.flights : t.flights[i].kind \in kinds}

Send(t, kind, key) ==
  [t EXCEPT !.flights = Append(@, [kind |-> kind, key |-> key, pc |-> "sent", answer |-> None])]

\* Something is shown without a flight while a flight is on its way that will
\* replace it.
Overtaken(t, kinds) == [t EXCEPT !.tidy = @ /\ Pending(t, kinds) = {}]

\* No data or masks are there to be shown.
Nothing == <<>>

Tab(sel) ==
  [sel |-> sel, data |-> Nothing, dataLoading |-> FALSE, dataError |-> FALSE, dataCmp |-> Nothing,
   cmpLoading |-> FALSE, mask |-> Nothing, cache |-> <<>>, picked |-> [start |-> None, end |-> None],
   viewer |-> [start |-> None, end |-> None], saving |-> FALSE, dialog |-> FALSE,
   list |-> None, listLoading |-> FALSE, listError |-> FALSE, removing |-> FALSE,
   flights |-> <<>>, tidy |-> TRUE]

Shown(key, answer) == [key |-> key, answer |-> answer]

\* fetchTimeseries finds the answer in fetchCacheMap or asks the server.
Cached(t, key) == key \in DOMAIN t.cache
Put(cache, key, answer) ==
  [k \in DOMAIN cache \cup {key} |-> IF k = key THEN answer ELSE cache[k]]

At(option, sensor) == [plot |-> option, sensor |-> sensor]
IfAny(condition, item) == IF condition THEN <<item>> ELSE <<>>

\* Mutant: the selected station's comparison sensor is not asked for.
DataKeyWithoutOwnCmp(sel) ==
  LET both == sel.cmp # None /\ ~sel.separate
  IN  [agg |-> sel.agg, qc |-> sel.qc, interpolation |-> sel.interpolation,
       series |-> IfAny(both /\ sel.plotCmp # None, At(sel.plotCmp, sel.cmp))
                  \o IfAny(sel.plotCmp # None, At(sel.plotCmp, sel.sensor))
                  \o <<At(sel.plot, sel.sensor)>>]

\* The request of fetchData.
DataKey(sel) ==
  LET both == sel.cmp # None /\ ~sel.separate
  IN  [agg |-> sel.agg, qc |-> sel.qc, interpolation |-> sel.interpolation,
       series |-> IfAny(both /\ sel.plotCmp # None, At(sel.plotCmp, sel.cmp))
                  \o IfAny(both, At(sel.plot, sel.cmp))
                  \o IfAny(sel.plotCmp # None, At(sel.plotCmp, sel.sensor))
                  \o <<At(sel.plot, sel.sensor)>>]

\* The request of fetchDataCmp: it does not say whether to interpolate.
CmpKey(sel) ==
  [agg |-> sel.agg, qc |-> sel.qc, interpolation |-> None,
   series |-> IfAny(sel.plotCmp # None, At(sel.plotCmp, sel.cmp)) \o <<At(sel.plot, sel.cmp)>>]

\* The viewer is there while a plot is selected and data are shown.
Viewing(t) == t.sel.plot # None /\ t.data # Nothing

\* A viewer that goes takes its selection with it.  It does not tell the shell.
Render(t) ==
  IF Viewing(t) THEN t ELSE [t EXCEPT !.viewer = [start |-> None, end |-> None]]

fetchData(t) ==
  IF t.sel.plot = None \/ t.sel.sensor = None
    THEN Overtaken([t EXCEPT !.data = Nothing], {"data"})
  ELSE LET key == DataKey(t.sel)
       IN  IF Cached(t, key)
             THEN Overtaken([t EXCEPT !.data = Shown(key, t.cache[key]), !.dataError = FALSE,
                                      !.dataLoading = FALSE], {"data"})
             ELSE Send([t EXCEPT !.dataLoading = TRUE, !.dataError = FALSE], "data", key)

fetchDataCmp(t) ==
  IF ~t.sel.separate \/ t.sel.plot = None \/ t.sel.cmp = None
    THEN Overtaken([t EXCEPT !.dataCmp = Nothing], {"cmp"})
  ELSE LET key == CmpKey(t.sel)
       IN  IF Cached(t, key)
             THEN Overtaken([t EXCEPT !.dataCmp = Shown(key, t.cache[key]),
                                      !.cmpLoading = FALSE], {"cmp"})
             ELSE Send([t EXCEPT !.cmpLoading = TRUE], "cmp", key)

fetchMask(t) ==
  IF t.sel.plot = None \/ t.sel.sensor = None
    THEN Overtaken([t EXCEPT !.mask = Nothing], {"mask"})
    ELSE Send([t EXCEPT !.mask = Nothing], "mask", At(t.sel.plot, t.sel.sensor))

fetchMaskList(t, kind) ==
  IF t.sel.plot = None \/ t.sel.sensor = None
    THEN [t EXCEPT !.list = None]
    ELSE Send([t EXCEPT !.listLoading = TRUE, !.listError = FALSE], kind,
              At(t.sel.plot, t.sel.sensor))

\* The two watchers that fetch.
FetchChanged(t, old) ==
  LET differs(fields) == \E f \in fields : t.sel[f] # old[f]
      both == {"plot", "agg", "plotCmp", "separate", "cmp", "qc"}
      main == IF differs(both \cup {"sensor", "interpolation"}) THEN fetchMask(fetchData(t)) ELSE t
  IN  IF ~differs(both) THEN main
      ELSE IF main.sel.cmp # None THEN fetchDataCmp(main)
      ELSE Overtaken([main EXCEPT !.dataCmp = Nothing], {"cmp"})

\* The viewer's selection as it is emitted: from min to max, open where nothing was picked.
Ordered(s) ==
  IF s.start # None /\ s.end # None /\ s.start > s.end
    THEN [start |-> s.end, end |-> s.start] ELSE s

\* A choice settles; a viewer that is there and stays tells the shell its selection
\* again if the aggregation changed.
Choose(t, sel) ==
  LET settled == Settle(t.sel, sel)
      chosen  == FetchChanged([t EXCEPT !.sel = settled], t.sel)
  IN  Render(IF Viewing(t) /\ settled.agg # t.sel.agg
               THEN [chosen EXCEPT !.picked = Ordered(t.viewer)] ELSE chosen)

\* The watcher of selectionMin and selectionMax emits if one of them changed.
Pick(t, s) ==
  [t EXCEPT !.viewer = s, !.picked = IF Ordered(s) # Ordered(t.viewer) THEN Ordered(s) ELSE @]

resetSelection(t) ==
  IF Viewing(t) THEN Pick(t, [start |-> None, end |-> None]) ELSE t

\* The positions of the masks drawn over the diagram (maskPlugin).
MasksDrawn(t) ==
  IF t.sel.showMasks /\ t.mask # Nothing THEN UNION {Covered(i) : i \in t.mask.answer} ELSE {}

\* The lines of the diagrams that have a style, by the number of columns (time is one).
StyledColumns(n) == (IF n > 1 THEN 2 ELSE 1) + (IF n = 3 THEN 1 ELSE 0) + (IF n = 5 THEN 3 ELSE 0)
StyledColumnsCmp(n) == IF n = 2 THEN 2 ELSE 3

\* Mutant: the cache is not cleared.
AfterChangeKeepCache(t, files) == fetchMask(fetchData(t))

\* After a change of the masks: the cache is cleared and the diagram fetched anew (not
\* the comparison diagram).  An answer from before the change, still to land, is untidy.
AfterChange(t, files) ==
  LET old == {i \in Pending(t, {"data", "cmp", "mask"}) :
                t.flights[i].pc = "answered" /\ t.flights[i].answer # AnswerTo(files, t.flights[i])}
  IN  fetchMask(fetchData([t EXCEPT !.cache = <<>>, !.tidy = @ /\ old = {}]))

-----------------------------------------------------------------------------
(* App.vue                                                                 *)

Init ==
  /\ page = "loading"
  /\ tab = Tab(FirstSelection)
  /\ rows = FirstRows
  /\ clicks = 0
  /\ fails = 0
  /\ changed = {}

\* fetchDataCmp may have been called: what changes from now on counts, and of what comes
\* from the cache while a change is under way, every series.
ComparisonFetched(t) ==
  changed' = IF Pending(t, {"cmp"}) # Pending(tab, {"cmp"}) THEN {}
             ELSE IF t.dataCmp \in {tab.dataCmp, Nothing} THEN changed
             ELSE IF Pending(tab, {"save", "remove", "relist"}) = {} THEN {}
             ELSE ToSet(t.dataCmp.key.series)

\* The shell is mounted with the first selection and fetches.
MetaDataLoaded ==
  /\ page = "loading"
  /\ page' = "shell"
  /\ tab' = IF tab.sel.plot # None /\ tab.sel.sensor # None
              THEN fetchDataCmp(fetchMask(fetchData(tab))) ELSE tab
  /\ ComparisonFetched(tab')
  /\ UNCHANGED <<rows, clicks, fails>>

MetaDataFailed ==
  /\ page = "loading"
  /\ fails < MaxFails
  /\ page' = "failed"
  /\ fails' = fails + 1
  /\ UNCHANGED <<tab, rows, clicks, changed>>

retryLoad ==
  /\ page = "failed"
  /\ clicks < MaxClicks
  /\ page' = "loading"
  /\ clicks' = clicks + 1
  /\ UNCHANGED <<tab, rows, fails, changed>>

-----------------------------------------------------------------------------
(* The user                                                                *)

\* An open dialog is modal.
Clicks(free) ==
  /\ page = "shell"
  /\ free => ~tab.dialog
  /\ clicks < MaxClicks
  /\ Len(tab.flights) + 3 <= MaxFlights
  /\ clicks' = clicks + 1
  /\ UNCHANGED <<page, rows, fails>>

ChooseOneOf(choices) ==
  /\ Clicks(TRUE)
  /\ \E sel \in choices \ {tab.sel} : tab' = Choose(tab, sel)
  /\ ComparisonFetched(tab')

SelectProject == ChooseOneOf(ProjectChoices(tab.sel))
SelectGroup == ChooseOneOf(GroupChoices(tab.sel))
SelectPlot == ChooseOneOf(PlotChoices(tab.sel))
selectAdjacentPlot == ChooseOneOf({PreviousPlot(tab.sel), NextPlot(tab.sel)})
SelectSensor == ChooseOneOf(SensorChoices(tab.sel))
SelectAggregation == ChooseOneOf(AggregationChoices(tab.sel))
SelectQuality == ChooseOneOf(QualityChoices(tab.sel))
SelectSensorCmp == ChooseOneOf(CmpChoices(tab.sel))
SelectPlotCmp == ChooseOneOf(PlotCmpChoices(tab.sel))
selectAdjacentPlotCmp == ChooseOneOf({AdjacentPlotCmp(tab.sel, -1), AdjacentPlotCmp(tab.sel, 1)})
SwitchOption == ChooseOneOf(SwitchChoices(tab.sel))

\* Shift + click, shift + right click.
PickStart ==
  /\ Clicks(TRUE) /\ Viewing(tab)
  /\ \E x \in Time : tab' = Pick(tab, [tab.viewer EXCEPT !.start = x])
  /\ UNCHANGED changed
PickEnd ==
  /\ Clicks(TRUE) /\ Viewing(tab)
  /\ \E x \in Time : tab' = Pick(tab, [tab.viewer EXCEPT !.end = x])
  /\ UNCHANGED changed

\* The key is taken by the window, and by an open dialog too.
Escape ==
  /\ Clicks(FALSE)
  /\ Viewing(tab) \/ tab.dialog
  /\ tab' = [resetSelection(tab) EXCEPT !.dialog = FALSE]
  /\ UNCHANGED changed

Retry ==
  /\ Clicks(TRUE)
  /\ tab.dataError /\ ~tab.dataLoading /\ ~tab.cmpLoading
  /\ tab' = Render(fetchData(tab))
  /\ UNCHANGED changed

maskSelectionSave ==
  /\ Clicks(TRUE)
  /\ ~tab.saving
  /\ tab.picked # [start |-> None, end |-> None]
  /\ Len(rows) < MaxRows
  /\ tab' = Send([tab EXCEPT !.saving = TRUE], "save",
                 [series |-> At(tab.sel.plot, tab.sel.sensor), interval |-> tab.picked,
                  removed |-> FALSE])
  /\ UNCHANGED changed

OpenMaskList ==
  /\ Clicks(TRUE)
  /\ tab' = fetchMaskList([tab EXCEPT !.dialog = TRUE], "list")
  /\ UNCHANGED changed

CloseMaskList ==
  /\ Clicks(FALSE)
  /\ tab.dialog
  /\ tab' = [tab EXCEPT !.dialog = FALSE]
  /\ UNCHANGED changed

RetryMaskList ==
  /\ Clicks(FALSE)
  /\ tab.dialog /\ tab.listError /\ ~tab.listLoading
  /\ tab' = fetchMaskList(tab, "list")
  /\ UNCHANGED changed

\* The prompt is confirmed.
removeRow ==
  /\ Clicks(FALSE)
  /\ tab.dialog /\ tab.list # None /\ ~tab.listLoading /\ ~tab.listError /\ ~tab.removing
  /\ \E entry \in tab.list :
       /\ ~entry.row.removed
       /\ tab' = Send([tab EXCEPT !.removing = TRUE], "remove", entry)
  /\ UNCHANGED changed

-----------------------------------------------------------------------------
(* The network and the rests of the handlers                               *)

\* What a request does to the mask files.
Change(files, f) ==
  CASE f.kind = "save" -> Append(files, f.key)
    [] f.kind = "remove" -> [files EXCEPT ![f.key.line] = [f.key.row EXCEPT !.removed = TRUE]]
    [] OTHER -> files

SeriesOf(files) == {files[k].series : k \in DOMAIN files}
MaskedOtherwise(old, new) ==
  {s \in SeriesOf(old) \cup SeriesOf(new) : MasksOf(new, s) # MasksOf(old, s)}

Serve(kinds) ==
  \E i \in Pending(tab, kinds) :
    LET f == tab.flights[i]
    IN  /\ f.pc = "sent"
        /\ rows' = Change(rows, f)
        /\ changed' = changed \cup MaskedOtherwise(rows, rows')
        /\ tab' = [tab EXCEPT !.flights = [@ EXCEPT ![i].pc = "answered",
                                                   ![i].answer = AnswerTo(rows, f)]]
        /\ UNCHANGED <<page, clicks, fails>>

\* The kinds of flights that set the same state.
Rivals(kind) == IF kind \in {"list", "relist"} THEN {"list", "relist"} ELSE {kind}

\* Flight i has left.  If an earlier one of its kind is still to land, it is overtaken.
Landed(i) ==
  LET kinds == Rivals(tab.flights[i].kind)
  IN  [tab EXCEPT !.flights = RemoveAt(@, i),
                  !.tidy = @ /\ \A j \in Pending(tab, kinds) : j >= i]

\* Mutant: the end of a removal leaves removingRow set.
RemovedNeverDone(t) == AfterChange(t, rows)

\* MaskListDialog emits 'changed' when the list is there again.
Removed(t) == [AfterChange(t, rows) EXCEPT !.removing = FALSE]

\* The rest of a handler after an answer.
Continue(t, f) ==
  CASE f.kind = "data" ->
         [t EXCEPT !.data = Shown(f.key, f.answer), !.dataLoading = FALSE,
                   !.cache = Put(@, f.key, f.answer)]
    [] f.kind = "cmp" ->
         [t EXCEPT !.dataCmp = Shown(f.key, f.answer), !.cmpLoading = FALSE,
                   !.cache = Put(@, f.key, f.answer)]
    [] f.kind = "mask" -> [t EXCEPT !.mask = Shown(f.key, f.answer)]
    [] f.kind = "save" -> AfterChange([resetSelection(t) EXCEPT !.saving = FALSE], rows)
    [] f.kind = "list" -> [t EXCEPT !.list = f.answer, !.listLoading = FALSE]
    [] f.kind = "remove" ->
         LET again == fetchMaskList(t, "relist")
         IN  IF Pending(again, {"relist"}) = {} THEN Removed(again) ELSE again
    [] f.kind = "relist" -> Removed([t EXCEPT !.list = f.answer, !.listLoading = FALSE])

Land(kinds) ==
  \E i \in Pending(tab, kinds) :
    /\ tab.flights[i].pc = "answered"
    /\ tab' = Render(Continue(Landed(i), tab.flights[i]))
    /\ UNCHANGED <<page, rows, clicks, fails, changed>>

\* The rest of a handler after an error: of the server, or of the connection after the
\* server did its part.  Untidy: a change that the user is told has failed, and the masks
\* of the series before, if they came after the request that fails.
GiveUp(t, f) ==
  CASE f.kind = "data" -> [t EXCEPT !.data = Nothing, !.dataError = TRUE, !.dataLoading = FALSE]
    [] f.kind = "cmp" -> [t EXCEPT !.dataCmp = Nothing, !.cmpLoading = FALSE]
    [] f.kind = "mask" -> [t EXCEPT !.tidy = @ /\ t.mask = Nothing]
    [] f.kind = "save" -> [t EXCEPT !.saving = FALSE, !.tidy = @ /\ f.pc = "sent"]
    [] f.kind = "list" -> [t EXCEPT !.listError = TRUE, !.listLoading = FALSE]
    [] f.kind = "remove" -> [t EXCEPT !.removing = FALSE, !.tidy = @ /\ f.pc = "sent"]
    [] f.kind = "relist" -> Removed([t EXCEPT !.listError = TRUE, !.listLoading = FALSE])

Fail(kinds) ==
  \E i \in Pending(tab, kinds) :
    /\ fails < MaxFails
    /\ fails' = fails + 1
    /\ tab' = Render(GiveUp(Landed(i), tab.flights[i]))
    /\ UNCHANGED <<page, rows, clicks, changed>>

Kinds == {"data", "cmp", "mask", "save", "list", "remove", "relist"}

User ==
  \/ SelectProject \/ SelectGroup \/ SelectPlot \/ selectAdjacentPlot \/ SelectSensor
  \/ SelectAggregation \/ SelectQuality \/ SelectSensorCmp \/ SelectPlotCmp
  \/ selectAdjacentPlotCmp \/ SwitchOption
  \/ PickStart \/ PickEnd \/ Escape \/ Retry \/ maskSelectionSave
  \/ OpenMaskList \/ CloseMaskList \/ RetryMaskList \/ removeRow

Next ==
  \/ MetaDataLoaded \/ MetaDataFailed \/ retryLoad
  \/ User
  \/ Serve(Kinds) \/ Land(Kinds) \/ Fail(Kinds)

Spec == Init /\ [][Next]_vars

-----------------------------------------------------------------------------

\* However the choices cascade (Shell.vue, the watchers), what is selected is offered:
\* the plot in its group, both sensors at the plot in the selected aggregation.
SelectionOffered ==
  LET sel == tab.sel
  IN  /\ sel.group \in ToSet(groupOptions(sel)) \cup {None}
      /\ sel.plot \in ToSet(plotOptions(sel)) \cup {None}
      /\ {sel.sensor, sel.cmp} \subseteq ToSet(sensorOptions(sel)) \cup {None}
      /\ sel.sensor = None => sensorOptions(sel) = <<>>

\* The flags that disable buttons and show spinners are set only while the handler
\* that will reset them is under way, through errors and overlapping requests.
FlagsEnd ==
  /\ tab.saving <=> Pending(tab, {"save"}) # {}
  /\ tab.removing <=> Pending(tab, {"remove", "relist"}) # {}
  /\ tab.dataLoading => Pending(tab, {"data"}) # {}
  /\ tab.cmpLoading => Pending(tab, {"cmp"}) # {}
  /\ tab.listLoading => Pending(tab, {"list", "relist"}) # {}

Quiet == page = "shell" /\ tab.flights = <<>>

\* When nothing is under way and no answer came late (tidy), the diagram and the masks
\* drawn are those of the selected series, with all masks saved and removed, and the
\* cache holds nothing older.  The comparison diagram is that of the selected sensor, and
\* is as old as the masks are unchanged: AfterChange does not fetch it (Shell.vue), so the
\* series that were masked otherwise since it was fetched are shown as they were before.
TidyViewCurrent ==
  Quiet /\ tab.tidy =>
    LET sel == tab.sel
        current(key, kind) == AnswerTo(rows, [kind |-> kind, key |-> key])
    IN  /\ tab.data # Nothing => tab.data = Shown(DataKey(sel), current(DataKey(sel), "data"))
        /\ tab.data = Nothing => tab.dataError \/ sel.sensor = None
        /\ tab.mask # Nothing =>
             /\ tab.mask.key = At(sel.plot, sel.sensor)
             /\ MasksDrawn(tab) = IF sel.showMasks
                                   THEN UNION {Covered(i) : i \in current(tab.mask.key, "mask")}
                                   ELSE {}
        /\ tab.dataCmp # Nothing =>
             /\ sel.cmp # None /\ sel.separate
             /\ tab.dataCmp.key = CmpKey(sel)
             /\ \A k \in DOMAIN tab.dataCmp.key.series :
                  tab.dataCmp.key.series[k] \notin changed =>
                    tab.dataCmp.answer[k] = current(tab.dataCmp.key, "cmp")[k]
        /\ \A key \in DOMAIN tab.cache : tab.cache[key] = current(key, "data")

\* Each line that fetchData or fetchDataCmp asked for is drawn with a style of its own,
\* with and without comparison, in one diagram or two.
EveryLineStyled ==
  /\ tab.data # Nothing => StyledColumns(Len(tab.data.key.series) + 1) = Len(tab.data.key.series) + 1
  /\ tab.dataCmp # Nothing =>
       StyledColumnsCmp(Len(tab.dataCmp.key.series) + 1) = Len(tab.dataCmp.key.series) + 1

=============================================================================
