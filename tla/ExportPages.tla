---------------------------- MODULE ExportPages ----------------------------
(***************************************************************************)
(* The pages of the web client that configure and run an export             *)
(* (webcontent/export*.js) and the session they share on the server         *)
(* (TsDBExportAPIHandler, ExportModel, ZipExportProxy).  A page loads the   *)
(* part of the session it edits and posts it back; the settings are posted  *)
(* as a whole by the time page and by the settings page.                    *)
(***************************************************************************)
EXTENDS Browser

CONSTANTS
  Regions,          \* the regions of the user, in order
  GeneralsOf,       \* region -> its general stations, in order
  PlotsOfGeneral,   \* general station -> its plots, in order
  SensorsOfRegion,  \* region -> its sensors, raw ones too, in order
  Aggregable,       \* the sensors that can be aggregated
  YearsOf,          \* region -> the years of its view, in order
  Steps             \* the aggregations of time, with "raw"

VARIABLES
  session,  \* the ExportModel of the user's session
  job       \* the ZipExportProxy of the last export that was created

PlotsOf(region) ==
  FlattenSeq([k \in DOMAIN GeneralsOf[region] |-> PlotsOfGeneral[GeneralsOf[region][k]]])

-----------------------------------------------------------------------------
(* The session on the server                                               *)

FirstSettings ==
  [timestep |-> "hour", spatial |-> "separate", type |-> "all", year |-> 2, from |-> 1, to |-> 2,
   dates |-> "valid", allinone |-> TRUE, casted |-> FALSE, col_plotid |-> TRUE, quality |-> "step"]

\* The fields apply_settings takes before it comes to the timespan.
Options == {"timestep", "spatial", "allinone", "casted", "col_plotid", "quality"}

resetModel ==
  [region |-> Regions[1], plots |-> <<>>, sensors |-> <<>>, settings |-> FirstSettings]

\* A select without options has no value; a date is parsed before it is taken.
Parses(json) ==
  CASE json.type = "all" -> TRUE
    [] json.type = "year" -> json.year # None
    [] json.type = "years" -> json.from # None
    [] json.type = "dates" -> json.dates = "valid"

\* Only the fields of the chosen type are taken, years in order.
WithTimespan(old, json) ==
  CASE json.type = "all" -> [old EXCEPT !.type = "all"]
    [] json.type = "year" -> [old EXCEPT !.type = "year", !.year = json.year]
    [] json.type = "years" ->
         [old EXCEPT !.type = "years",
                     !.from = IF json.from > json.to THEN json.to ELSE json.from,
                     !.to = IF json.from > json.to THEN json.from ELSE json.to]
    [] json.type = "dates" -> [old EXCEPT !.type = "dates", !.dates = json.dates]

\* A timespan that does not parse fails the request when the options are taken already.
apply_settings(old, json) ==
  LET taken == [x \in DOMAIN old |-> IF x \in Options THEN json[x] ELSE old[x]]
  IN  IF Parses(json) THEN WithTimespan(taken, json) ELSE taken

apply_sensors(s, lines) ==
  IF s.settings.timestep = "raw" THEN lines
  ELSE SelectSeq(lines, LAMBDA x : x \in Aggregable)

\* Mutant: the plots and the sensors of the old region stay.
ApplyRegionKeepPlots(s, region) == IF region = None THEN s ELSE [s EXCEPT !.region = region]

\* "[region]", posted when no radio is checked, is no region.
handle_apply_region(s, region) ==
  IF region \in {None, s.region} THEN s
  ELSE [s EXCEPT !.region = region, !.plots = <<>>, !.sensors = <<>>]

Posts == {"apply_region", "apply_plots", "apply_sensors", "apply_settings", "reset"}
Gets == {"region", "region_list", "plots", "sensors", "settings", "general_list", "plot_list",
         "sensor_list", "region_json"}

\* What a post does to the session, and if it is answered with an error.
Applied(s, f) ==
  CASE f.kind = "apply_region" -> handle_apply_region(s, f.key)
    [] f.kind = "apply_plots" -> [s EXCEPT !.plots = f.key]
    [] f.kind = "apply_sensors" -> [s EXCEPT !.sensors = apply_sensors(s, f.key)]
    [] f.kind = "apply_settings" -> [s EXCEPT !.settings = apply_settings(@, f.key)]
    [] f.kind = "reset" -> resetModel
Refused(f) ==
  \/ f.kind = "apply_region" /\ f.key = None
  \/ f.kind = "apply_settings" /\ ~Parses(f.key)

AnswerOf(s, f) ==
  CASE f.kind = "region" -> s.region
    [] f.kind = "plots" -> s.plots
    [] f.kind = "sensors" -> s.sensors
    [] f.kind = "settings" -> s.settings
    [] f.kind = "region_list" -> Regions
    [] f.kind = "general_list" -> GeneralsOf[f.key]
    [] f.kind = "plot_list" -> IF f.key \in DOMAIN GeneralsOf THEN PlotsOf(f.key) ELSE PlotsOfGeneral[f.key]
    [] f.kind = "sensor_list" -> SensorsOfRegion[f.key]
    [] f.kind = "region_json" -> YearsOf[s.region]
    [] OTHER -> ~Refused(f)

-----------------------------------------------------------------------------
(* The pages                                                               *)

incTask(t) == [t EXCEPT !.page.tasks = @ + 1]
decTask(t) == [t EXCEPT !.page.tasks = @ - 1]

\* A script fails between incTask and decTask.
Crash(t) == [t EXCEPT !.page.stuck = @ + 1]

Ask(t, kind, key) == Send(incTask(t), kind, key)

NewPage(name) == [name |-> name, tasks |-> 0, stuck |-> 0]

Show(t, page) == Leave(t, page, Posts)

\* export.js
openExport(t) ==
  LET new == [region |-> None, plots |-> None, sensors |-> None, settings |-> None,
              choosable |-> TRUE] @@ NewPage("export")
      asked == Ask(Ask(Ask(Ask(Show(t, new), "region", None), "plots", None), "sensors", None),
                   "settings", None)
  IN  Send(asked, "region_list", None)

\* export_region.js
openRegion(t) ==
  Ask(Show(t, [radios |-> <<>>, checked |-> None] @@ NewPage("region")), "region_list", None)

\* export_plots.js
openPlots(t) ==
  LET new == [chosen |-> <<>>, available |-> <<>>, generals |-> <<>>, general |-> None]
             @@ NewPage("plots")
  IN  Ask(Send(Show(t, new), "plots", None), "region", "generals")

\* export_sensors.js
openSensors(t) ==
  LET new == [chosen |-> <<>>, available |-> <<>>, busy |-> 1] @@ NewPage("sensors")
  IN  Ask(Send(Show(t, new), "sensors", None), "region", None)

\* export_time.js
openTime(t) ==
  LET new == [json |-> None, form |-> None, options |-> <<>>] @@ NewPage("time")
  IN  Ask(Show(t, new), "settings", None)

\* export_settings.js
openSettings(t) ==
  Ask(Show(t, [json |-> None, form |-> None] @@ NewPage("settings")), "settings", None)

\* export_create.js
openCreate(t) ==
  Send(Show(t, [status |-> "start", id |-> None, output |-> <<>>, processed |-> 0, total |-> 0,
                download |-> None] @@ NewPage("create")), "create", None)

Open(t, name) ==
  CASE name = "export" -> openExport(t)
    [] name = "region" -> openRegion(t)
    [] name = "plots" -> openPlots(t)
    [] name = "sensors" -> openSensors(t)
    [] name = "time" -> openTime(t)
    [] name = "settings" -> openSettings(t)
    [] name = "create" -> openCreate(t)

On(name) == tab.page.name = name

-----------------------------------------------------------------------------
(* The lists of chosen and of available plots or sensors                   *)

\* The options of available_select.
update_available_select(p) == SelectSeq(p.available, LAMBDA x : x \notin ToSet(p.chosen))

\* The items of a sequence at some positions, in order.
At(s, positions) == [k \in 1..Cardinality(positions) |-> s[SetToSortSeq(positions, <)[k]]]

\* The pages' buttons and double clicks: choose selected, remove selected, choose all,
\* remove all.  A double click where no option is selected chooses undefined.
Edits(p) ==
  LET offered == update_available_select(p)
      chosen  == p.chosen
  IN  {[p EXCEPT !.chosen = chosen \o At(offered, s)] : s \in SUBSET DOMAIN offered}
      \cup {[p EXCEPT !.chosen = At(chosen, s)] : s \in SUBSET DOMAIN chosen}
      \cup {[p EXCEPT !.chosen = Append(chosen, None)]}

editPlots ==
  /\ Click /\ On("plots")
  /\ \E p \in Edits(tab.page) \ {tab.page} : tab' = [tab EXCEPT !.page = p]
  /\ UNCHANGED <<session, job>>

\* The busy mark is set and reset within the handler.
editSensors ==
  /\ Click /\ On("sensors")
  /\ \E p \in Edits(tab.page) \ {tab.page} : tab' = [tab EXCEPT !.page = p]
  /\ UNCHANGED <<session, job>>

\* The list is emptied now and filled when the answer comes.
update_filtered_available_select(t) ==
  LET filters == {i \in Pending(t, {"region"}) : t.flights[i].key = "filter"}
      now == UntidyIf([t EXCEPT !.page.available = <<>>],
                      Pending(t, {"plot_list"}) \cup filters # {})
  IN  IF t.page.general = "all" THEN Ask(now, "region", "filter")
      ELSE Send(now, "plot_list", t.page.general)

selectGeneral ==
  /\ Click /\ On("plots")
  /\ \E g \in (ToSet(tab.page.generals) \cup {"all"}) \ {tab.page.general} :
       /\ tab.page.general # None
       /\ tab' = update_filtered_available_select([tab EXCEPT !.page.general = g])
  /\ UNCHANGED <<session, job>>

-----------------------------------------------------------------------------
(* The forms                                                               *)

selectRegion ==
  /\ Click /\ On("region")
  /\ \E r \in ToSet(tab.page.radios) \ {tab.page.checked} : tab' = [tab EXCEPT !.page.checked = r]
  /\ UNCHANGED <<session, job>>

\* What the user may change in the form of the time page; only the fields of the
\* selected type are enabled.  Before the settings are there the form is as in the page.
TimeEdits(p) ==
  LET f == p.form
  IN  {[f EXCEPT !.type = x] : x \in {"all", "year", "years", "dates"}}
      \cup {[f EXCEPT !.timestep = x] : x \in Steps}
      \cup {[f EXCEPT !.spatial = x] : x \in {"separate", "aggregated"}}
      \cup (IF f.type = "year" THEN {[f EXCEPT !.year = x] : x \in ToSet(p.options)} ELSE {})
      \cup (IF f.type = "years"
              THEN {[f EXCEPT !.from = x, !.to = y] : x, y \in ToSet(p.options)} ELSE {})
      \cup (IF f.type = "dates" THEN {[f EXCEPT !.dates = x] : x \in {"valid", "wrong"}} ELSE {})

editTime ==
  /\ Click /\ On("time") /\ tab.page.form # None
  /\ \E f \in TimeEdits(tab.page) \ {tab.page.form} : tab' = [tab EXCEPT !.page.form = f]
  /\ UNCHANGED <<session, job>>

\* update(): what is enabled in the form of the settings page, with the aggregation and
\* the spatial aggregation of the settings that were loaded.
update(p) ==
  LET separate == p.json.spatial # "aggregated"
  IN  (IF separate THEN {"allinone"} ELSE {})
      \cup (IF separate /\ p.form.allinone THEN {"casted"} ELSE {})
      \cup (IF separate /\ ~(p.form.allinone /\ p.form.casted) THEN {"col_plotid"} ELSE {})

editSettings ==
  /\ Click /\ On("settings") /\ tab.page.form # None
  /\ \/ \E x \in update(tab.page) : tab' = [tab EXCEPT !.page.form[x] = ~@]
     \/ /\ tab.page.json.timestep # "raw"
        /\ \E q \in {"no", "step"} \ {tab.page.form.quality} : tab' = [tab EXCEPT !.page.form.quality = q]
  /\ UNCHANGED <<session, job>>

-----------------------------------------------------------------------------
(* Apply, cancel and the other buttons                                     *)

applyRegion ==
  /\ Click /\ On("region")
  /\ tab' = Ask(tab, "apply_region", tab.page.checked)
  /\ UNCHANGED <<session, job>>

applyPlots ==
  /\ Click /\ On("plots")
  /\ tab' = Send(tab, "apply_plots", tab.page.chosen)
  /\ UNCHANGED <<session, job>>

applySensors ==
  /\ Click /\ On("sensors")
  /\ tab' = Send([tab EXCEPT !.page.busy = @ + 1], "apply_sensors", tab.page.chosen)
  /\ UNCHANGED <<session, job>>

\* on_apply and on_apply_go write what the form says into the settings that were loaded
\* and post them all.  Without settings they fail after incTask.
Written(p, fields) == [x \in DOMAIN p.json |-> IF x \in fields THEN p.form[x] ELSE p.json[x]]
TimeFields(type) ==
  {"spatial", "timestep", "type"}
  \cup (CASE type = "year" -> {"year"} [] type = "years" -> {"from", "to"}
          [] type = "dates" -> {"dates"} [] OTHER -> {})

applyTime ==
  /\ Click /\ On("time")
  /\ tab' = IF tab.page.json = None THEN Crash(incTask(tab))
            ELSE LET posted == Written(tab.page, TimeFields(tab.page.form.type))
                 IN  Ask([tab EXCEPT !.page.json = posted], "apply_settings", posted)
  /\ UNCHANGED <<session, job>>

applySettings ==
  /\ Click /\ On("settings")
  /\ tab' = IF tab.page.json = None THEN Crash(incTask(tab))
            ELSE LET posted == Written(tab.page, {"allinone", "casted", "col_plotid", "quality"})
                 IN  Ask([tab EXCEPT !.page.json = posted], "apply_settings", posted)
  /\ UNCHANGED <<session, job>>

cancel ==
  /\ Click
  /\ tab.page.name \in {"region", "plots", "sensors", "time", "settings", "create"}
  /\ tab' = openExport(tab)
  /\ UNCHANGED <<session, job>>

\* The buttons of the overview.
choose ==
  /\ Click /\ On("export")
  /\ \E name \in {"region", "plots", "sensors", "time", "settings", "create"} :
       /\ name = "region" => tab.page.choosable
       /\ tab' = Open(tab, name)
  /\ UNCHANGED <<session, job>>

reset ==
  /\ Click /\ On("export")
  /\ tab' = Ask(tab, "reset", None)
  /\ UNCHANGED <<session, job>>

-----------------------------------------------------------------------------
(* Answers                                                                 *)

\* The page after a post: Apply returns to the overview, Apply and go on goes to the next page.
AfterPost(name) ==
  CASE name = "region" -> {"export", "plots"}
    [] name = "plots" -> {"export", "sensors"}
    [] name = "sensors" -> {"export", "time"}
    [] name = "time" -> {"export", "settings"}
    [] name \in {"settings", "export"} -> {"export"}

\* Items the selects of the time page can show: a value is lost if it is no option, and the
\* first option to be appended is selected.
FormOf(json) == [json EXCEPT !.year = None, !.from = None, !.to = None]
Appended(form, years) ==
  IF years = <<>> THEN form
  ELSE [form EXCEPT !.year = years[1], !.from = years[1], !.to = years[1]]

\* The rest of a handler that got data.
Loaded(t, f) ==
  CASE On("export") /\ f.kind = "region_list" -> [t EXCEPT !.page.choosable = Len(f.answer) > 1]
    [] On("export") /\ f.kind # "region_list" -> decTask([t EXCEPT !.page[f.kind] = f.answer])
    [] On("region") /\ f.kind = "region_list" ->
         decTask(Ask([t EXCEPT !.page.radios = f.answer], "region", None))
    [] On("region") /\ f.kind = "region" -> decTask([t EXCEPT !.page.checked = f.answer])
    [] On("plots") /\ f.kind = "plots" -> [t EXCEPT !.page.chosen = f.answer]
    [] On("plots") /\ f.kind = "region" /\ f.key = "generals" ->
         decTask(Ask(t, "general_list", f.answer))
    [] On("plots") /\ f.kind = "general_list" ->
         decTask(update_filtered_available_select(
           [t EXCEPT !.page.generals = f.answer, !.page.general = "all"]))
    [] On("plots") /\ f.kind = "region" /\ f.key # "generals" -> decTask(Send(t, "plot_list", f.answer))
    [] On("plots") /\ f.kind = "plot_list" -> [t EXCEPT !.page.available = @ \o f.answer]
    [] On("sensors") /\ f.kind = "region" ->
         decTask(Send([t EXCEPT !.page.busy = @ + 1], "sensor_list", f.answer))
    [] On("sensors") /\ f.kind = "sensors" ->
         [t EXCEPT !.page.chosen = f.answer, !.page.busy = @ - 1]
    [] On("sensors") /\ f.kind = "sensor_list" -> [t EXCEPT !.page.available = f.answer, !.page.busy = @ - 1]
    [] On("time") /\ f.kind = "settings" ->
         decTask(Ask([t EXCEPT !.page.json = f.answer, !.page.form = FormOf(f.answer)],
                     "region_json", None))
    [] On("time") /\ f.kind = "region_json" ->
         decTask([t EXCEPT !.page.options = f.answer, !.page.form = Appended(@, f.answer)])
    [] On("settings") -> decTask([t EXCEPT !.page.json = f.answer, !.page.form = f.answer])

\* The rest of a handler whose request failed.  The region page fails itself when the
\* list fails.
NotLoaded(t, f) ==
  CASE On("region") /\ f.kind = "region_list" -> Crash(t)
    [] (~On("region") /\ f.kind = "region_list") \/ (On("plots") /\ f.kind \in {"plots", "plot_list"}) -> t
    [] On("sensors") /\ f.kind # "region" -> [t EXCEPT !.page.busy = @ - 1]
    [] OTHER -> decTask(t)

\* The server handles a request; its answer is still to come.  As long as no post is under
\* way it does not matter when a get is served: LandGet does it.
Serve ==
  /\ \E i \in Pending(tab, Posts \cup Gets) :
       LET f == tab.flights[i]
       IN  /\ f.pc = "sent"
           /\ Pending(tab, Posts \cup {"orphan"}) # {}
           /\ session' = IF f.kind \in Posts THEN Applied(session, f) ELSE session
           /\ tab' = [tab EXCEPT !.flights[i].pc = "answered",
                                 !.flights[i].answer = AnswerOf(session, f)]
  /\ UNCHANGED <<clicks, fails, job>>

\* A post whose page was left is served, or was never sent.
ServeOrphan ==
  /\ \E i \in Pending(tab, {"orphan"}) :
       /\ session' \in {session, Applied(session, tab.flights[i].key)}
       /\ tab' = Gone(i)
  /\ UNCHANGED <<clicks, fails, job>>

LandGet ==
  /\ LandWith(Gets, LAMBDA f : IF f.pc = "sent" THEN AnswerOf(session, f) ELSE f.answer, Loaded)
  /\ UNCHANGED <<session, job>>
FailGet == FailWith(Gets, NotLoaded) /\ UNCHANGED <<session, job>>

\* A post succeeded: the next page, whatever else was under way.
LandPost ==
  /\ \E i \in Pending(tab, Posts) :
       LET f == tab.flights[i]
       IN  /\ f.pc = "answered" /\ f.answer
           /\ \E name \in AfterPost(tab.page.name) : tab' = Open(Gone(i), name)
  /\ UNCHANGED <<clicks, fails, session, job>>

\* The server refused it or it failed on its way: an alert, and the page stays.
FailPost ==
  /\ \E i \in Pending(tab, Posts) :
       LET f == tab.flights[i]
       IN  /\ \/ f.pc = "answered" /\ ~f.answer /\ UNCHANGED <<clicks, fails>>
              \/ (f.pc = "answered" => f.answer) /\ Fails
           /\ tab' = CASE f.kind = "apply_sensors" -> [Gone(i) EXCEPT !.page.busy = @ - 1]
                       [] f.kind = "apply_plots" -> Gone(i)
                       [] OTHER -> decTask(Gone(i))
  /\ UNCHANGED <<session, job>>

-----------------------------------------------------------------------------
(* Creating the zip file                                                   *)

NoJob == [state |-> "none", plots |-> <<>>, printed |-> 0, lines |-> <<>>, processed |-> 0]

\* handle_create: the job takes the plots of the session, answers their number and starts.
handle_create ==
  /\ \E i \in Pending(tab, {"create"}) :
       /\ tab.flights[i].pc = "sent"
       /\ tab' = [tab EXCEPT !.flights[i].pc = "answered", !.flights[i].answer = Len(session.plots)]
       /\ job' = [NoJob EXCEPT !.state = "running", !.plots = session.plots]
  /\ UNCHANGED <<clicks, fails, session>>

\* The worker's thread: a line for each plot, printed while the clients poll.
WorkPlot ==
  /\ job.state = "running" /\ job.processed < Len(job.plots)
  /\ job' = [job EXCEPT !.printed = @ + 1, !.lines = Append(@, job.printed + 1), !.processed = @ + 1]
  /\ UNCHANGED <<browser, session>>

\* finished is set at the end and when the export fails.
WorkEnd ==
  /\ job.state = "running"
  /\ job.processed = Len(job.plots) \/ fails < MaxFails
  /\ fails' = IF job.processed = Len(job.plots) THEN fails ELSE fails + 1
  /\ job' = [job EXCEPT !.state = "finished"]
  /\ UNCHANGED <<tab, clicks, session>>

\* handle_create_get_output reads finished, then takes the lines, then reads the number of
\* processed plots, while the worker goes on.
ReadFinished(f) == [f EXCEPT !.pc = "read", !.answer = [finished |-> job.state = "finished"]]
TakeLines(f) ==
  [f EXCEPT !.pc = "answered", !.answer = [lines |-> job.lines, processed |-> job.processed] @@ @]

\* Mutant: the lines are taken first.
LinesThenFinished(f, step) ==
  IF step = "sent"
    THEN [f EXCEPT !.pc = "read", !.answer = [lines |-> job.lines]]
    ELSE [f EXCEPT !.pc = "answered",
                   !.answer = [finished |-> job.state = "finished", processed |-> job.processed] @@ @]

PollStep(f, step) == IF step = "sent" THEN ReadFinished(f) ELSE TakeLines(f)

\* The step in which the lines are taken empties them.
handle_create_get_output ==
  /\ \E i \in Pending(tab, {"output"}) :
       LET f == tab.flights[i]
           g == PollStep(f, f.pc)
       IN  /\ f.pc \in {"sent", "read"}
           /\ tab' = [tab EXCEPT !.flights[i] = g]
           /\ job' = IF "lines" \in DOMAIN g.answer /\ (f.pc = "read" => "lines" \notin DOMAIN f.answer)
                       THEN [job EXCEPT !.lines = <<>>] ELSE job
  /\ UNCHANGED <<clicks, fails, session>>

\* get_output is called again until the job is finished.
get_output(t, f) ==
  CASE f.kind = "create" ->
         Send([t EXCEPT !.page.status = "polling", !.page.total = f.answer], "output", None)
    [] f.kind = "output" ->
         LET shown == [t EXCEPT !.page.output = @ \o f.answer.lines,
                                !.page.processed = f.answer.processed]
         IN  IF f.answer.finished
               THEN [shown EXCEPT !.page.status = "ready", !.page.download = "file"]
               ELSE Send(shown, "output", None)

LandJob == LandAnswered({"create", "output"}, get_output) /\ UNCHANGED <<session, job>>

\* The output tells of the error.
FailJob ==
  /\ FailWith({"create", "output"},
              LAMBDA t, f : [t EXCEPT !.page.status = IF f.kind = "create" THEN "error" ELSE "ready"])
  /\ UNCHANGED <<session, job>>

-----------------------------------------------------------------------------

\* A new session, or one of an earlier visit, with all plots and sensors of its region and
\* some years.
ExportInit ==
  /\ session \in {resetModel,
                  [resetModel EXCEPT !.plots = PlotsOf(Regions[1]),
                                     !.sensors = SensorsOfRegion[Regions[1]],
                                     !.settings.type = "years"]}
  /\ job = NoJob

ExportNext ==
  \/ choose \/ reset \/ cancel
  \/ selectRegion \/ editPlots \/ selectGeneral \/ editSensors \/ editTime \/ editSettings
  \/ applyRegion \/ applyPlots \/ applySensors \/ applyTime \/ applySettings
  \/ Serve \/ ServeOrphan \/ LandGet \/ FailGet \/ LandPost \/ FailPost
  \/ handle_create \/ WorkPlot \/ WorkEnd \/ handle_create_get_output \/ LandJob \/ FailJob

OnExport == tab.page.name \in {"export", "region", "plots", "sensors", "time", "settings", "create"}

-----------------------------------------------------------------------------

\* What holds a page's indicator of work.
Counted(name) ==
  CASE name = "export" -> {"region", "plots", "sensors", "settings", "reset"}
    [] name = "region" -> {"region", "region_list", "apply_region"}
    [] name = "plots" -> {"region", "general_list"}
    [] name = "sensors" -> {"region"}
    [] name = "time" -> {"settings", "region_json", "apply_settings"}
    [] name = "settings" -> {"settings", "apply_settings"}
    [] name = "create" -> {}

\* A page shows that it is at work exactly as long as one of its requests is under way,
\* whatever fails; a handler that crashed leaves it at work for ever.
ExportBusy ==
  OnExport =>
    LET p == tab.page
    IN  /\ p.tasks = Cardinality(Pending(tab, Counted(p.name))) + p.stuck
        /\ p.name = "sensors" =>
             p.busy = Cardinality(Pending(tab, {"sensors", "sensor_list", "apply_sensors"}))

\* The session can always be exported: its plots and sensors are of its region, no plot or
\* sensor is there twice, and its timespan is one - whatever was posted, refused or lost, as
\* long as no two answers met on a page.
\* (None: double clicks where no option is.)
SessionExportable ==
  tab.tidy =>
    /\ ToSet(session.plots) \subseteq ToSet(PlotsOf(session.region)) \cup {None}
    /\ ToSet(session.sensors) \subseteq ToSet(SensorsOfRegion[session.region]) \cup {None}
    /\ \A list \in {session.plots, session.sensors} :
         \A j, k \in DOMAIN list : j # k /\ list[j] = list[k] => list[j] = None
    /\ Parses(session.settings)
    /\ session.settings.type = "years" => session.settings.from <= session.settings.to

\* Whenever the page offers the file, unless a request failed, the lines it shows are all
\* that the job has printed, in order, and the job is finished.
OutputComplete ==
  tab.page.name = "create" /\ tab.page.download # None /\ tab.tidy =>
    /\ job.state = "finished"
    /\ job.lines = <<>>
    /\ tab.page.output = [k \in 1..job.printed |-> k]

\* When no request failed or came late and none is under way, the page shows the session,
\* and offers what the session's region has.
ExportCurrent ==
  LET p == tab.page
  IN  CASE p.name = "export" -> \A x \in {"region", "plots", "sensors", "settings"} : p[x] = session[x]
        [] p.name = "region" -> p.radios = Regions
        [] p.name = "plots" ->
             p.available = (IF p.general = "all" THEN PlotsOf(session.region) ELSE PlotsOfGeneral[p.general])
        [] p.name = "sensors" -> p.available = SensorsOfRegion[session.region]
        [] p.name = "time" -> p.options = YearsOf[session.region]
        [] OTHER -> TRUE
=============================================================================
