----------------------------- MODULE AppStatus -----------------------------
(***************************************************************************)
(* The page for the status of plots of the web application (StatusLayout),  *)
(* with the table and the report of a group and the dialog for the status   *)
(* and the tasks of one plot (plot-status-dialog).  The server keeps what   *)
(* was saved last (Handler_status2 and its file).                          *)
(***************************************************************************)
EXTENDS AppStore, Integers

CONSTANTS
  DefaultGroup,  \* project -> the default group or None
  Elapsed,       \* plot -> days since its newest data
  Voltage,       \* plot -> its newest voltage or None
  VoltageLimits, \* [watch, good, error]
  Text,          \* tasks that are a text, as they were before there was a list
  FirstNotes,    \* the file: plot -> its tasks, which are None, Text or a sequence of tasks
  ObjectText,    \* what the browser writes for a list of tasks that is not empty
  Terms,         \* what is searched for: [plots whose cells have it, texts that have it]
  MaxTasks       \* bound: the tasks of a plot

\* A text or a list of tasks, of which those that have a number have one of their own: the
\* dialog has given it.
ASSUME NotesAssumption ==
  /\ None \notin Nat \cup {Text}
  /\ \A plot \in DOMAIN FirstNotes :
       LET tasks == FirstNotes[plot]
       IN  \/ tasks \in {None, Text}
           \/ /\ tasks \in Seq(ToSet(tasks))
              /\ \A x \in ToSet(tasks) : DOMAIN x = {"task", "status", "id"} /\ x.id \in {None} \cup (Nat \ {0})
              /\ \A i, j \in DOMAIN tasks : tasks[i].id = tasks[j].id => i = j \/ tasks[i].id = None

VARIABLE notes   \* the file of the server: plot -> tasks

NoRow == [plot |-> None, tasks |-> None]

ClosedDialog ==
  [shown |-> FALSE, plot |-> None, loading |-> FALSE, error |-> FALSE, submitting |-> FALSE,
   row |-> NoRow, newTask |-> FALSE]

StatusPage ==
  [name |-> "status", view |-> "table", project |-> None, group |-> None, plot |-> None,
   rows |-> <<>>, loading |-> FALSE, outdated |-> FALSE, lowVoltage |-> FALSE, search |-> None, dialog |-> ClosedDialog]

-----------------------------------------------------------------------------
(* Selection                                                               *)

refresh(t) ==
  IF t.page.group = None THEN [t EXCEPT !.page.rows = <<>>]
  ELSE Send([t EXCEPT !.page.loading = TRUE], "rows", t.page.group)

\* watch plots: a single plot is selected, else all are shown.
watchPlotsOfGroup(t) ==
  LET offered == APlots[t.page.group]
  IN  [t EXCEPT !.page.plot = IF Len(offered) = 1 THEN offered ELSE None]

\* watch group and plots.
setGroup(t, group) == watchPlotsOfGroup(refresh([t EXCEPT !.page.group = group]))

\* watch groups: the default group of the project if it is one of its groups, else the first.
setProject(t, project) ==
  setGroup([t EXCEPT !.page.project = project],
           IF DefaultGroup[project] \in ToSet(AGroups[project]) THEN DefaultGroup[project]
           ELSE AGroups[project][1])

\* watch projects, when there is a model.
StatusModelSet(t) == setProject(t, AProjects[1])

\* The page asks for its rows when it is shown; its group is known then if the model is.
openStatusPage(t) ==
  LET shown == Route(t, StatusPage)
      chosen == setProject(shown, AProjects[1]).page
  IN  IF Loaded(t) THEN refresh([shown EXCEPT !.page.project = chosen.project, !.page.group = chosen.group])
      ELSE modelInit(shown)

OnStatus == OnPage("status") /\ Loaded(tab)
OnTable == OnStatus /\ ~tab.page.dialog.shown

selectProject ==
  /\ Click /\ OnTable
  /\ \E x \in ToSet(AProjects) \ {tab.page.project} :
       tab' = setProject(tab, x)
  /\ UNCHANGED notes

selectGroup ==
  /\ Click /\ OnTable
  /\ \E x \in ToSet(AGroups[tab.page.project]) \ {tab.page.group} :
       tab' = setGroup(tab, x)
  /\ UNCHANGED notes

selectPlot ==
  /\ Click /\ OnTable
  /\ Len(APlots[tab.page.group]) > 1
  /\ \E v \in {None} \cup {<<x>> : x \in ToSet(APlots[tab.page.group])} : tab' = [tab EXCEPT !.page.plot = v]
  /\ UNCHANGED notes

typeSearch ==
  /\ Click /\ OnTable /\ tab.page.view = "table"
  /\ \E x \in ({None} \cup Terms) \ {tab.page.search} : tab' = [tab EXCEPT !.page.search = x]
  /\ UNCHANGED notes

\* The kind of the table and the toggles of the report.
selectView ==
  /\ Click /\ OnTable
  /\ \/ tab.page.view = "table" /\ tab' = [tab EXCEPT !.page.view = "report"]
     \/ /\ tab.page.view = "report"
        /\ tab' \in {[tab EXCEPT !.page.view = "table"], [tab EXCEPT !.page.outdated = ~@],
                     [tab EXCEPT !.page.lowVoltage = ~@]}
  /\ UNCHANGED notes

-----------------------------------------------------------------------------
(* Rows                                                                    *)

rows(p) ==
  IF p.plot \in {None, <<>>} THEN p.rows
  ELSE Among(p.rows, {r \in ToSet(p.rows) : r.plot \in ToSet(p.plot)})

elapsedClass(days) ==
  CASE days > 365 -> "Lost"
    [] 42 < days /\ days <= 365 -> "SixWeeks"
    [] 14 < days /\ days <= 42 -> "TwoWeeks"
    [] 7 < days /\ days <= 14 -> "OneWeek"
    [] OTHER -> "Now"

voltageClass(v) ==
  CASE v = None -> "NaN"
    [] v # None /\ (v < 0 \/ v >= VoltageLimits.error) -> "NaN"
    [] v # None /\ v >= VoltageLimits.good /\ v < VoltageLimits.error -> "OK"
    [] v # None /\ v >= VoltageLimits.watch /\ v < VoltageLimits.good -> "WARN"
    [] OTHER -> "CRITICAL"

isDataMissing(plot) == elapsedClass(Elapsed[plot]) \in {"TwoWeeks", "SixWeeks"}
isLowVoltage(plot) == voltageClass(Voltage[plot]) \in {"WARN", "CRITICAL"}

Finished == {"done", "cancelled"}

\* Tasks from before there was a status are open.
StatusOf(task) == IF task.status = None THEN "open" ELSE task.status

\* The lines of the tasks of a row; a text is a single task.
TaskLines(row) ==
  LET line(id, text) == [plot |-> row.plot, id |-> id, task |-> text]
      visible == SelectSeq(row.tasks, LAMBDA x : StatusOf(x) \notin Finished)
  IN  CASE row.tasks = None -> <<>>
        [] row.tasks = Text -> <<line(<<"text", 0>>, Text)>>
        [] OTHER -> [k \in DOMAIN visible |-> line(<<"task", k>>, visible[k].task)]

\* Mutant: the low voltage of a plot whose data are missing has a line of its own.
MarksTwice(p, plot) ==
  LET line(id, text) == <<[plot |-> plot, id |-> id, task |-> text]>>
  IN  (IF p.outdated /\ isDataMissing(plot) THEN line(<<"auto_data", 0>>, "outdated") ELSE <<>>)
      \o (IF p.lowVoltage /\ isLowVoltage(plot) THEN line(<<"auto_voltage", 0>>, "low voltage") ELSE <<>>)

\* The line of a plot whose data are missing or whose voltage is low, if it is wanted.
Marks(p, plot) ==
  LET missing == p.outdated /\ isDataMissing(plot)
      low == p.lowVoltage /\ isLowVoltage(plot)
      line(id, text) == <<[plot |-> plot, id |-> id, task |-> text]>>
  IN  CASE missing /\ low -> line(<<"auto_data", 0>>, "outdated & low voltage")
        [] missing /\ ~low -> line(<<"auto_data", 0>>, "outdated")
        [] ~missing /\ low -> line(<<"auto_voltage", 0>>, "low voltage")
        [] OTHER -> <<>>

reportRows(p) ==
  LET shown == rows(p)
  IN  FlattenSeq([k \in DOMAIN shown |-> TaskLines(shown[k]) \o Marks(p, shown[k].plot)])

-----------------------------------------------------------------------------
(* Search and export                                                       *)

IsList(row) == row.tasks \notin {None, Text}

\* The texts of the tasks of a row that is exported.
tasksText(row) == {line.task : line \in ToSet(TaskLines(row))}

Finds(search, row, texts) == search = None \/ row.plot \in search.plots \/ texts \cap search.tasks # {}

\* The search of the table looks at what the columns are as texts: of a list of tasks that is
\* "[object Object]" for each of them, finished or not, and never what the tasks say.
columns(row) ==
  CASE IsList(row) /\ row.tasks # <<>> -> {ObjectText}
    [] IsList(row) /\ row.tasks = <<>> -> {}
    [] OTHER -> tasksText(row)
shownRows(p) == SelectSeq(rows(p), LAMBDA r : Finds(p.search, r, columns(r)))

\* The export has a search of its own.
tableExportRows(p) == SelectSeq(rows(p), LAMBDA r : Finds(p.search, r, tasksText(r)))

\* The file that the button for Excel makes, named by the group that is selected.
exportTable(p) == [group |-> p.group, rows |-> tableExportRows(p)]
exportReport(p) == [group |-> p.group, rows |-> reportRows(p)]

-----------------------------------------------------------------------------
(* The dialog                                                              *)

SetDialog(t, d) == [t EXCEPT !.page.dialog = d]

PlotsOfRows(lines) == {lines[k].plot : k \in DOMAIN lines}

\* A row of the table or a line of the report, whichever is shown.
Clickable(p) ==
  IF p.view = "table" THEN PlotsOfRows(shownRows(p)) ELSE PlotsOfRows(reportRows(p))

\* show and refresh of the dialog: an error shown before stays.
onRowClick ==
  /\ Click /\ OnTable
  /\ \E x \in Clickable(tab.page) :
       tab' = Send(SetDialog(tab, [tab.page.dialog EXCEPT !.shown = TRUE, !.plot = x, !.loading = TRUE]),
                   "dialog", x)
  /\ UNCHANGED notes

Closed(d) == [d EXCEPT !.shown = FALSE, !.newTask = FALSE]

closeDialog ==
  /\ Click /\ OnStatus /\ tab.page.dialog.shown
  /\ tab' = SetDialog(tab, Closed(tab.page.dialog))
  /\ UNCHANGED notes

TaskOf(text, status, id) == [task |-> text, status |-> status, id |-> id]

\* The first number that neither the tasks have nor those that were numbered before.
FreeNumber(tasks, before) ==
  LET used == {x.id : x \in ToSet(tasks) \cup ToSet(before)}
  IN  CHOOSE n \in 1..(Len(tasks) + 1) : n \notin used /\ \A m \in 1..(n - 1) : m \in used

\* One task after the other gets a number if it has none.
Numbered(tasks) ==
  LET number(before, x) == IF x.id = None THEN FreeNumber(tasks, before) ELSE x.id
      with(before, x) == Append(before, TaskOf(x.task, StatusOf(x), number(before, x)))
      numbered[n \in 0..Len(tasks)] == IF n = 0 THEN <<>> ELSE with(numbered[n - 1], tasks[n])
  IN  numbered[Len(tasks)]

normalizeTasks(tasks) ==
  CASE tasks = None -> <<>>
    [] tasks = Text -> <<TaskOf(Text, "open", 1)>>
    [] OTHER -> Numbered(tasks)

getNextTaskId(tasks) == Max({x.id : x \in ToSet(tasks)} \cup {0}) + 1

\* Mutant: whatever row arrives is shown.
AnyRowShown(t, f) ==
  SetDialog(t, [t.page.dialog EXCEPT !.loading = FALSE,
                !.row = [plot |-> f.key, tasks |-> normalizeTasks(f.answer)]])

\* The rest of refresh of the dialog: a row of another plot than the one shown is refused.
DialogLanded(t, f) ==
  LET d == t.page.dialog
      row == [plot |-> f.key, tasks |-> normalizeTasks(f.answer)]
  IN  SetDialog(t, IF f.key = d.plot THEN [d EXCEPT !.row = row, !.loading = FALSE]
                   ELSE [d EXCEPT !.row = NoRow, !.loading = FALSE, !.error = TRUE, !.plot = None])

DialogFailed(t, f) ==
  SetDialog(t, [t.page.dialog EXCEPT !.loading = FALSE, !.error = TRUE, !.plot = None])

\* What the dialog shows and can be changed.
Editing ==
  LET d == tab.page.dialog
  IN  OnStatus /\ d.shown /\ ~d.loading /\ ~d.error

Edits(dialogs) ==
  /\ Click /\ Editing
  /\ tab' \in {SetDialog(tab, d) : d \in dialogs}
  /\ UNCHANGED notes

typeNewTask == Edits({[tab.page.dialog EXCEPT !.newTask = ~@]})

\* The text of a new task is told by when it was added.
addTask ==
  LET d == tab.page.dialog
  IN  /\ Editing /\ d.newTask /\ Len(d.row.tasks) < MaxTasks
      /\ Edits({[d EXCEPT !.newTask = FALSE,
                          !.row.tasks = Append(@, TaskOf(clicks, "open", getNextTaskId(@)))]})

VisibleTask(d, k) == d.row.tasks[k].status \notin Finished

removeTask ==
  LET d == tab.page.dialog
  IN  /\ Editing
      /\ Edits({[d EXCEPT !.row.tasks = RemoveAt(@, k)] : k \in {j \in DOMAIN d.row.tasks : VisibleTask(d, j)}})

setTaskStatus ==
  LET d == tab.page.dialog
  IN  /\ Editing
      /\ \E v \in {"progress", "done"} :
           Edits({[d EXCEPT !.row.tasks[k].status = v] : k \in {j \in DOMAIN d.row.tasks : VisibleTask(d, j)}})

\* A task that was typed and not added is not lost: the status is not saved.
onSubmit ==
  /\ Click /\ Editing /\ ~tab.page.dialog.newTask /\ ~tab.page.dialog.submitting
  /\ tab' = Send([tab EXCEPT !.page.dialog.submitting = TRUE], "save", tab.page.dialog.row)
  /\ UNCHANGED notes

-----------------------------------------------------------------------------
(* The server and the answers                                              *)

\* The last status of a plot in the file is its status; a plot without one has no tasks.
handlePOST(row) == [x \in DOMAIN notes \cup {row.plot} |-> IF x = row.plot THEN row.tasks ELSE notes[x]]
entryOf(file, plot) == IF plot \in DOMAIN file THEN file[plot] ELSE None
rowsOf(file, group) ==
  [k \in DOMAIN APlots[group] |-> [plot |-> APlots[group][k], tasks |-> entryOf(file, APlots[group][k])]]

StatusKinds == {"rows", "dialog", "save"}

statusAnswer(f) ==
  CASE f.kind = "rows" -> rowsOf(notes, f.key)
    [] f.kind = "dialog" -> entryOf(notes, f.key)
    [] OTHER -> None

ServeStatus ==
  /\ \E i \in Pending(tab, StatusKinds) :
       LET f == tab.flights[i]
       IN  /\ f.pc = "sent"
           /\ notes' = IF f.kind = "save" THEN handlePOST(f.key) ELSE notes
           /\ tab' = [tab EXCEPT !.flights[i].pc = "answered", !.flights[i].answer = statusAnswer(f)]
  /\ UNCHANGED <<clicks, fails>>

\* A status that was saved when the page was left reaches the server or does not.
ServeOrphanSave ==
  /\ \E i \in Pending(tab, {"orphan"}) :
       /\ notes' \in {notes, handlePOST(tab.flights[i].key.key)}
       /\ tab' = Gone(i)
  /\ UNCHANGED <<clicks, fails>>

\* Mutant: the rows are not asked for again.
SavedOnly(t, f) ==
  CASE f.kind = "rows" -> [t EXCEPT !.page.rows = f.answer, !.page.loading = FALSE]
    [] f.kind = "dialog" -> DialogLanded(t, f)
    [] f.kind = "save" -> SetDialog(t, [Closed(t.page.dialog) EXCEPT !.submitting = FALSE])

\* A saved status closes the dialog - whatever it shows now - and the rows are asked for.
StatusLanded(t, f) ==
  CASE f.kind = "rows" -> [t EXCEPT !.page.rows = f.answer, !.page.loading = FALSE]
    [] f.kind = "dialog" -> DialogLanded(t, f)
    [] f.kind = "save" -> refresh(SetDialog(t, [Closed(t.page.dialog) EXCEPT !.submitting = FALSE]))

StatusFailed(t, f) ==
  CASE f.kind = "rows" -> [t EXCEPT !.page.rows = <<>>, !.page.loading = FALSE]
    [] f.kind = "dialog" -> DialogFailed(t, f)
    [] f.kind = "save" -> [t EXCEPT !.page.dialog.submitting = FALSE]

LandStatus == OnStatus /\ LandAnswered(StatusKinds, StatusLanded) /\ UNCHANGED notes
FailStatus == OnStatus /\ FailWith(StatusKinds, StatusFailed) /\ UNCHANGED notes

StatusNext ==
  \/ selectProject \/ selectGroup \/ selectPlot \/ typeSearch \/ selectView \/ onRowClick \/ closeDialog
  \/ typeNewTask \/ addTask \/ removeTask \/ setTaskStatus \/ onSubmit
  \/ ServeStatus \/ LandStatus \/ FailStatus

-----------------------------------------------------------------------------

\* In whatever order groups were chosen and statuses saved, as long as no answer was
\* overtaken: a page at rest shows the plots of its group and the tasks that the server has,
\* and it never waits for what does not come.
StatusExact ==
  LET p == tab.page
  IN  OnStatus =>
        /\ p.loading => Pending(tab, {"rows"}) # {}
        /\ p.dialog.submitting <=> Pending(tab, {"save"}) # {}
        /\ tab.tidy /\ fails = 0 /\ Pending(tab, StatusKinds) = {} =>
             p.rows = rowsOf(notes, p.group)

\* The dialog that can be saved is the one of the plot it names, even if the answer for
\* another plot came late; the numbers of its tasks, old or new, are different.
DialogExact ==
  LET d == tab.page.dialog
      distinct(tasks) == \A i, j \in DOMAIN tasks : tasks[i].id # None /\ (tasks[i].id = tasks[j].id => i = j)
  IN  OnStatus =>
        /\ Editing => d.row.plot = d.plot /\ distinct(d.row.tasks)
        /\ \A i \in Pending(tab, {"save"}) : distinct(tab.flights[i].key.tasks)

\* The report has a line for each task of the rows shown that is not finished, and exactly
\* one more for a plot that is outdated or low in voltage if that is wanted, which names
\* both; all lines have keys of their own.  What is exported, once all rows have come and
\* none of an earlier group after them, is of the group that names the file.
ReportExact ==
  OnStatus =>
    LET p == tab.page
        report == reportRows(p)
        linesOf(plot, ids) == {k \in DOMAIN report : report[k].plot = plot /\ report[k].id[1] \in ids}
        auto == {"auto_data", "auto_voltage"}
        open(row) == IF row.tasks = None THEN {}
                     ELSE IF row.tasks = Text THEN {1}
                     ELSE {k \in DOMAIN row.tasks : StatusOf(row.tasks[k]) \notin Finished}
    IN  /\ \A i, j \in DOMAIN report : report[i].plot = report[j].plot /\ report[i].id = report[j].id => i = j
        /\ \A row \in ToSet(rows(p)) :
             LET outdated == p.outdated /\ Elapsed[row.plot] \in 15..365
                 low == /\ p.lowVoltage /\ Voltage[row.plot] # None
                        /\ Voltage[row.plot] \in 0..(VoltageLimits.good - 1)
                 marks == linesOf(row.plot, auto)
             IN  /\ Cardinality(marks) = (IF outdated \/ low THEN 1 ELSE 0)
                 /\ \A k \in marks :
                      /\ report[k].task \in {"outdated", "outdated & low voltage"} <=> outdated
                      /\ report[k].task = "low voltage" <=> low /\ ~outdated
                      /\ report[k].task = "outdated & low voltage" <=> low /\ outdated
                 /\ Cardinality(linesOf(row.plot, {"text", "task"})) = Cardinality(open(row))
        /\ tab.tidy /\ Pending(tab, {"rows"}) = {} =>
             LET ofGroup(file) == PlotsOfRows(file.rows) \subseteq ToSet(APlots[file.group])
             IN  ofGroup(exportTable(p)) /\ ofGroup(exportReport(p))
=============================================================================
