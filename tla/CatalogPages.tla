---------------------------- MODULE CatalogPages ----------------------------
(***************************************************************************)
(* Two pages of the web client with a cascade of choices: the catalog of    *)
(* the sources of a plot (webcontent/catalog) and the status of the plots   *)
(* of a group (webcontent/status2).  A choice empties what depends on it    *)
(* and asks for the next list; its first entry is chosen when it comes.     *)
(* No handler looks if the choice is still the same.                        *)
(*                                                                          *)
(* The watchers of what changed run right after the handler.                *)
(***************************************************************************)
EXTENDS Browser

CONSTANTS
  Projects,     \* the projects, in order
  GroupsOf,     \* project -> its plot groups, in order
  PlotsOfGroup, \* plot group -> its plots, in order
  Sources,      \* plot -> the rows of its catalog: [first, last : month number, rows : Nat]
  StatusOf,     \* plot -> its status: [last : time or None, message : text or None]
  FirstYear,    \* the first year of the filter
  LastYear      \* the last year of the filter

\* "*" is the first entry of each list of groups.
AllGroups == "*"
GroupList(project) == <<AllGroups>> \o GroupsOf[project]

\* The answer to plot_list and status, which name the project for "*" and the group else.
PlotList(key) ==
  IF key.group = AllGroups
    THEN FlattenSeq([k \in DOMAIN GroupsOf[key.project] |-> PlotsOfGroup[GroupsOf[key.project][k]]])
    ELSE PlotsOfGroup[key.group]

-----------------------------------------------------------------------------
(* catalog.js                                                              *)

openCatalog(t) ==
  Send(Leave(t, [name |-> "catalog", ready |-> FALSE, error |-> FALSE, projects |-> <<>>,
                 project |-> None, groups |-> <<>>, group |-> None, plots |-> <<>>, plot |-> None,
                 year |-> None, month |-> 0, table |-> None, sortKey |-> "first",
                 order |-> [first |-> 1, rows |-> 1]], {}),
       "projects", None)

\* The watchers of project, plotGroup and plot run, in this order, if their value changed.
\* An undefined plot is asked for like any other.
SettleCatalog(t, old) ==
  LET project == t.page.project # old.project
      one == IF project
               THEN Send([t EXCEPT !.page.error = FALSE, !.page.groups = <<>>, !.page.group = None],
                         "groups", t.page.project) ELSE t
      two == IF one.page.group = old.group THEN one
             ELSE LET empty == [one EXCEPT !.page.error = FALSE, !.page.plots = <<>>,
                                           !.page.plot = None]
                  IN  IF empty.page.group = None THEN empty
                      ELSE Send(empty, "plots", [project |-> empty.page.project,
                                                 group |-> empty.page.group])
  IN  IF two.page.plot = old.plot THEN two
      ELSE Send([two EXCEPT !.page.error = FALSE], "catalog", two.page.plot)

ChangeCatalog(t, page) == SettleCatalog([t EXCEPT !.page = page], t.page)

catalogAnswer(f) ==
  CASE f.kind = "projects" -> Projects
    [] f.kind = "groups" -> GroupList(f.key)
    [] f.kind = "plots" -> PlotList(f.key)
    [] f.kind = "catalog" -> IF f.key = None THEN {} ELSE Sources[f.key]

CatalogKinds == {"projects", "groups", "plots", "catalog"}

CatalogLoaded(t, f) ==
  LET p == t.page
  IN  CASE f.kind = "projects" ->
             ChangeCatalog(t, [p EXCEPT !.ready = TRUE, !.projects = f.answer, !.project = f.answer[1]])
        [] f.kind = "groups" ->
             ChangeCatalog(t, [p EXCEPT !.error = FALSE, !.groups = f.answer, !.group = f.answer[1]])
        [] f.kind = "plots" ->
             ChangeCatalog(t, [p EXCEPT !.error = FALSE, !.plots = f.answer, !.plot = f.answer[1]])
        [] f.kind = "catalog" ->
             [t EXCEPT !.page.table = [plot |-> f.key, rows |-> f.answer], !.page.error = FALSE]

CatalogNotLoaded(t, f) == [t EXCEPT !.page.error = TRUE]

OnCatalog == tab.page.name = "catalog"

LandCatalog == OnCatalog /\ LandWith(CatalogKinds, catalogAnswer, CatalogLoaded)
FailCatalog == OnCatalog /\ FailWith(CatalogKinds, CatalogNotLoaded)

selectCatalog ==
  /\ Click /\ OnCatalog /\ tab.page.ready
  /\ LET p == tab.page
     IN  \/ \E x \in ToSet(p.projects) \ {p.project} : tab' = ChangeCatalog(tab, [p EXCEPT !.project = x])
         \/ \E x \in ToSet(p.groups) \ {p.group} : tab' = ChangeCatalog(tab, [p EXCEPT !.group = x])
         \/ \E x \in ToSet(p.plots) \ {p.plot} : tab' = ChangeCatalog(tab, [p EXCEPT !.plot = x])

filterCatalog ==
  /\ Click /\ OnCatalog /\ tab.page.ready
  /\ \E y \in (FirstYear..LastYear) \cup {None}, m \in 0..12 :
       /\ y = None => m = tab.page.month
       /\ <<y, m>> # <<tab.page.year, tab.page.month>>
       /\ tab' = [tab EXCEPT !.page.year = y, !.page.month = m]

-----------------------------------------------------------------------------
(* table.js                                                                *)

\* Months are counted from the beginning of year 0.
getYear(month) == month \div 12
getMonth(month) == (month % 12) + 1

\* Mutant: the last year is not compared with.
ShownToEndOfYear(row, year, month) ==
  LET firstYear == getYear(row.first)
      lastYear  == getYear(row.last)
  IN  CASE year = None -> TRUE
        [] year # None /\ month = 0 -> firstYear <= year /\ year <= lastYear
        [] OTHER -> IF firstYear = year THEN getMonth(row.first) <= month
                    ELSE IF year = lastYear THEN month <= getMonth(row.last)
                    ELSE firstYear <= year /\ year <= lastYear

\* The filter of filteredData: a year, or a month of a year.
Shown(row, year, month) ==
  LET firstYear == getYear(row.first)
      lastYear  == getYear(row.last)
  IN  CASE year = None -> TRUE
        [] year # None /\ month = 0 -> firstYear <= year /\ year <= lastYear
        [] OTHER ->
             IF firstYear = year
               THEN IF year = lastYear
                      THEN getMonth(row.first) <= month /\ month <= getMonth(row.last)
                      ELSE getMonth(row.first) <= month
               ELSE IF year = lastYear THEN month <= getMonth(row.last)
               ELSE firstYear <= year /\ year <= lastYear

\* The rows of the table, in the order of the column and its direction.
filteredData(p) ==
  LET key == p.sortKey
      rows == {r \in p.table.rows : Shown(r, p.year, p.month)}
  IN  SetToSortSeq(rows, LAMBDA a, b : IF a[key] = b[key] THEN a.id < b.id
                                       ELSE IF p.order[key] = 1 THEN a[key] < b[key] ELSE a[key] > b[key])

\* A click at the head of a column.
sortBy(p, key) ==
  [p EXCEPT !.order[key] = IF p.sortKey = key THEN 0 - @ ELSE @, !.sortKey = key]

sortCatalog ==
  /\ Click /\ OnCatalog /\ tab.page.table # None /\ ~tab.page.error
  /\ \E key \in {"first", "rows"} : tab' = [tab EXCEPT !.page = sortBy(tab.page, key)]

-----------------------------------------------------------------------------
(* status.js                                                               *)

openStatus(t) ==
  Send(Leave(t, [name |-> "status", ready |-> FALSE, error |-> FALSE, projects |-> <<>>,
                 project |-> None, groups |-> <<>>, group |-> None, grid |-> None,
                 sortKey |-> "last", order |-> [last |-> 1, message |-> 1]], {}),
       "projects", None)

SettleStatus(t, old) ==
  LET one == IF t.page.project = old.project THEN t
             ELSE Send([t EXCEPT !.page.error = FALSE, !.page.groups = <<>>, !.page.group = None],
                       "groups", t.page.project)
      two == [one EXCEPT !.page.grid = None]
  IN  IF one.page.group = old.group THEN one
      ELSE IF one.page.group = None THEN two
      ELSE Send([two EXCEPT !.page.error = FALSE], "status",
                [project |-> two.page.project, group |-> two.page.group])

ChangeStatus(t, page) == SettleStatus([t EXCEPT !.page = page], t.page)

StatusKinds == {"projects", "groups", "status"}

statusAnswer(f) ==
  CASE f.kind = "projects" -> Projects
    [] f.kind = "groups" -> GroupList(f.key)
    [] f.kind = "status" -> PlotList(f.key)

StatusLoaded(t, f) ==
  LET p == t.page
  IN  CASE f.kind = "projects" ->
             ChangeStatus(t, [p EXCEPT !.ready = TRUE, !.projects = f.answer, !.project = f.answer[1]])
        [] f.kind = "groups" ->
             ChangeStatus(t, [p EXCEPT !.error = FALSE, !.groups = f.answer, !.group = f.answer[1]])
        [] f.kind = "status" ->
             [t EXCEPT !.page.grid = [key |-> f.key, plots |-> f.answer], !.page.error = FALSE]

\* The error handler of the projects fails itself (this is undefined): nothing is told.
StatusNotLoaded(t, f) == IF f.kind = "projects" THEN t ELSE [t EXCEPT !.page.error = TRUE]

OnStatus == tab.page.name = "status"

LandStatus == OnStatus /\ LandWith(StatusKinds, statusAnswer, StatusLoaded)
FailStatus == OnStatus /\ FailWith(StatusKinds, StatusNotLoaded)

selectStatus ==
  /\ Click /\ OnStatus /\ tab.page.ready
  /\ LET p == tab.page
     IN  \/ \E x \in ToSet(p.projects) \ {p.project} : tab' = ChangeStatus(tab, [p EXCEPT !.project = x])
         \/ \E x \in ToSet(p.groups) \ {p.group} : tab' = ChangeStatus(tab, [p EXCEPT !.group = x])

\* The comparison of two plots: those without a value are last in both directions, a
\* message OK is the first in the one and the last of the others in the other.
Before(a, b, key, order) ==
  LET x == StatusOf[a][key]
      y == StatusOf[b][key]
      up(m, n) == IF order = 1 THEN m < n ELSE m > n
      rank(m) == IF m = "OK" THEN 0 ELSE 1
  IN  CASE x = None -> FALSE
        [] x # None /\ y = None -> TRUE
        [] OTHER -> IF key = "message" THEN up(rank(x), rank(y)) ELSE up(x, y)

\* The rows of the grid; the sort is stable.
gridData(p) ==
  LET plots == p.grid.plots
  IN  SortSeq([k \in DOMAIN plots |-> <<plots[k], k>>],
              LAMBDA a, b : \/ Before(a[1], b[1], p.sortKey, p.order[p.sortKey])
                            \/ /\ ~Before(b[1], a[1], p.sortKey, p.order[p.sortKey])
                               /\ a[2] < b[2])

sortStatus ==
  /\ Click /\ OnStatus /\ tab.page.grid # None
  /\ \E key \in {"last", "message"} : tab' = [tab EXCEPT !.page = sortBy(tab.page, key)]

-----------------------------------------------------------------------------

CatalogNext ==
  \/ selectCatalog \/ filterCatalog \/ sortCatalog \/ LandCatalog \/ FailCatalog
  \/ selectStatus \/ sortStatus \/ LandStatus \/ FailStatus

\* When nothing is under way, no answer came late and no error is shown, the lists and
\* the table are those of what is selected.
CatalogCurrent ==
  LET p == tab.page
      key == [project |-> p.project, group |-> p.group]
  IN  /\ OnCatalog /\ p.ready /\ ~p.error =>
           /\ p.groups = GroupList(p.project) /\ p.group \in ToSet(p.groups)
           /\ p.plots = PlotList(key) /\ p.plot \in ToSet(p.plots)
           /\ p.table = [plot |-> p.plot, rows |-> Sources[p.plot]]
      /\ OnStatus /\ p.ready /\ ~p.error =>
           /\ p.groups = GroupList(p.project) /\ p.group \in ToSet(p.groups)
           /\ p.grid = [key |-> key, plots |-> PlotList(key)]

\* The first and the last month the filter asks for.
Asked(p) ==
  CASE p.year = None -> <<0, (LastYear + 1) * 12>>
    [] p.year # None /\ p.month = 0 -> <<p.year * 12, p.year * 12 + 11>>
    [] OTHER -> <<p.year * 12 + p.month - 1, p.year * 12 + p.month - 1>>

\* The table of the catalog holds each source with data in the time asked for and no
\* other, in the order asked for; the grid of the status holds each plot once, those
\* without a value last, in both directions of each column.
RowsExact ==
  LET p == tab.page
  IN  /\ OnCatalog /\ p.table # None =>
           LET rows == filteredData(p)
           IN  /\ ToSet(rows) = {r \in p.table.rows : r.first <= Asked(p)[2] /\ Asked(p)[1] <= r.last}
               /\ \A j, k \in DOMAIN rows : j < k =>
                    IF p.order[p.sortKey] = 1 THEN rows[j][p.sortKey] <= rows[k][p.sortKey]
                                              ELSE rows[j][p.sortKey] >= rows[k][p.sortKey]
      /\ OnStatus /\ p.grid # None =>
           LET rows == gridData(p)
               value(k) == StatusOf[rows[k][1]][p.sortKey]
           IN  /\ {rows[k][1] : k \in DOMAIN rows} = ToSet(p.grid.plots)
               /\ \A j, k \in DOMAIN rows : j < k =>
                    /\ value(j) = None => value(k) = None
                    /\ value(j) # None /\ value(k) # None =>
                         IF p.sortKey = "message"
                           THEN p.order.message = 1 => (value(k) = "OK" => value(j) = "OK")
                           ELSE IF p.order.last = 1 THEN value(j) <= value(k) ELSE value(j) >= value(k)
=============================================================================
