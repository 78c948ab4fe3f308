# TubeDB: a verification project

TubeDB stores time series of climate stations, answers queries on them on
demand, and brings four clients of its own: three browser applications and a
console. This directory holds TLA+ modules that model the server's parts from
the Java sources under `src/src/tsdb` and the clients from `src/mask_app`,
`src/webcontent` and `src/app`, TLC configurations that check them on small
instances, and proofs that TLAPS checks for all instances. `PROJECT.json` maps
each definition to the lines it models.

Run in this directory: `tlc -config X.cfg M` for a run, `tlapm M.tla` for the
proofs of a module.

## Inventory of the system

| component | state | operations | hard behaviour | correct if |
|---|---|---|---|---|
| StreamDB store (`streamdb/StreamDB`, `StreamStorageStreamDB`) | MapDB file with a tree map of stations, per station a map of sensors and two of masks, per sensor a map of chunks and one of their metadata, both keyed by first timestamp | insert rows, one value or a series; remove an interval; set and clear masks; clear; commit; close | chunk boundaries, exceptions in the middle of a request, crash between commits, no lock between threads | it is a plain series per sensor with a durable copy |
| Stream iterators (`StreamIterator`, `ChunkMetaIterator`, `RelationalIterator`, `StreamTsIterator`) | position in metadata and in a chunk | walk a window of one stream, join streams on timestamps | clipping, chunks read lazily long after the metadata | they deliver the stored entries of the window |
| Chunk serializer (`ChunkSerializer`) | none | encode and decode a chunk | 32-bit wrap-around, quantisation on every rewrite | decoding gives the quantised entries |
| Masks (`util/TimeSeriesMask`, `util/Interval`, `iterator/MaskIterator`, mask methods of `remote/ServerTsDB`, `run/command/LoadMasks`, `ClearMasks`, `Handler_mask`, `Handler_masklist`) | intervals per sensor in the database, rows of `mask.csv` | add, list and edit masks, load and clear them | merging of intervals, two copies of the same data, read-modify-write of a file | a mask covers exactly the minutes of its rows |
| Console commands (`ServerTsDB`, `run/ConsoleRunner`, `remote/ConsoleStarter`, `web/api/TsDBAPIHandler`) | command threads by number, their output | start, fetch output | output between a poll and the end | every line arrives once |
| ZIP export (`web/api/ZipExportProxy`, `remote/ZipExport`) | export thread, its messages and finished flag | start, poll, download | failure before the thread starts, flag without a lock | finished means complete |
| Aggregation (`iterator/*AggregationIterator`, `NanGapIterator`, `util/iterator/MoveIterator`) | one row ahead, one open aggregate, in each iterator | rows to hours, hours to days and longer periods | first and last period, gaps, bounds | the rows are those of the series aggregated at once |
| VirtualPlot (`VirtualPlot`, `iterator/MergeIterator`) | station assignments with intervals | choose stations, merge their rows | overlap and order of intervals | each row comes from a station of the plot at that time |
| Insert API, source catalog | catalog map | insert rows and a catalog entry, two calls | one of the calls failing | |
| Query graph, DSL, quality checks, interpolation, importers, configuration, web server, authentication, R package | | | transformation of rows or I/O | |
| Mask app (`src/mask_app/src`: `App`, `Shell`, `Viewer`, `MaskListDialog`) | selection, data, masks, cache of answers, the interval picked in the diagram, list of masks | choose, fetch, pick, save a mask, list and remove masks | no handler looks whether it was called again while it awaited; watchers cascade | what is selected is offered, flags end, the diagram at rest is current |
| Web pages (`src/webcontent`: `export*.js`, `catalog`, `status2`, `visualisation_meta`, `map2`) with the session (`web/api/TsDBExportAPIHandler`, `ExportModel`, `ZipExportProxy`) | the page shown, what it has fetched; on the server one export session per user and the job of the last export | choose, apply, reset, create and poll an export; cascades of choices; cycles of runners that fetch views | answers in any order, two pages that edit one session, a post refused half-way | a page at rest shows what is selected or in the session; the session can always be exported |
| Web application (`src/app/src`: store, router, `DiagramLayout`, `timeseries-selector`, `timeseries-diagram`, `MonitoringLayout`, `StatusLayout`, `plot-status-dialog`) with `Handler_status2` | store shared by the pages, selection and data of the page shown, dialog being edited; on the server the status of each plot | choose, fetch, zoom, edit and save statuses, search, export, change page | the model arrives under another page, answers overtake, tasks in three formats, a dialog switched to another plot | see `App_all` below |

Server calls arrive on RMI threads and Jetty threads at the same time; all of
them use the one `TsDB` object and through it the one `StreamDB`. Handlers
for masks are `synchronized` on themselves; inserts, removals and queries take
no lock; `commit` and `close` lock the MapDB object against each other only.
Clients of console commands and of exports poll. Queries pull rows through
chains of iterators in the thread of the request. A browser runs one handler
at a time, up to its next `await` or callback, and Vue's watchers of what it
changed right after it; requests come back in any order, and a page that is
left forgets its requests, while those that change the server still arrive.

File names below are relative to `src/src/tsdb`, or to the root of the
client for the clients.

## Modules

| module | models | extends or uses |
|---|---|---|
| `Chunks` | layout of a stream and all algorithms on it: find the chunk of a year, merge, replace, cut, iterate, minimum and maximum of a window | |
| `SeriesStore` | what the storage promises: a plain series per stream, with a durable copy | |
| `StreamDB` | the database, one atomic action per server operation | `Chunks`, refines `SeriesStore` |
| `StreamDBConc` | one stream under insertions, queries, commits and crashes interleaved between map accesses | `Chunks` |
| `MaskIntervals` | `TimeSeriesMask.addInterval`, one loop branch per action, beside a `MaskIterator` | |
| `MaskRegistry` | mask rows in files, masks in the database, the requests that change both, clearing and loading | |
| `ConsoleCommands` | commands, their threads and polling clients | |
| `Aggregation` | raw rows to hours to days | |
| `MaskSelection`, `MaskApp` | the mask app: what is offered and the cascade of watchers; the tab, the server and the flights between them | `MaskApp` extends `MaskSelection` |
| `Browser` | one tab: the page shown, flights, clicks, the history variable `tidy` | |
| `ExportPages`, `CatalogPages`, `Explorer`, `MapPage` | the pages of the web client; `ExportPages` with the session and the export job | `Browser` |
| `WebPages` | the web client: the tab shows one of those pages | composes the four |
| `AppStore`, `AppDiagram`, `AppMonitoring`, `AppStatus` | the web application: shared store, and its pages | `Browser` |
| `App` | the web application with its router: pages change while answers are under way | composes the four |
| `MC*` | constants for TLC | |
| `ChunksProofs`, `StreamDBProofs` | lemmas on streams and on their queries, theorems about the database | `StreamDBProofs` extends `ChunksProofs` |
| `StreamDBConcProofs`, `ConsoleCommandsProofs`, `AggregationProofs`, `MaskAppProofs` | theorems about these modules | `StreamDBConcProofs` extends `ChunksProofs` |
| `MasksProofs` | theorems about `MaskIntervals` and `MaskRegistry` | extends both |
| `AppProofs` | theorems about the web application | `App` |

### Chunks and StreamDB

A Java array of ascending entries is a function from timestamps to values, a
tree map a function from keys. A value is a token that names a measurement.
`roundLowerYear` and `roundNextYear` are constants with the assumption that
they describe half-open intervals, so the proofs hold for any calendar.
`stationMetaMap` and `sensorMap` keep the names only; `maskMap` keeps which
sensors have a mask, its content belongs to the mask modules.

`InsertSensors` follows `insertDataRows` and `insertTimestampSeries`: sensors
in the order of the request, `insertSensorData` for each, the exception of the
first unordered entry ends the request. `insertSensorData` creates station and
sensor before it looks at the entries, stores the years before the one it was
collecting, and loses that one; `AcceptedIndices` is this rule. Each year is
merged into the chunk `getChunkMeta` finds. `InsertDataRows` commits unless an
exception was thrown, `InsertTimestampSeries` is the importers' call without
commit. `Crash` is the end of the process without `close` and the restart on
the file; `Commit` covers `close` too.

- `ChunkIndexExact`, `YearsDoNotOverlap`: the two maps of a stream agree and
  partition the series by year after every sequence of operations, in memory
  and in the committed state.
- `RemoveExact`: exactly what a removal takes, in every reachable state. (What an
  insertion stores is `ImplementsSeriesStore` and the lemma `InsertSeries`.)
- `QueryExact`, `TimeIntervalExact`: iterators and interval queries, which look
  at metadata wherever they can, agree with the stored series for every window.
- `DataIsRegistered`: nothing is stored that `clear` or a query by name would
  miss.
- `ImplementsSeriesStore`: refinement of `SeriesStore`, with
  `series <- Series(chunkMap)` and `durable <- Series(committed.chunkMap)`.

### StreamDBConc

One stream. An insertion is a sequence of map accesses: `ceilingKey`, `get` of
the metadata, `get` of the chunk, then `removeChunk` and `insertChunk`, two
map accesses each. Every access is an action. A query reads minimum, maximum,
creates its metadata iterator and then fetches one chunk at a time. Commits of
other requests and crashes come between any two of them. MapDB's maps are
linearizable, so one access is one action.

With a year per writer (`StreamDBConc_apart`): metadata that exists describes
its chunk at any time and in any committed state (`MetaNeverLies`), queries
are exact on years that did not change meanwhile (`UntouchedYearsExact`), no
assertion of the code fails (`NoInternalError`). Nothing in the code keeps two
writers of one year apart, and then it does not have these properties, see
"Known limits of the code".

### MaskIntervals and MaskRegistry

`MaskIntervals` keeps the int arithmetic: `Inc` wraps at `IntMax`. The list
under construction and the old list are two variables, as in `addInterval`.
The cache of the map shares `TimeSeriesMask` objects between requests, so an
open query keeps the old list: `MaskedEntriesHidden` says it hides what was
masked when it began.

`MaskRegistry` keeps per row whether its station is known, its sensor or `*`,
its minutes and the removed mark; a mask is the set of its minutes, since
`MaskIntervals` shows `addInterval` to be union. The writer of
`addTimeSeriesMaskInterval` appends when it is closed, after the mask is
committed; a file that was replaced meanwhile keeps no appended row.

- `ReloadExact`: a reload that ran alone makes the masks those of all files,
  also after a crash in a former one.
- `AckedRowsStay`, `QuietMasksMatchFiles`: if requests did not overlap, what
  was stored of an acknowledged row stays until the row is removed, and adding
  row by row equals making all masks anew. `acked` has the rows of both
  handlers, as they were sent; `Stored` is what the code keeps of one, which of
  a row of `Handler_masklist` is all but its station.

### ConsoleCommands

Creating the id, starting the thread and putting it in the map are three
actions; a poll is lookup, `isAlive`, `getOutputLines`, answer. Threads print
and end in between. The n-th line is the number n, so `OutputInOrder` can say
that received lines, lines in the answer under way and lines in the buffer are
1..n. `OutputComplete`: a client that stops polling has all output.
`CommandsEnd` is the liveness property of the project; it assumes weak
fairness of each client's next step with the server's part of it (the loop in
`ConsoleStarter.main`, a request thread of Jetty) and of each command's
thread, which prints or ends: threads are scheduled, and a command prints at
most `MaxLines` lines. A command that never ends makes its client poll
forever, in the code too. Fairness is not assumed of
starting commands or leaving.

### Aggregation

Each iterator of the chain has its row ahead (`current`) and its open
aggregate. `MoveIterator.next` refills at once, so upstream iterators are
settled before a row is used, and the chain has one enabled step at a time. A
value is the set of the timestamps it is computed from, `<<>>` is NaN, so a
wrong, missing or doubled row in any average shows.

- `HoursExact`, `DaysExact`: the rows delivered so far are a prefix of, and at
  the end equal to, those computed from the stored series at once.
  The exception at the end of `NanGapIterator.getNext` would end the chain
  early, so `HoursExact` also says that it is never thrown.

Three things a reader of the code should know. A direction whose column has
numbers but never together with a velocity is 0.0 in a valid row and NaN only
if nothing else is valid (`aggregateColumn` keeps this, the reference has it
as `Number({})`). The constructor's loop over rows before start, and the
branch for a row after the end, which ends without trailing rows, are not
reached here because the raw rows are clipped to the bounds before.
`AVERAGE_ZERO` columns count the hours of a gap as zeros of their day.

### MaskApp

The state of the components is one record `tab`; an action of the user is the
whole handler up to its first `await` with the watchers it sets off
(`Choose`, `Settle`, `Render`), and the landing of a flight is the rest of
the handler. `Serve` is the server's step between them: it answers from the
rows of the mask files as they are then, or changes them. An answer of data
is the series asked for with the masks applied to each, so a stale answer
differs from a current one. `tidy` is a history variable: it turns false when
something is replaced by an answer that was overtaken. `changed` is another
one, the series that were masked otherwise since the comparison diagram was
fetched.

- `SelectionOffered`: through all cascades of project, group, plot and sensor,
  what is selected is among what is offered.
- `FlagsEnd`: flags that disable buttons are set exactly while the handler that
  resets them is under way, through every error.
- `TidyViewCurrent`: at rest, and if no answer came late, diagram, masks and
  cache are those of the selected series and of the server. The comparison
  diagram is of the series selected for it, and each of them is as the server
  has it unless it is in `changed`.
- `EveryLineStyled`: each series asked for is drawn with a style of its own.

### Browser and WebPages

A request is a record in `tab.flights`; `LandWith`, `LandAnswered` and
`FailWith` take any flight, `Continue` is the rest of its handler. `Leave`
drops the flights of a page but for posts, which reach the server as orphans.
`ExportPages` has the session: `apply_settings` takes the options before the
timespan is parsed, as the code does, so a refused post changes part of it.
The export job is a thread that prints lines; the poll reads `finished` and
takes the lines in two steps. `Explorer` keeps the cycle number by which
runners find out that they are outdated.

- `PagesCurrent`: as long as no answer was overtaken, a page at rest shows what
  is selected or in the session.
- `BusyExact`: a page of the export is busy exactly while it waits for an
  answer, but for handlers that threw after they had counted themselves
  (`stuck` counts those); the runners of a cycle that began with its views
  account for every view; and if no request failed or was overtaken, the
  explorer has done all views when it waits for nothing, however its cycle
  began.
- `SelectionExact`: the catalog's rows are those of the year and month chosen,
  and the explorer never asks for an end before a start.
- `SessionExportable`: plots and sensors of the session are of its region,
  none twice, its timespan parses and is in order, whatever was posted,
  refused or lost, as long as no two answers met on a page.
- `OutputComplete`: when the file is offered, all lines are shown.

### App

The tab keeps `page.store` from page to page. A watcher of the store that a
page sets runs when the model lands under that page. `AppDiagram` has the
selector (where no choice and an empty choice differ), the requests that are
numbered so that only the newest answer counts, and the arithmetic of the
window that is zoomed and dragged. `AppStatus` has tasks in the forms the file
may have: none, a text, a list with and without numbers.

- `StoreExact`: however many requests for the model there were, the store
  never says that it is loading without one, a page that needs the model has
  it, waits for it or was told an error, and there is no error unless a request
  failed. Loading exactly while it is under way holds for one request at a time.
- `SelectorExact`, `WheelWithin`: what is selected is offered; the wheel stays
  within all there is, however far the diagram was dragged before.
- `DiagramExact`: in every order of answers the diagram waits exactly for the
  newest one and then shows what is selected, if anything is. With nothing
  selected it is empty only if no data were awaited when it was emptied.
- `MonitoringExact`, `PlotClassExact`: the table is of the chosen set; a plot
  has the colour of the worst of its cells. The code computes the two colours
  in two places.
- `StatusExact`, `DialogExact`, `ReportExact`: a table at rest shows what the
  server has; the dialog saves the plot it names, with tasks numbered apart;
  the report has a line for each task and mark, and exports are of the group
  that names the file.
  That the exported table has the rows that are shown is not a property of the
  code: the table's own search takes a list of tasks for `[object Object]`
  (`columns`), the export searches the texts (`tasksText`).
- `SensorPageExact`: the page of a sensor and the selector of the diagrams
  agree on which sensors have all aggregations.

What `tidy` and `undisturbed` leave out is what the code does not handle: an
answer that arrives after a newer one of its kind is taken all the same in the
mask app (`Shell.vue:922`), on most pages of the web client
(`export_plots.js:221`), for the rows of the status (`StatusLayout.vue:548`)
and for the table of a set that was changed (`MonitoringLayout.vue:611`), and
two requests for masks that overlap may lose rows (`ServerTsDB.java:542`). The
properties with these conditions say that everything else is right; of the
diagram of the web application, whose answers are numbered, and of flags,
selections, the store, the dialog and reloads of masks the properties hold in
every order.

## Runs

| run | instance | shows |
|---|---|---|
| `StreamDB_stream` | 1 stream, 2 interchangeable values, times 0..3 in three years, requests of 2 | order, overwriting, rejected requests, removals, crash; index; queries for all windows |
| `StreamDB_sensors` | 2 sensors, times 0..1 | requests failing between sensors, registration, refinement |
| `StreamDBConc_apart` | 2 writers with a year each, 1 reader, times 0..2 | what holds between map accesses |
| `MaskIntervals_all` | ints 0..9, closed intervals in 2..7 and open ends, one query | merging and hiding |
| `MaskIntervals_open` | open starts and open ends together | violation: `MaskExact` |
| `MaskRegistry_all` | 2 sensors, 2 minutes, 2 added rows, 2 rewrites, a region file | both handlers, reloads, crashes |
| `ConsoleCommands_all` | 2 clients, 3 commands of up to 2 lines | output and liveness |
| `Aggregation_all` | hours of 2 minutes, days of 3 hours of which 2 are needed, every series over 5 minutes and 2 columns, 3 schemas, 9 pairs of bounds | the chain of iterators |
| `Aggregation_end` | the same | violation: `LastHourComplete` |
| `MaskApp_all` | 2 projects that share a group, 3 plots (one virtual), 3 sensors, 2 positions; 3 actions, 4 flights, 1 failure | every order of answers in the mask app |
| `Web_all` | 2 regions, 3 plots, 2 sensors, 4 background maps; 3 actions, 2 flights when one acts, 1 failure | every page of the web client |
| `App_all` | 2 projects, 3 plots (one in two groups, one with two stations), 3 sensors, 2 sets; 5 actions, 2 flights when one acts, 1 failure | every page of the web application |

Bounds. A chunk boundary needs two years, a chunk between two others three;
one year begins before timestamp 0, like the year of the OLE epoch, one begins
at a timestamp and has another, one has a single timestamp and so a chunk both
full and minimal. Timestamps of requests include -1, which the code rejects
only because the first one is compared with -1. In `StreamDBConc` one year
has two entries, so that it can be replaced by more and by the same. Six
minutes hold three separate intervals, the most that one interval can meet in
every way (before, between, behind, swallowing). Two rows and two rewrites
are enough to append to a file that was replaced and to reload what a crash
left. Three commands and two clients reuse a client and run two commands at a
time; two lines are one before and one after a poll. In `Aggregation` the
first hour has two rows, the others one, the second day is too short to be
valid, and bounds lie before, at and within hours, or are missing.
In the clients a hazard needs a choice, a request and a second choice before
the answer: three actions; the status dialog needs a page, a group, a plot,
an edit and a save, five. The projects are chosen so that every branch of a
cascade is taken: the same group in two projects, a plot in two groups, a
virtual plot, a project that leaves no choice. One failure may be that of any
request. `MaxBatch`, `MaxRows`, `MaxRewrites`, `MaxCommands`, `MaxLines`,
`MaxClicks`, `MaxFlights`, `MaxFails` and `MaxTasks` are bounds of the models
only; `MaxViews`, `Parallel`, `MaxSeries` and `MaxHovered` are constants of
the code, smaller.

Deadlock is checked everywhere but in `ConsoleCommands_all` and in the runs of
the clients, where the bound on commands or actions lets the system stop. Symmetry is used in `StreamDB_stream` for
values only, and that run has no temporal property.

## Proofs

`ChunksProofs` proves the algorithms: `GetChunkMeta` (the chunk found is the
one of the year, and none is found only if the year has no entry),
`MergedChunkExact`, `ReplaceConsistent` (replacing chunks by fitting ones
keeps a stream consistent), `InsertSeries` and `RemoveSeries` (what the stored
series is afterwards), `AcceptedType` (nothing before the epoch is accepted).
`MinOfSegment` and `MaxOfTime` prove that `Min` and `Max` of the community
modules are what they should be on sets of timestamps.

`StreamDBProofs` proves for all constants `TypeOK`, `ChunkIndexExact`,
`YearsDoNotOverlap`, `DataIsRegistered`, `RemoveExact`, `QueryExact`,
`TimeIntervalExact` and `ImplementsSeriesStore`. The inductive invariant `IInv` says `DbOK` of the
maps in memory and of the committed state: types, `Consistent` of every stream
(chunks are not empty, exact metadata, one chunk per year), registration. None
of the properties is inductive alone: `getChunkMeta` returns the right chunk
only in a stream with exact metadata and one chunk per year; a removal leaves
non-empty chunks only if the metadata is exact; clear and removal reach all
data only if it is registered, which the refinement needs; and a crash makes
the committed state the current one. Assumptions: `TimeAssumption`,
`YearAssumption`, `BatchAssumption`.

The second part of `ChunksProofs` is what queries of a consistent stream deliver, for every
window, those with open ends and reversed ones too; `QueryExact` and
`TimeIntervalExact` follow from it. `IteratorMeetsWindow`: the metadata
iterator, which stops at the first chunk behind the window, meets every chunk
that has an entry in the window. `CutWindow`: cutting the window to the data
loses no entry, and a window that is emptied held none. `PartOfChunk`: each of
the three ways to read a chunk gives its part of the window. `TimeMinExact`,
`TimeMaxExact`: the first (last) chunk that the iterator meets always answers,
with an entry of the window unless there is none. `HullExact`: the hull of the
intervals of registered sensors is that of all entries of the station, which
needs that unregistered sensors have none.

`StreamDBConcProofs` proves `MetaNeverLies` for any
number of writers and readers and any calendar, if `YearsApart`: no two
writers have entries of one year. (`InsertionsSucceed`, that no assertion
fails, comes with it; it says no more than that writers of different years do
not disturb each other.) Chunks and metadata do not agree between the
accesses of an insertion, so the invariant says less of the maps than `IInv`
of `StreamDBProofs` (`MapsOK`: metadata has its chunk, and no year has two;
chunks may lack metadata) and more of each writer: from the access that finds
it to the one that removes it, its key has metadata (`KeyFound`); from then on
its year has none (`YearOpen`), so the chunk it removes or overwrites is one no
metadata refers to; the chunk it has put stays until its metadata is put
(`ChunkIsPut`). `OthersKept` is the step where years apart are needed: what a
writer changes lies outside the years of the others.

`QuietYearsExact` proves `UntouchedYearsExact` under the same assumption, from
`QueryInv` on top of it. Between accesses the maps hold the acknowledged
entries of every year but those whose chunk is being exchanged
(`YearsCurrent`), and what a writer has merged is what was acknowledged and its
own entries (`MergedExact`). A query has cut its window without losing or
adding an entry of a year that did not change since it began (`LowerOK`,
`UpperOK`); the metadata it still has before it are those of now in such years
(`MetasOK`); what it has delivered is acknowledged, and what it wants and has
not delivered is coming (`DeliveredSound`, `NothingMissed`). A query reads maps
that change under it, so the invariant says this at every access of it, not
for the maps it found at its beginning.

`MasksProofs` proves all four properties of `MaskIntervals` for any
range of ints and any inputs under `NoWrap`, that intervals with open starts
and with open ends are not mixed. The run `MaskIntervals_open` shows that this
is needed. The invariant says of the loop of `addInterval` that the new list,
the interval in hand and the rest of the old list are in order with gaps and
together cover what was covered and the new interval; of a query that its
position in each list is the first interval not behind the last entry.

Of `MaskRegistry` it proves `AckedRowsStay` for any rows and any number of
them, added by either handler: if requests did not overlap, at most one handler
is at work, the file it appends to is the one it opened, and the rows a rewrite
is about to write contain what is stored of every acknowledged row but the one
it removes, and of the one it adds (`OneRequest`).
`ReloadCorrect` proves `ReloadExact`, for any rows of any files, from `LoadInv`:
while a reload is alone the masks are those of the files it has loaded, less
the intervals of the file in hand that are still to be inserted and with the
mask that was read and not yet put back (`NoMoreThanFiles`, `NoLessThanFiles`).
`QuietMasksCorrect` proves `QuietMasksMatchFiles`: as long as requests did not
overlap, every step of a request keeps the difference between the masks and
the files to the one row it adds (`AdderInv`), a reload is alone, and whenever
the handlers rest the committed masks are those in memory (`ListerInv`), so a
crash changes nothing. A row for all sensors, `*`, is kept under that
name by `addTimeSeriesMaskInterval` and under each sensor by `LoadMasks`; the
properties and the invariant speak of types where that has not happened since
the last reload. Rows written by a rewrite make the masks
that the rows of the file make (`TargetsExact` and the lemmas after it).

`ConsoleCommandsProofs` proves the safety properties for any number of
clients, commands and lines. The invariant gives each id one client and one
entry, and says which lines are in the buffer, in the answer under way and
received, at each step of a poll; `OutputComplete` needs that a poll which saw
its thread ended finds a buffer nobody adds to.

`AggregationProofs` proves `HoursExact` and `DaysExact` for any series, columns,
query bounds and widths of hour and day. The reference of both is defined from
the stored rows at once, the chain moves one row at a time; `ChainInv` relates
them at every step. An aggregating iterator has gathered exactly the rows of
the period that is open (`Gathered`; `BaseInv`, `DayInv`), or none once it is
drained. `Rest` are the filled hours the base iterator still has to deliver;
`GapInv` says that the hours out are the first `Given` hours of the reference,
that the hour due next follows them, and that the filled hours from there on
are the row at hand and `Rest`, in order, so no row comes late and the
exception at the end of `getNext` is never thrown (`GapNeverFails`). `DayInv`
and `DaysGiven` say the same of days: each begins a day after the one before,
because the hours have no gaps. The lemmas on `Times` and `Cut` are what the
two calendars share: beginnings of periods are a period apart, and cutting is
monotone. Assumptions: `PeriodAssumption` (a day is a whole number of hours),
`SeriesAssumption` (finitely many rows, minutes not negative: -1 is the
iterators' mark for no row yet) and `BoundAssumption` (bounds are null or
minutes).

`MaskAppProofs` proves all four properties of the mask app for any projects,
groups, plots, sensors, masks and numbers of requests under way. `Good` says
of the tab, beside its types and that its selection is offered: what its flags
say (`LoadingOK`, `BusyOK`), that every request asked for as many series as
there are styles (`StylesOK`), and of a tidy tab that its view is right or
will be (`ViewOK`). A view at rest is not inductive: after a choice the diagram
is an old one until the answer is there, and after a mask was saved at the
server all that is shown and cached is old until its answer is there.
So `DataOK`, `MaskOK` and `CmpOK` say that the newest request of a kind asks for
what is selected and, if none is under way, that what is shown is it;
and `AnswersOK` says that answers under way and in the cache are
those of the mask files, unless the tab is `Outdated`: a save or a removal has
been answered, so that the rest of its handler will clear the cache and fetch
anew. Nothing fetches the comparison diagram anew, so `CmpOK` says of which
series it is, and an invariant of its own, `CInv`, that it and the answers under
way for it are as the files are in every series that is not in `changed`. The proof has one lemma for each way in which the flights change: they
grow by a request that is the newest (`GrownKeeps`), one is answered
(`AnsweredKeeps`), one leaves (`LandedOK`); and one for each handler. What is
selected is offered because `Settle` runs the watchers in their order: the
group is settled before the plot, the plot before the sensors (`SettleOK`,
`ChoicesOK`). Assumption: `ModelAssumption`, that lists of the model list what
the model has, and that the empty selection is not the name of anything.

`AppProofs` proves all properties of the web application but `ReportExact` for
any projects, groups, plots, sensors, sets and tasks, and any number of actions,
flights and failures. `IInv` says of the tab its types (`TabOK`), of the store what holds
on every page (`StoreOK`), and of each page what holds while it is shown.
`StoreExact` alone is not inductive. Its first part, of any number of requests,
needs what setting the model or an error leaves of both; its second part is of
one request at a time, so `StoreOK` counts the requests of a tidy tab
(`OneOfKind`), says that there is none once the model is there, and that no
change that nobody waits for is under way. Each handler of a page
then has two duties: it leaves the store, its requests and the name of the page
alone (`Keeps`), and it keeps what is said of its own page. Opening a page
(`RouteOK`) drops all flights but those two kinds, so the new page begins with
nothing under way; an answer to the store (`StoreTurns`) leaves the flights and
the fields of the page shown as they are and then runs its watchers.

- Diagram: requests are numbered, each number at most once, and the page waits
  exactly if the newest number is under way (`InSequence`). The newest request,
  or if it has been answered the data, are of what is selected if anything is,
  tidy or not, and of nothing selected if the tab is tidy (`Current`; an answer
  to another request leaves it, `CurrentTurns`);
  every handler that changes a setting ends in `requestData`, which makes a
  newer one (`RequestOK`, `TellOK`), and an older answer changes nothing
  (`OlderGone`, `NewestGone`). `Unasked`: without a model nothing was asked.
- The wheel: a window is a pair of integers in order, whatever was dragged
  (`WindowOK`); `ClampWithin` is the lemma on `clamp`.
- Monitoring: the request under way and the data are of the set shown
  (`OfShownSet`), as what may be picked is of the set (`PickedOf`).
- Status: the last request for rows is for the group that is selected, and if
  it has been answered its answer is what the server has (`LastPromises`); a
  save that the server has answered breaks this until its answer comes to the
  page, which asks for the rows again (`SaveAnswered`, `SaveLandedDone`). The
  dialog saves one status at a time (`Saving`).

Two properties need an invariant of their own beside `IInv`:

- `DialogExact`: `DInv` says that the tasks in the file of the server are a text
  or a list whose numbers differ (`Entries`), that each answer under way for the
  dialog is such an entry and each save, also one whose page was left, is a row
  with all its tasks numbered (`FlightsSound`), and that what the dialog shows
  is of its plot (`Shows`). The circle is what makes it inductive: a save comes
  from the dialog, goes through the file and comes back to a dialog.
  `FreeNumber` is a number that is free, so `Numbered` keeps those there are
  and adds different ones.
- `SelectorExact`: `SInv` says that on the page for diagrams with a model all
  five choices are lists of what is offered (`SelectionOK`) and the layout asks
  for them, and that without a model nothing is selected. The watchers do not
  keep this one by one: between them a selection is only known to be of lists
  (`ListChoices`) and its stations to be of their plots (`EntriesOK`), and each
  watcher mends one choice (`GroupsChangedOK`, `PlotsChangedOK`, `StationsWatched`,
  `SensorsWatched`). `FlattenOK` is the lemma on lists of lists, `NoProject`
  says that without a project nothing is asked for, so a selector that begins
  anew need not tell.

`PlotClassExact` needs no more than `IInv`: `Worst` says of the columns so far
what `Worse` has made of them, and `WorstOfPlot` follows the recursion of
`plotClass` over the columns of the table.

Assumptions: `NoneAssumption` (no value is none of the values),
`ProjectsAssumption` (there are projects, each with groups, and lists are
finite), `StepsAssumption` (there are no other steps of time),
`RangeAssumption` (lengths of time are positive), `SetsAssumption`,
`ListsAssumption` (sensors, the plots of a group and the stations of a plot are
lists), `NewestAssumption` (a row of a sensor has a time) and `NotesAssumption`
(the file has at first a text or a list of tasks per plot, and no two tasks have
the same number: the dialog numbers them).

`Browser` selects from lists with `Those` and `Among`, defined as recursive
functions, not with `SelectSeq`: the provers cannot instantiate an operator
with an operator as its argument. For the same reason `plotClass` and `Numbered`
are recursive functions, not folds.

Model-checked only: `ReportExact` and the properties of the web client; `CommandsEnd`, since TLAPS does
not prove liveness under fairness; `MaskIntervals_open` and `Aggregation_end`,
which are counterexamples.

## Findings

- `Interval.isAdjacentOrOverlap` (`Interval.java:59`): an open end plus one is
  an open start; the two masks merge into everything (`MaskIntervals_open`).
- `Continuous.Concrete.get` (`Continuous.java:87-91`) cuts the end of a query
  to the beginning of its hour before the raw rows are read: the last hour is
  computed from one minute (`Aggregation_end`).

## Known limits of the code

Met while modelling. The models have this behaviour (but for the first, which
the run's `WriterTimes` exclude); the properties are stated so that they are
true of it, and say where they stop.

- `getChunkMeta` (`streamdb/StreamDB.java:424`) asserts that the key it found
  still has metadata. Two insertions into one year of a stream, which no lock
  keeps apart, break it: with `WriterTimes` that share a year `NoInternalError`
  fails, and entries of that year may be lost.
- `addTimeSeriesMaskListEntry` (`remote/ServerTsDB.java:659`) compares the
  station of a new row (`colStation.equalsValue`) where it sets the other
  columns: the row is acknowledged, stored without station, and no list and no
  mask has it. `Stored` is this, and so `AckedRowsStay` does not say that the
  row as it was sent is there.
- Mask app: `maskSelectionSave` and the mask list (`Shell.vue:1059`, `276`) do
  not fetch the comparison diagram, which keeps values that are masked now until
  something else is chosen. `TidyViewCurrent` leaves the series in `changed` out.
- Explorer: if the metadata of a project fail and the project before is chosen
  again (`visualisation_meta.js:558`, `662`), the list of views is found
  unchanged, no runner starts, and unfinished views stay queued. The last part
  of `BusyExact` is of tabs without a failure.
- Export pages: `on_apply` of the time and the settings page
  (`export_time.js:61`) throws after `incTask` if the settings are not there
  yet; the page stays busy. `BusyExact` counts these in `stuck`.
- Diagram page: `requestData` makes no new request when nothing is selected
  (`DiagramLayout.vue:270`), so an answer under way is shown. `DiagramExact`
  says of an empty selection that nothing is shown only for tidy tabs.
- The store: two requests for the model may be under way, and an error of one
  takes back the loading of the other (`store/model.js:57`). `StoreExact` says
  loading exactly while it is under way of one request at a time.
- Status page: the table finds `[object Object]` in each list of tasks and the
  export (`StatusLayout.vue:608`) their texts, so either may have rows the other
  has not.
- A commit between `removeChunk` and `insertChunk` of another request writes a
  state without that year (`streamdb/StreamDB.java:75`); a crash before the
  next commit loses entries that were there before.
- `LoadMasks` (`run/command/LoadMasks.java:166`) and
  `addTimeSeriesMaskInterval` do not exclude each other: a removed mask comes
  back, or a row is lost with the file that was replaced
  (`remote/ServerTsDB.java:542`). `MaskRegistry` has these behaviours;
  `undisturbed` and `alone` keep them out of its properties.
- Mask app: an interval picked in the diagram is kept twice, in `Viewer` and in
  `Shell`; a viewer that is taken away does not tell the shell. `HelpDialog`
  handles Esc (`HelpDialog.vue:72`) as the viewer does, both react.
- Web client: a page posts the settings as a whole, so the time page and the
  settings page overwrite each other's changes if one was opened before the
  other was applied.
- Monitoring (`MonitoringLayout.vue:44`) says that an empty list stands for
  all plots; the page sends an empty list if the last plot was taken away.
- Status page: an answer for an older group switches the spinner off while
  the newest request is under way.
- Diagram page: the time limit of one of the groups chosen applies to all of
  them; with a single project the selector selects it before it watches the
  selection, so the layout learns of it at the next change only.

## Not modelled

- Quality flags and counters, mutators, albedo, values outside the physical
  range, and periods longer than a day in `Aggregation`: weeks, months and
  years run in the same base class with other calendars. Hour and day
  aggregation types of a sensor are taken to be the same.
- Floating point: values are tokens or sets of timestamps; sums and averages
  are not computed.
- Text: CSV, JSON, YAML and the rendering of answers.
- Creation of a station's maps (`getStationMeta`, `getSensorMeta`) is one step;
  `clear` runs alone.
- MapDB itself: maps are linearizable, a commit is atomic, a restart returns
  to the last commit.
- Clients: layout, texts, drawing, the sorting of tables (but the catalog's),
  the cell layout of exported Excel files, the printed formulas, zoom and pan
  of the mask app's diagrams; the older pages under `src/webcontent`, pages
  entered with a pinned project, and the copies of the pages under
  `src/example`. The server answers a client's request in one step, except
  where a module says otherwise (the export job, the poll of its output).
- `VirtualPlot`, `MergeIterator`, `RelationalIterator` and `ChunkSerializer`:
  selections over the configuration and transformations of rows and bytes,
  without state that another request sees. Points a test would hardly reach:
  start times compared as objects (`VirtualPlot.java:183`), `Integer.MAX_VALUE`
  as the end of a stream in the join (`streamdb/RelationalIterator.java:67`),
  second differences in 32 bits (`streamdb/ChunkSerializer.java:66`).
- Failures between two files or calls: data and catalog are written by two
  calls (`web/api/Handler_iot_insert_csv.java:142`), a mask file that was
  created and not closed is empty (`remote/ServerTsDB.java:542`), console
  entries whose client does not come back stay (`remote/ServerTsDB.java:384`),
  `clear` beside another request (`streamdb/StreamDB.java:95`).
- The other components without module in the inventory: pure transformation
  or I/O.

## Plan

Done, in this order: `Chunks`, `SeriesStore` and `StreamDB`; `StreamDBConc`;
masks; console commands; aggregation; their proofs; the clients, with the parts
of the server that keep state for them. What could follow:

1. `VirtualPlot.getStationList`, `MergeIterator` and `RelationalIterator`: the
   rows of a plot before aggregation, checked against the union by time.
2. `ChunkSerializer` with a small word width, checked against the identity on
   quantised entries; creation and clearing of stations under concurrency.
3. Aggregation to weeks, months and years, and an abstract specification of
   the chain that `Aggregation` refines.
4. Proofs about the other clients: `SessionExportable` and `OutputComplete` of
   the export.
