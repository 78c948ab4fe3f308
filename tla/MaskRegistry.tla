---------------------------- MODULE MaskRegistry ----------------------------
(***************************************************************************)
(* The masks of one station: the rows of the mask files and the masks in   *)
(* StreamDB made from them.  Three requests change them, each handler      *)
(* serves one request at a time, and the two handlers do not exclude each  *)
(* other:                                                                  *)
(*   Handler_mask      adds a row and its mask                             *)
(*                     (ServerTsDB.addTimeSeriesMaskInterval),             *)
(*   Handler_masklist  adds a row (addTimeSeriesMaskListEntry), or marks   *)
(*                     a row as removed and makes all masks anew           *)
(*                     (setTimeSeriesMaskListEntry, ClearMasks, LoadMasks).*)
(*                                                                         *)
(* A mask is the set of its minutes (MaskIntervals shows that addInterval  *)
(* is union).  Both root files exist from the start.                       *)
(***************************************************************************)
EXTENDS Naturals, Sequences

CONSTANTS
  Sensor,
  Star,           \* the sensor name "*"
  Minute,
  NewRows,        \* rows that clients add
  RegionRows,     \* the mask files of the region, by mask type
  MaxRows,        \* bound: rows of the root files together
  MaxRewrites     \* bound: rewrites of the root files together

MaskType == {"invalid", "suspect"}

\* station.getSensorNames: no sensor of a station is called "*".
ASSUME StarAssumption == Star \notin Sensor

\* minutes is empty if start is behind end.  A row is known if its station is.
Row == [known : BOOLEAN, sensor : Sensor \cup {Star}, minutes : SUBSET Minute,
        removed : BOOLEAN]

ASSUME RowsAssumption == NewRows \subseteq Row /\ RegionRows \in [MaskType -> Seq(Row)]

VARIABLES
  file,        \* the root files: rows and version (a rewrite is a new file)
  mask,        \* the masks in StreamDB
  committed,   \* the masks on disk
  adder,       \* the request at Handler_mask
  lister,      \* the request at Handler_masklist
  acked,       \* history: by type, rows acknowledged and not removed since, each with
               \* the handler that took it
  alone,       \* history: no other request since the masks were cleared
  undisturbed  \* history: requests never overlapped, none was cut off

history == <<acked, alone, undisturbed>>
vars == <<file, mask, committed, adder, lister, history>>

NoMasks == [type \in MaskType |-> [s \in Sensor \cup {Star} |-> {}]]

\* LoadMasks: the masks a row stands for.
Effective(row) == row.known /\ ~row.removed /\ row.minutes # {}
TargetSensors(row) == IF row.sensor = Star THEN Sensor ELSE {row.sensor}

\* What of a mask file is to be inserted, line by line.
Target(line, s, minutes) == [line |-> line, sensor |-> s, minutes |-> minutes]

\* Mutant: removed rows are loaded.
TargetsOfAll(line, row) ==
  {Target(line, s, row.minutes) : s \in {s \in TargetSensors(row) : row.known /\ row.minutes # {}}}

Targets(line, row) ==
  {Target(line, s, row.minutes) : s \in {s \in TargetSensors(row) : Effective(row)}}

\* What the masks should be.
RowsMask(rows, s) ==
  UNION {rows[k].minutes : k \in {k \in DOMAIN rows :
                                    Effective(rows[k]) /\ s \in TargetSensors(rows[k])}}
FileMask(type, s) == RowsMask(file[type].rows, s) \cup RowsMask(RegionRows[type], s)

\* A row as the client sent it and the handler that acknowledged it.
Acked(by, row) == [by |-> by, row |-> row]

Idle == [pc |-> "idle"]

Init ==
  /\ file = [type \in MaskType |-> [rows |-> <<>>, version |-> 0]]
  /\ mask = [type \in MaskType |-> [s \in Sensor \cup {Star} |->
               IF s = Star THEN {} ELSE RowsMask(RegionRows[type], s)]]
  /\ committed = mask
  /\ adder = Idle
  /\ lister = Idle
  /\ acked = [type \in MaskType |-> {}]
  /\ alone = TRUE
  /\ undisturbed = TRUE

Rows == Len(file["invalid"].rows) + Len(file["suspect"].rows)
Rewrites == file["invalid"].version + file["suspect"].version

\* insertMask merges an interval into the mask that the map returned.  That is the
\* instance in the map's cache if the weak reference to it is still there: then
\* everyone sees the merged mask before it is put.
Merged(type, s, minutes) == mask[type][s] \cup minutes
MergeInPlaceOrNot(type, s, minutes) ==
  \/ UNCHANGED mask
  \/ mask[type][s] # {} /\ mask' = [mask EXCEPT ![type][s] = Merged(type, s, minutes)]

-----------------------------------------------------------------------------
(* addTimeSeriesMaskInterval                                               *)

AdderAt(pc, type, row, version, minutes, ok) ==
  [pc |-> pc, type |-> type, row |-> row, version |-> version, mask |-> minutes, ok |-> ok]

\* The request goes on with what it has.
AdderGoesOn(pc, minutes, ok) ==
  adder' = AdderAt(pc, adder.type, adder.row, adder.version, minutes, ok)

\* The file is opened for appending.
AddOpen(type, row) ==
  /\ adder = Idle
  /\ Rows < MaxRows
  /\ ~row.removed
  /\ adder' = AdderAt("get", type, row, file[type].version, {}, FALSE)
  /\ alone' = FALSE
  /\ undisturbed' = (undisturbed /\ lister = Idle)
  /\ UNCHANGED <<file, mask, committed, lister, acked>>

\* The end of the request if the interval is empty: Interval.of throws.
AddReject ==
  /\ adder.pc = "get"
  /\ adder.row.minutes = {}
  /\ AdderGoesOn("close", {}, FALSE)
  /\ UNCHANGED <<file, mask, committed, lister, history>>

\* Masks of other stations are not modelled.
AddGet ==
  /\ adder.pc = "get"
  /\ adder.row.minutes # {}
  /\ LET s == adder.row.sensor
     IN  /\ AdderGoesOn("put", Merged(adder.type, s, adder.row.minutes), FALSE)
         /\ IF adder.row.known
              THEN MergeInPlaceOrNot(adder.type, s, adder.row.minutes)
              ELSE UNCHANGED mask
  /\ UNCHANGED <<file, committed, lister, history>>

AddPut ==
  /\ adder.pc = "put"
  /\ mask' = IF adder.row.known
               THEN [mask EXCEPT ![adder.type][adder.row.sensor] = adder.mask]
               ELSE mask
  /\ AdderGoesOn("commit", adder.mask, FALSE)
  /\ UNCHANGED <<file, committed, lister, history>>

AddCommit ==
  /\ adder.pc = "commit"
  /\ committed' = mask
  /\ AdderGoesOn("close", adder.mask, TRUE)
  /\ UNCHANGED <<file, mask, lister, history>>

\* The row has been waiting in the writer's buffer.  It goes to the file that was
\* opened: if that was replaced, the row is lost with it.
AddClose ==
  /\ adder.pc = "close"
  /\ LET type == adder.type
     IN  /\ file' = IF adder.version = file[type].version
                      THEN [file EXCEPT ![type].rows = Append(@, adder.row)]
                      ELSE file
         /\ acked' = IF adder.ok
                       THEN [acked EXCEPT ![type] = @ \cup {Acked("mask", adder.row)}]
                       ELSE acked
  /\ adder' = Idle
  /\ UNCHANGED <<mask, committed, lister, alone, undisturbed>>

-----------------------------------------------------------------------------
(* addTimeSeriesMaskListEntry and setTimeSeriesMaskListEntry               *)

\* colStation.equalsValue compares instead of setting: the row has no station.
ListAdd(type, row) ==
  /\ lister = Idle
  /\ Rows < MaxRows
  /\ Rewrites < MaxRewrites
  /\ lister' = [pc |-> "write", type |-> type, reload |-> FALSE, removed |-> {},
                added |-> {Acked("masklist", row)},
                rows |-> Append(file[type].rows, [row EXCEPT !.known = FALSE])]
  /\ undisturbed' = (undisturbed /\ adder = Idle)
  /\ UNCHANGED <<file, mask, committed, adder, acked, alone>>

\* A listed row as it is written back.
RemovedRow(row, s) ==
  [known |-> row.known, sensor |-> s, minutes |-> row.minutes, removed |-> TRUE]

\* Mutant: the row above the listed one is rewritten.
ListRemoveLineAbove(type, line, s) ==
  LET rows == file[type].rows
  IN  /\ lister = Idle
      /\ Rewrites < MaxRewrites
      /\ rows[line].known
      /\ s \in TargetSensors(rows[line])
      /\ line > 1
      /\ lister' = [pc |-> "write", type |-> type, reload |-> TRUE,
                    removed |-> {Acked("mask", rows[line])}, added |-> {},
                    rows |-> [rows EXCEPT ![line - 1] = RemovedRow(@, s)]]
      /\ undisturbed' = (undisturbed /\ adder = Idle)
      /\ UNCHANGED <<file, mask, committed, adder, acked, alone>>

\* The client chose an entry of the list of sensor s, where rows of "*" appear
\* under the name of the sensor: the row is written back as it was listed.
ListRemove(type, line, s) ==
  LET rows == file[type].rows
  IN  /\ lister = Idle
      /\ Rewrites < MaxRewrites
      /\ rows[line].known
      /\ s \in TargetSensors(rows[line])
      /\ lister' = [pc |-> "write", type |-> type, reload |-> TRUE,
                    removed |-> {Acked("mask", rows[line])}, added |-> {},
                    rows |-> [rows EXCEPT ![line] = RemovedRow(@, s)]]
      /\ undisturbed' = (undisturbed /\ adder = Idle)
      /\ UNCHANGED <<file, mask, committed, adder, acked, alone>>

\* writeCSV moves a new file over the old one.
ListWrite ==
  /\ lister.pc = "write"
  /\ LET type == lister.type
     IN  /\ file' = [file EXCEPT ![type] = [rows |-> lister.rows, version |-> @.version + 1]]
         /\ acked' = [acked EXCEPT ![type] = (@ \ lister.removed) \cup lister.added]
  /\ lister' = IF lister.reload THEN [pc |-> "clear", types |-> {}] ELSE Idle
  /\ UNCHANGED <<mask, committed, adder, alone, undisturbed>>

\* Mutant: the suspect masks are not cleared.
ClearInvalidOnly ==
  /\ lister.pc = "clear"
  /\ mask' = [mask EXCEPT !["invalid"] = NoMasks["invalid"]]
  /\ lister' = [pc |-> "load", source |-> 1]
  /\ alone' = (adder = Idle)
  /\ UNCHANGED <<file, committed, adder, acked, undisturbed>>

\* ClearMasks: the masks of the station, then its suspect masks.
ClearMasks ==
  /\ lister.pc = "clear"
  /\ \/ /\ lister.types = {}
        /\ mask' = [mask EXCEPT !["invalid"] = NoMasks["invalid"]]
        /\ lister' = [lister EXCEPT !.types = {"invalid"}]
        /\ alone' = (adder = Idle)
     \/ /\ lister.types = {"invalid"}
        /\ mask' = [mask EXCEPT !["suspect"] = NoMasks["suspect"]]
        /\ lister' = [pc |-> "load", source |-> 1]
        /\ UNCHANGED alone
  /\ UNCHANGED <<file, committed, adder, acked, undisturbed>>

\* LoadMasks reads four files, one after the other.
SourceType(source) == IF source % 2 = 1 THEN "invalid" ELSE "suspect"
SourceRows(source) ==
  IF source <= 2 THEN file[SourceType(source)].rows ELSE RegionRows[SourceType(source)]

Load ==
  /\ lister.pc = "load"
  /\ lister.source <= 4
  /\ lister' = [pc |-> "insert", source |-> lister.source,
                todo |-> UNION {Targets(k, SourceRows(lister.source)[k]) :
                                  k \in DOMAIN SourceRows(lister.source)}]
  /\ UNCHANGED <<file, mask, committed, adder, history>>

\* insertMask for one row and sensor: the mask is read ...
LoadGet ==
  /\ lister.pc = "insert"
  /\ \E t \in lister.todo :
       /\ \A u \in lister.todo : t.line <= u.line
       /\ LET type == SourceType(lister.source)
          IN  /\ lister' = [pc |-> "put", source |-> lister.source, todo |-> lister.todo \ {t},
                            sensor |-> t.sensor, mask |-> Merged(type, t.sensor, t.minutes)]
              /\ MergeInPlaceOrNot(type, t.sensor, t.minutes)
  /\ UNCHANGED <<file, committed, adder, history>>

\* ... and written back.
LoadPut ==
  /\ lister.pc = "put"
  /\ mask' = [mask EXCEPT ![SourceType(lister.source)][lister.sensor] = lister.mask]
  /\ lister' = [pc |-> "insert", source |-> lister.source, todo |-> lister.todo]
  /\ UNCHANGED <<file, committed, adder, history>>

\* The commit at the end of each file.
LoadCommit ==
  /\ lister.pc = "insert"
  /\ lister.todo = {}
  /\ committed' = mask
  /\ lister' = [pc |-> "load", source |-> lister.source + 1]
  /\ UNCHANGED <<file, mask, adder, history>>

LoadDone ==
  /\ lister.pc = "load"
  /\ lister.source > 4
  /\ lister' = Idle
  /\ UNCHANGED <<file, mask, committed, adder, history>>

-----------------------------------------------------------------------------

\* The process ends: masks as of the last commit, files as they are.
Crash ==
  /\ mask' = committed
  /\ adder' = Idle
  /\ lister' = Idle
  /\ alone' = TRUE
  /\ undisturbed' = (undisturbed /\ adder = Idle /\ lister = Idle)
  /\ UNCHANGED <<file, committed, acked>>

Next ==
  \/ \E type \in MaskType, row \in NewRows : AddOpen(type, row)
  \/ AddReject
  \/ AddGet
  \/ AddPut
  \/ AddCommit
  \/ AddClose
  \/ \E type \in MaskType, row \in NewRows : ListAdd(type, row)
  \/ \E type \in MaskType : \E line \in DOMAIN file[type].rows, s \in Sensor :
       ListRemove(type, line, s)
  \/ ListWrite
  \/ ClearMasks
  \/ Load
  \/ LoadGet
  \/ LoadPut
  \/ LoadCommit
  \/ LoadDone
  \/ Crash

Spec == Init /\ [][Next]_vars

-----------------------------------------------------------------------------

\* When LoadMasks is through and nothing else went on since the masks were
\* cleared, the masks are what the files say, also of sensors and mask types the
\* request did not name.
ReloadExact ==
  lister.pc = "load" /\ lister.source > 4 /\ alone =>
    \A type \in MaskType :
      /\ \A s \in Sensor : mask[type][s] = FileMask(type, s)
      /\ mask[type][Star] = {}

\* What is stored of an acknowledged row: Handler_masklist loses the station.
Stored(a) == IF a.by = "masklist" THEN [a.row EXCEPT !.known = FALSE] ELSE a.row

\* What is stored of a row that was acknowledged stays in its file until the row is
\* removed, whichever handler took it, if requests did not overlap.  That is the row as it
\* was sent only if Handler_mask took it.  A row that Handler_masklist took has no station:
\* no list of a sensor has it and no mask is made of it.
AckedRowsStay ==
  undisturbed => \A type \in MaskType : \A a \in acked[type] :
    \E k \in DOMAIN file[type].rows : file[type].rows[k] = Stored(a)

\* Between requests that did not overlap the masks are those of the files: adding one
\* row at a time gives the same masks as making them anew.  (Except that a new row of
\* "*" masks the sensor of that name, until the next reload.)
QuietMasksMatchFiles ==
  adder = Idle /\ lister = Idle /\ undisturbed =>
    \A type \in MaskType : mask[type][Star] = {} =>
      \A s \in Sensor : mask[type][s] = FileMask(type, s)
=============================================================================
