--------------------------- MODULE MaskSelection ---------------------------
(***************************************************************************)
(* What is selected in the toolbar of the mask app (mask_app, Shell.vue):   *)
(* which options each field offers and how a choice in one field settles    *)
(* the others.  The watchers of the fields run one after the other, in the  *)
(* order in which Shell.vue declares them, before anything is fetched:      *)
(* Settle is all of them.                                                   *)
(***************************************************************************)
EXTENDS Naturals, Sequences, FiniteSets, SequencesExt

CONSTANTS
  None,           \* the empty selection ''
  Projects,       \* the projects of /tsdb/model, in order
  GroupsOf,       \* project -> its groups, in order
  DefaultGroup,   \* project -> its default group or None
  PlotsOf,        \* group -> its plots, in order
  StationsOf,     \* plot -> the stations of a virtual plot, in order
  SensorsOf,      \* plot -> its sensors, in order
  Levels,         \* sensor -> the time aggregations it has
  Derived,        \* the derived sensors
  Diagnostics,    \* sensor -> its diagnostic sensors, in order
  Preferred,      \* the sensor "Ta_200"
  Distance,       \* <<plot, plot>> -> metres, 0 if a position is unknown or the same
  Located,        \* the plots with a position
  Aggregations,
  Qualities

\* What /tsdb/model lists; nothing that can be selected is the empty selection.
ASSUME ModelAssumption ==
  /\ Projects # <<>> /\ Projects \in Seq(DOMAIN GroupsOf)
  /\ \A p \in DOMAIN GroupsOf : GroupsOf[p] \in Seq(DOMAIN PlotsOf)
  /\ \A g \in DOMAIN PlotsOf : PlotsOf[g] \in Seq(DOMAIN StationsOf \cap DOMAIN SensorsOf)
  /\ \A p \in DOMAIN StationsOf : StationsOf[p] \in Seq(ToSet(StationsOf[p]))
  /\ \A p \in DOMAIN SensorsOf : SensorsOf[p] \in Seq(DOMAIN Diagnostics \cap DOMAIN Levels)
  /\ \A s \in DOMAIN Diagnostics : Diagnostics[s] \in Seq(DOMAIN Diagnostics)
  /\ None \notin DOMAIN GroupsOf \cup DOMAIN PlotsOf \cup DOMAIN Diagnostics

\* The options of the plot fields: a plot, or the stations of a virtual plot.
OptionsOfPlot(p) ==
  IF StationsOf[p] = <<>>
    THEN <<[plot |-> p, station |-> None]>>
    ELSE [k \in DOMAIN StationsOf[p] |-> [plot |-> p, station |-> StationsOf[p][k]]]

groupOptions(sel) == IF sel.project = None THEN <<>> ELSE GroupsOf[sel.project]

plotOptions(sel) ==
  IF sel.group = None THEN <<>>
  ELSE FlattenSeq([k \in DOMAIN PlotsOf[sel.group] |-> OptionsOfPlot(PlotsOf[sel.group][k])])

\* The stations to compare with: all others of the group, the nearest first, or the
\* plot options as they are if the selected plot has no position.
plotOptionsCmp(sel) ==
  IF sel.plot = None THEN <<>>
  ELSE LET here == sel.plot.plot
           far(o) == IF o.plot \in Located THEN Distance[here, o.plot] ELSE 0
           others == SelectSeq(plotOptions(sel), LAMBDA o : o.plot # here)
       IN  IF here \notin Located
             THEN IF sel.nearest THEN <<>> ELSE plotOptions(sel)
             ELSE IF sel.nearest
               THEN SortSeq(SelectSeq(others, LAMBDA o : far(o) # 0),
                            LAMBDA a, b : far(a) < far(b))
               ELSE others

\* The model has sensors of plots: a station of a virtual plot has none of its own.
HasSensors(option) == option # None /\ option.station = None

\* The items of a list that are in a set, in order.
Among(list, set) ==
  LET among[n \in 0..Len(list)] ==
        IF n = 0 THEN <<>>
        ELSE IF list[n] \in set THEN Append(among[n - 1], list[n]) ELSE among[n - 1]
  IN  among[Len(list)]

sensorOptions(sel) ==
  IF HasSensors(sel.plot)
    THEN Among(SensorsOf[sel.plot.plot], {s \in DOMAIN Levels : sel.agg \in Levels[s]})
    ELSE <<>>

filteredSensorOptions(sel) == Among(sensorOptions(sel), ToSet(sensorOptions(sel)) \ Derived)

diagnosticSensorOptions(sel) ==
  IF sel.sensor \in ToSet(sensorOptions(sel))
    THEN Among(Diagnostics[sel.sensor], ToSet(sensorOptions(sel)))
    ELSE <<>>

sensorCmpOptions(sel) ==
  IF sel.diagnosticsOnly /\ diagnosticSensorOptions(sel) # <<>>
    THEN diagnosticSensorOptions(sel) ELSE sensorOptions(sel)

FirstOr(s, otherwise) == IF s = <<>> THEN otherwise ELSE Head(s)

-----------------------------------------------------------------------------
(* The watchers                                                            *)

\* Keep sensor and comparison sensor if they are still offered, else take the
\* preferred or the first sensor and its first diagnostic sensor.
selectSensorWithPreference(sel) ==
  LET offered == sensorOptions(sel)
      first   == IF Preferred \in ToSet(offered) THEN Preferred ELSE Head(offered)
      main    == [sel EXCEPT !.sensor = IF @ \in ToSet(offered) THEN @ ELSE first]
  IN  IF offered = <<>> THEN [sel EXCEPT !.sensor = None, !.cmp = None]
      ELSE [main EXCEPT !.cmp = IF @ \in ToSet(sensorCmpOptions(main)) THEN @
                                ELSE FirstOr(diagnosticSensorOptions(main), None)]

ProjectChanged(sel) ==
  LET groups == groupOptions(sel)
  IN  [sel EXCEPT !.group = IF DefaultGroup[sel.project] \in ToSet(groups)
                              THEN DefaultGroup[sel.project] ELSE FirstOr(groups, None),
                  !.plot = None,
                  !.plotCmp = None]

GroupChanged(sel) == [sel EXCEPT !.plot = FirstOr(plotOptions(sel), None)]

\* Mutant: the sensor of the old plot stays.
PlotChangedKeepSensor(sel) == [sel EXCEPT !.plotCmp = None]

PlotChanged(sel) ==
  LET s == IF HasSensors(sel.plot) THEN selectSensorWithPreference(sel)
           ELSE [sel EXCEPT !.sensor = None, !.cmp = None]
  IN  [s EXCEPT !.plotCmp = None]

\* A watcher runs if what it watches is not what it was before the choice.
Settle(old, sel) ==
  LET a == IF sel.project # old.project THEN ProjectChanged(sel) ELSE sel
      b == IF a.group # old.group THEN GroupChanged(a) ELSE a
      c == IF b.plot # old.plot THEN PlotChanged(b) ELSE b
  IN  IF c.agg # old.agg THEN selectSensorWithPreference(c) ELSE c

NothingSelected ==
  [project |-> None, group |-> None, plot |-> None, sensor |-> None, cmp |-> None,
   plotCmp |-> None, agg |-> "day", qc |-> "basic", separate |-> TRUE,
   interpolation |-> FALSE, showMasks |-> TRUE, nearest |-> TRUE, diagnosticsOnly |-> TRUE]

FirstSelection == Settle(NothingSelected, [NothingSelected EXCEPT !.project = Projects[1]])

-----------------------------------------------------------------------------
(* The choices of the user: the selections that one choice leads to         *)

\* The option before or behind the selected one, round the end of the list.
Adjacent(options, current, direction, ifNone) ==
  LET i == CHOOSE k \in DOMAIN options : options[k] = current
      n == Len(options)
  IN  IF options = <<>> THEN current
      ELSE IF current \notin ToSet(options) THEN options[ifNone]
      ELSE options[((i - 1 + direction + n) % n) + 1]

ProjectChoices(sel) == {[sel EXCEPT !.project = p] : p \in ToSet(Projects)}
GroupChoices(sel) == {[sel EXCEPT !.group = g] : g \in ToSet(groupOptions(sel))}
PlotChoices(sel) == {[sel EXCEPT !.plot = o] : o \in ToSet(plotOptions(sel))}

PreviousPlot(sel) ==
  [sel EXCEPT !.plot = Adjacent(plotOptions(sel), @, -1, Len(plotOptions(sel)))]
NextPlot(sel) == [sel EXCEPT !.plot = Adjacent(plotOptions(sel), @, 1, 1)]

PlotCmpChoices(sel) ==
  {[sel EXCEPT !.plotCmp = o] : o \in ToSet(plotOptionsCmp(sel)) \cup {None}}
AdjacentPlotCmp(sel, direction) ==
  [sel EXCEPT !.plotCmp = Adjacent(plotOptionsCmp(sel), @, direction, 1)]

\* onSensorChange: a sensor with a diagnostic sensor is compared with it.
SensorChoices(sel) ==
  {LET main == [sel EXCEPT !.sensor = s]
   IN  [main EXCEPT !.cmp = FirstOr(diagnosticSensorOptions(main), @)] :
     s \in ToSet(filteredSensorOptions(sel)) \ {sel.sensor}}

CmpChoices(sel) == {[sel EXCEPT !.cmp = s] : s \in ToSet(sensorCmpOptions(sel)) \cup {None}}
AggregationChoices(sel) == {[sel EXCEPT !.agg = a] : a \in Aggregations}
QualityChoices(sel) == {[sel EXCEPT !.qc = q] : q \in Qualities}

SwitchChoices(sel) ==
  {[sel EXCEPT !.separate = ~@], [sel EXCEPT !.interpolation = ~@], [sel EXCEPT !.showMasks = ~@],
   [sel EXCEPT !.nearest = ~@], [sel EXCEPT !.diagnosticsOnly = ~@]}
=============================================================================
