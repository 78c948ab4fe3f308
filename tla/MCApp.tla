------------------------------- MODULE MCApp -------------------------------
(***************************************************************************)
(* A small instance of App: a project with a plot of two stations and a     *)
(* plot that two of its groups share, and a project that leaves no choice   *)
(* but of sensors; plots that are outdated, low in voltage or both; tasks   *)
(* of all the forms the file has.                                          *)
(***************************************************************************)
EXTENDS App

MCProjects == <<"p1", "p2">>
MCGroups == [p1 |-> <<"g1", "g2">>, p2 |-> <<"g3">>]
MCPlots == [g1 |-> <<"a", "m">>, g2 |-> <<"a">>, g3 |-> <<"c">>]
MCStations == [a |-> <<"s1">>, m |-> <<"s2", "s3">>, c |-> <<>>]
MCSensorsAt ==
  [a |-> {"T", "H"}, m |-> {"T", "R"}, c |-> {"T", "H"}, s1 |-> {"T"}, s2 |-> {"T"}, s3 |-> {"R"}]
MCSensors == <<"H", "R", "T">>
MCAggregations == [T |-> ToSet(Intervals), H |-> ToSet(Intervals) \ {"week"}, R |-> {}]
MCViewTimes ==
  [g1 |-> [start |-> 1, end |-> None], g2 |-> [start |-> None, end |-> None], g3 |-> [start |-> 2, end |-> 3]]

MCSetPlots == [x |-> <<"a", "m">>, y |-> <<"c">>]
MCSetSensors == [x |-> <<"T", "H">>, y |-> <<"T", "V">>]
MCLimits ==
  [T |-> [ok |-> <<10, 20>>, warn |-> <<5, 25>>], H |-> [ok |-> None, warn |-> None],
   V |-> [ok |-> None, warn |-> <<0, 9>>]]
MCNewest ==
  [a |-> [T |-> [value |-> 30, age |-> 5], H |-> [value |-> None, age |-> 150000]],
   m |-> [T |-> [value |-> 22, age |-> 100000], H |-> None],
   c |-> [T |-> None, V |-> [value |-> 1, age |-> 100001]]]

MCDefault == [p1 |-> None, p2 |-> "g3"]
MCTerms ==
  {[plots |-> {"a", "c"}, tasks |-> {Text}], [plots |-> {}, tasks |-> {101, 102}],
   [plots |-> {}, tasks |-> {ObjectText}]}
MCElapsed == [a |-> 43, m |-> 7, c |-> 366]
MCVoltage == [a |-> 5, m |-> 9, c |-> None]
MCVoltageLimits == [watch |-> 8, good |-> 10, error |-> 20]
MCNotes ==
  [a |-> <<[task |-> 101, status |-> None, id |-> None], [task |-> 102, status |-> "done", id |-> 1],
           [task |-> 103, status |-> "open", id |-> None]>>,
   m |-> Text]
=============================================================================
