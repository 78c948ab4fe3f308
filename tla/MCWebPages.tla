----------------------------- MODULE MCWebPages -----------------------------
(***************************************************************************)
(* A small instance of WebPages: two regions, one with two general stations  *)
(* and a sensor that is raw only; two projects; a plot with two stations; a  *)
(* background map that is drawn from tiles, one that has to be asked for its *)
(* layers and one whose server the user enters.                             *)
(***************************************************************************)
EXTENDS WebPages

MCRegions == <<"r1", "r2">>
MCGeneralsOf == [r1 |-> <<"g1", "g2">>, r2 |-> <<"g3">>]
MCPlotsOfGeneral == [g1 |-> <<"a">>, g2 |-> <<"b">>, g3 |-> <<"c">>]
MCSensorsOfRegion == [r1 |-> <<"T", "H">>, r2 |-> <<"T">>]
MCYearsOf == [r1 |-> <<1, 2>>, r2 |-> <<2, 3>>]

MCGroupsOf == [r1 |-> <<"g1", "g2">>, r2 |-> <<"g3">>]
MCSources ==
  [a |-> {[id |-> 1, first |-> 11, last |-> 13, rows |-> 2], [id |-> 2, first |-> 13, last |-> 26, rows |-> 1]},
   b |-> {[id |-> 3, first |-> 12, last |-> 12, rows |-> 1]},
   c |-> {}]
MCStatusOf ==
  [a |-> [last |-> 2, message |-> "text"], b |-> [last |-> None, message |-> None],
   c |-> [last |-> 1, message |-> "OK"]]

MCEGroups == [r1 |-> {"g1", "g2"}, r2 |-> {"g3"}]
MCEPlots == [r1 |-> <<"a", "b">>, r2 |-> <<"c">>]
MCEDefault == [r1 |-> All, r2 |-> "g3"]
MCGroupOfPlot == [a |-> "g1", b |-> "g2", c |-> "g3"]
MCStationsAt == [a |-> <<"s1", "s2">>, b |-> <<>>, c |-> <<"c">>]
MCSensorsAt == [a |-> {"T", "H"}, s1 |-> {"T"}, s2 |-> {"H"}, b |-> {"T", "H"}, c |-> {"H"}]
MCESensors == <<"H", "T">>
MCDefaults == <<"T">>

MCBackgrounds ==
  [tiles |-> [type |-> "XYZ", url |-> "u0"], wms |-> [type |-> "WMS", url |-> "u1"],
   own |-> [type |-> "WMS", url |-> None], wmts |-> [type |-> "WMTS", url |-> "u1"]]
MCLayersOf == ("" :> {}) @@ [u1 |-> {"l1"}, u2 |-> {"l1", "l2"}]
MCMapPlots == [a |-> TRUE, b |-> TRUE, c |-> FALSE]
=============================================================================
