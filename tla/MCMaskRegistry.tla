--------------------------- MODULE MCMaskRegistry ---------------------------
(***************************************************************************)
(* TLC instances of MaskRegistry.                                          *)
(***************************************************************************)
EXTENDS MaskRegistry

MCRow(known, sensor, minutes) ==
  [known |-> known, sensor |-> sensor, minutes |-> minutes, removed |-> FALSE]

\* The region has a suspect interval of every sensor.
MCRegionRows ==
  [type \in MaskType |-> IF type = "suspect" THEN <<MCRow(TRUE, Star, {0})>> ELSE <<>>]

\* A row of one sensor, of all sensors, of an unknown station and of no interval.
MCAllRows ==
  LET s == CHOOSE s \in Sensor : TRUE
  IN  {MCRow(TRUE, s, {0, 1}), MCRow(TRUE, Star, {1}), MCRow(FALSE, s, {1}), MCRow(TRUE, s, {})}
=============================================================================
