----------------------------- MODULE MCMaskApp -----------------------------
(***************************************************************************)
(* A small instance of MaskApp: two projects that share a group, a plot that *)
(* is in two groups, a virtual plot, a sensor without hourly values and one  *)
(* that is a diagnostic of another.                                         *)
(***************************************************************************)
EXTENDS MaskApp

CONSTANTS p1, p2, g1, g2, q1, q2, q3, s1, T, H, D

MCProjects == <<p1, p2>>
MCGroupsOf == (p1 :> <<g1, g2>>) @@ (p2 :> <<g1>>)
MCDefaultGroup == (p1 :> None) @@ (p2 :> g1)
MCPlotsOf == (g1 :> <<q1, q2>>) @@ (g2 :> <<q1, q3>>)
MCStationsOf == (q1 :> <<>>) @@ (q2 :> <<>>) @@ (q3 :> <<s1>>)
MCSensorsOf == (q1 :> <<H, T, D>>) @@ (q2 :> <<T>>) @@ (q3 :> <<T>>)
MCLevels == (T :> {"day", "hour"}) @@ (H :> {"day"}) @@ (D :> {"day", "hour"})
MCDiagnostics == (T :> <<H>>) @@ (H :> <<>>) @@ (D :> <<>>)
MCDistance == [x \in {q1, q2, q3} \X {q1, q2, q3} |-> IF x = <<q1, q2>> \/ x = <<q2, q1>> THEN 5 ELSE 0]
MCFirstRows == <<[series |-> At([plot |-> q1, station |-> None], T),
                  interval |-> [start |-> 1, end |-> None], removed |-> FALSE]>>
=============================================================================
