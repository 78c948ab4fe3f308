--------------------------- MODULE MCStreamDBConc ---------------------------
(***************************************************************************)
(* TLC instances of StreamDBConc: years {0, 1}, {2, 3}.                    *)
(***************************************************************************)
EXTENDS StreamDBConc

CONSTANTS w1, w2

MCLowerYear == [t \in Time |-> IF t < 2 THEN -1 ELSE 2]
MCNextYear == [t \in Time |-> IF t < 2 THEN 2 ELSE 4]

\* Every writer has a year of its own.
MCApart == [w \in Writer |-> IF w = w1 THEN {0, 1} ELSE {2}]
=============================================================================
