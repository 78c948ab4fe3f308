------------------------- MODULE MCConsoleCommands --------------------------
(***************************************************************************)
(* TLC instances of ConsoleCommands.                                       *)
(***************************************************************************)
EXTENDS ConsoleCommands

CONSTANTS c1, c2

MCClient == {c1, c2}
=============================================================================
