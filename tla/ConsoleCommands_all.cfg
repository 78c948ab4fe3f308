\* Two clients, three commands of up to two lines, under fairness.
SPECIFICATION FairSpec
CONSTANTS
  c1 = c1
  c2 = c2
  Client <- MCClient
  MaxCommands = 3
  MaxLines = 2
INVARIANTS
  OutputInOrder
  OutputComplete
PROPERTIES
  CommandsEnd
\* Once the bound is reached no more commands are started.
CHECK_DEADLOCK FALSE
