SPECIFICATION Spec
CONSTANTS
  None = None
  p1 = p1
  p2 = p2
  g1 = g1
  g2 = g2
  q1 = q1
  q2 = q2
  q3 = q3
  s1 = s1
  T = T
  H = H
  D = D
  Projects <- MCProjects
  GroupsOf <- MCGroupsOf
  DefaultGroup <- MCDefaultGroup
  PlotsOf <- MCPlotsOf
  StationsOf <- MCStationsOf
  SensorsOf <- MCSensorsOf
  Levels <- MCLevels
  Derived = {D}
  Diagnostics <- MCDiagnostics
  Preferred = T
  Distance <- MCDistance
  Located = {q1, q2}
  Aggregations = {"day", "hour"}
  Qualities = {"basic", "raw"}
  FirstRows <- MCFirstRows
  Time = {1, 2}
  MaxRows = 2
  MaxFlights = 4
  MaxClicks = 3
  MaxFails = 1
CHECK_DEADLOCK FALSE
INVARIANTS
  SelectionOffered
  FlagsEnd
  TidyViewCurrent
  EveryLineStyled
