\* Both handlers at a time, any row, the process may end at any time.
SPECIFICATION Spec
CONSTANTS
  Sensor = {"s1", "s2"}
  Star = "*"
  Minute = {0, 1}
  NewRows <- MCAllRows
  RegionRows <- MCRegionRows
  MaxRows = 2
  MaxRewrites = 2
INVARIANTS
  ReloadExact
  AckedRowsStay
  QuietMasksMatchFiles
