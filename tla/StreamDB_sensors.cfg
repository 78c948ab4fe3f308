\* Two sensors of a station: requests that fail between the sensors.
SPECIFICATION Spec
CONSTANTS
  Station = {s1}
  Sensor = {a, b}
  Value = {v1}
  MaxTime = 1
  MaxBatch = 1
  roundLowerYear <- MCOneYear
  roundNextYear <- MCOneYearNext
INVARIANTS
  DataIsRegistered
PROPERTIES
  ImplementsSeriesStore
