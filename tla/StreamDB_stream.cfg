\* One stream over three years of different length, two values, requests of two entries
\* in any order.
SPECIFICATION Spec
CONSTANTS
  Station = {s1}
  Sensor = {a}
  Value = {v1, v2}
  MaxTime = 3
  MaxBatch = 2
  roundLowerYear <- MCLowerYear
  roundNextYear <- MCNextYear
SYMMETRY Interchangeable
INVARIANTS
  ChunkIndexExact
  YearsDoNotOverlap
  QueryExact
  TimeIntervalExact
  RemoveExact
