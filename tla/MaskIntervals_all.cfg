\* Closed intervals and open ends, a query at any time.
SPECIFICATION IntervalsSpec
CONSTANTS
  IntMin = 0
  IntMax = 9
  Inputs <- MCInputs
  Timestamps = {2, 4, 5, 7}
INVARIANTS
  IntervalsSeparate
  MaskExact
  MaskedEntriesHidden
