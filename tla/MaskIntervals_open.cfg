\* Open starts and open ends together.
SPECIFICATION IntervalsSpec
CONSTANTS
  IntMin = 0
  IntMax = 9
  Inputs <- MCOpenInputs
  Timestamps = {3, 4}
INVARIANTS
  MaskExact
