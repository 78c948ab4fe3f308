\* Two writers with a year each, a reader, commits and crashes anywhere.
SPECIFICATION Spec
CONSTANTS
  w1 = w1
  w2 = w2
  Writer = {w1, w2}
  Reader = {r1}
  WriterTimes <- MCApart
  Value = {v1}
  MaxTime = 2
  roundLowerYear <- MCLowerYear
  roundNextYear <- MCNextYear
INVARIANTS
  UntouchedYearsExact
  MetaNeverLies
  NoInternalError
