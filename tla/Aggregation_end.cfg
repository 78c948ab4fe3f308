\* A query whose end is the last minute of an hour.
SPECIFICATION Spec
CONSTANTS
  c1 = c1
  c2 = c2
  Column <- MCColumn
  Schema <- MCSchema
  Hour = 2
  Day = 6
  DayMinimum = 2
  Series <- MCSeries
  Bound <- MCBound
INVARIANTS
  LastHourComplete
