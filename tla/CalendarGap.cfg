SPECIFICATION Spec
CONSTANTS
  Weekdays = {0}
  Gaps = {14}
  LastDay = 30
\* The days that are followed come to an end.
CHECK_DEADLOCK FALSE
INVARIANT GapIsSkipped
