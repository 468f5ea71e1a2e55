\* Every day a timestamp of the logger can fall on; every second of the first
\* day and of a leap day.
SPECIFICATION Spec
CONSTANTS
  MaxDay = 99420
  Watched = {0, 11016}
INVARIANTS
  TypeOK
  ShownIsDate
\* The last day is the last one.
CHECK_DEADLOCK FALSE
