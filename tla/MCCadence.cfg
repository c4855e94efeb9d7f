\* Units of twelve hours, from a Thursday noon to the Sunday; a pulse in each.
CONSTANTS
  DayLen = 2
  OpsEvery = 1
  PulseEvery = 1
  WeeklyEvery = 1
  Start = 21
  End = 26
  Slow = 1
  MaxEvents = 2
SPECIFICATION FairSpec
INVARIANTS
  WeeklyInv
  SilenceIsTold
PROPERTIES
  HoldIsObeyed
  NoJobStarves
\* The clock stops at End.
CHECK_DEADLOCK FALSE
