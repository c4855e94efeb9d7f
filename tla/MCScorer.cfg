\* Up to three bars of eleven shapes, with a split, a dividend, a delisting.
CONSTANTS
  Entry = 8
  Risk = 4
  Reward = 4
  Horizon = 3
  Shapes <- AllShapes
  Cash = 2
  SplitDays = {0, 1, 3, 4}
  DivDays = {0, 3, 4}
  TerminalDays = {0, 3}
  TerminalPrice = 2
  MaxBars = 3
SPECIFICATION ScoreSpec
INVARIANTS
  ResultIsFair
  SplitInvariance
PROPERTIES
  ResultIsFinal
\* The tape ends after MaxBars bars.
CHECK_DEADLOCK FALSE
