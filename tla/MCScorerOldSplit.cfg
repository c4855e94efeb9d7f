\* A split before the call was issued.
CONSTANTS
  Entry = 8
  Risk = 4
  Reward = 4
  Horizon = 3
  Shapes <- AllShapes
  Cash = 2
  SplitDays = {0, 1}
  DivDays = {0}
  TerminalDays = {0}
  TerminalPrice = 2
  MaxBars = 2
SPECIFICATION ScoreSpec
INVARIANTS
  OldSplitIsSettled
\* The tape ends after MaxBars bars.
CHECK_DEADLOCK FALSE
