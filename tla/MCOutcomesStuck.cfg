\* A call with a longer horizon than the returns.
CONSTANTS
  Mentions = {m1}
  SymbolOf <- OneSymbol
  AuthorOf <- OneAuthor
  Bench = "SPY"
  Horizons = {1, 2}
  EdgeHorizon = 1
  CallHorizon = 3
  Touches <- NoTouch
  Lookback = 3
  MaxDay = 4
  MaxFaults = 0
SPECIFICATION FairSpec
PROPERTIES
  CallsAreGraded
\* The tape is finite: once all its results are in, nothing is left to do.
CHECK_DEADLOCK FALSE
