\* A mention with a call, three days, any touches, one failure or crash.
CONSTANTS
  Mentions = {m1}
  SymbolOf <- OneSymbol
  AuthorOf <- OneAuthor
  Bench = "SPY"
  Horizons = {1, 2}
  EdgeHorizon = 1
  CallHorizon = 2
  Touches <- SomeTouch
  Lookback = 2
  MaxDay = 3
  MaxFaults = 1
SPECIFICATION FairSpec
INVARIANTS
  ResultsAreOfTheTape
PROPERTIES
  ResultsAreFinal
  RowsComplete
  EvidenceCounts
\* The tape is finite: once all its results are in, nothing is left to do.
CHECK_DEADLOCK FALSE
