\* Two calls, due a day apart, two accounts, any contributions, one failure.
CONSTANTS
  a = a
  b = b
  first = first
  second = second
  Calls = {first, second}
  Accounts = {a, b}
  Voices <- Discussions
  Results <- WinOrLose
  Unit = 6
  DueOn <- DayByDay
  MinResults = 2
  Floor = Floor
  Evidence = Evidence
  MaxDay = 2
  MaxFaults = 1
SPECIFICATION LoopSpec
INVARIANTS
  ResultInv
  CredibilityIsWhole
\* The days are bounded.
CHECK_DEADLOCK FALSE
