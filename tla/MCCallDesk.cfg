\* Three names, two of one narrative; live and on paper; graded a date later.
CONSTANTS
  NVDA = NVDA
  AMD = AMD
  TSLA = TSLA
  Symbols <- ThreeSymbols
  Narrative <- Themes
  NoNarrative = NoNarrative
  MaxHour = 2
  Day <- OnePerDay
  Horizon = 1
  MaxCalls = 2
  Top = 2
  PaperModes = {TRUE, FALSE}
  PauseModes = {"broadcast"}
  MaxFaults = 1
  NoKey = NoKey
SPECIFICATION Spec
SYMMETRY Symmetry
INVARIANTS
  BookInv
  LiveCallIsPublic
  RunIsSpread
  KillStopsTheNextRun
PROPERTIES
  ClosedForGood
