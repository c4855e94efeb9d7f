\* The process loop and the listener, three posts, an image that two of them show, three calls a day.
CONSTANTS
  coin = coin
  squeeze = squeeze
  chart = chart
  loop = loop
  listener = listener
  Tasks = {loop, listener}
  Loop = loop
  Posts = {coin, squeeze, chart}
  NoPost = NoPost
  Symbols = {"BTC", "SPY", "ALL"}
  Text <- ThreeTexts
  Collisions = {"ALL"}
  CryptoSymbols = {"BTC"}
  AlwaysEquity = {}
  InferAnswers <- SomeInferences
  ImageAnswers <- SomeImages
  StanceAnswers <- SomeStances
  DailyLimit = 3
  VisionLimit = 2
  MaxContributors = 2
  MaxDays = 1
  MaxSightings = 2
  MaxCrashes = 1
SPECIFICATION Spec
INVARIANTS
  ReadingInv
  TextIsKept
  BudgetIsExact
  ConvictionIsOwn
  MoodIsOfThePosts
  ContributorsAreTheLast
\* The sightings are bounded.
CHECK_DEADLOCK FALSE
