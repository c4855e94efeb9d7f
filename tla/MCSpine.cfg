\* Two tasks that may take up either post, again and again; an author turns
\* around on a share and an option on it; an explicit call opens and closes
\* meanwhile; one exception or crash at any await.
CONSTANTS
  Tasks = {loop, listener}
  p1 = p1
  p2 = p2
  NoPost = NoPost
  NoKey = NoKey
  Posts <- TwoPosts
  Author <- SameAuthor
  PostedAt <- ThreeDaysApart
  Lookback = 3
  Metered = {p1}
  Readings <- MayTurnAround
  CallStances <- LongCalls
  MaxFaults = 1
SPECIFICATION Spec
SYMMETRY AnyTask
INVARIANTS
  SpineInv
  AuditedPostIsComplete
  ReversalIsAlerted
PROPERTIES
  NoCauselessReversal
  SightingAlerts
