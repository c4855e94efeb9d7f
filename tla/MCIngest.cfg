\* A seeded handle and a channel the bot administers, a buffer of one, a
\* command, a failure, a stop or a crash, and the recovery from it.
CONSTANTS
  x = x
  tg = tg
  XSources = {x}
  TgSources = {tg}
  Seeded = {x}
  Administered = {tg}
  MaxPosts = 2
  Reach <- ShortPages
  Lookback <- ShortPages
  MaxBuffer = 1
  MaxCommands = 1
  MaxFaults = 1
  NoPost = NoPost
  Ended = Ended
SPECIFICATION FairSpec
INVARIANTS
  StreamInv
  ChannelOrderKept
PROPERTIES
  RemovalHolds
  PostsComeThrough
\* The feeds are finite: with all their posts through and nobody watched, nothing
\* is left to do.
CHECK_DEADLOCK FALSE
