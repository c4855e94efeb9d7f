\* Three posts, the oldest unreadable, two in a batch; two failures or crashes.
CONSTANTS
  Posts <- ThreePosts
  Symbols = {"NVDA", "AMD"}
  Extractions <- TwoReadings
  Poison = {1}
  Batch = 2
  MaxFaults = 2
  NoKey = NoKey
SPECIFICATION FairSpec
INVARIANTS
  ScanInv
PROPERTIES
  GradedForGood
  EveryPostIsScanned
