\* Three senders racing for three keys.
CONSTANTS
  Senders = {s1, s2, s3}
  Keys = {k1, k2, k3}
  NoKey = NoKey
SPECIFICATION FairSpec
INVARIANTS
  IInv
PROPERTIES
  ClaimsAreForGood
  DeliverySpec
  ClaimMeetsItsFate
