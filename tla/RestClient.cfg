CONSTANTS
  Requests = {r1, r2}
  MaxRetries = 3
  RetryCountUpperBound = 2
SPECIFICATION FairSpec
INVARIANTS
  EffectsBounded
PROPERTIES
  ImplementsRetriedCall
  CallSettles
