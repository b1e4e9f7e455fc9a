CONSTANTS
  Callers = {c1, c2}
  Skew = 1
  Timeout = 1
  Lifetimes <- MCLifetimes
  MaxCalls = 2
SPECIFICATION FairSpec
INVARIANTS
  TypeOK
  OneRefreshInFlight
  NoLostWakeUp
  CachedIsNewest
  ForcedGetsNewerToken
PROPERTIES
  CacheHitIsValid
  FailuresAreFresh
  ImplementsSingleFlight
  EveryCallSettles
