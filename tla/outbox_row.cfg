SPECIFICATION Spec
CONSTANTS
  k1 = k1
  k2 = k2
  p1 = p1
  p2 = p2
  Keys <- OneKey
  Replicas <- TwoReplicas
  MaxAttempts = 2
  Concurrency = 2
  MarkMayFail = TRUE
  MaxFaults = 3
  MaxReplays = 2
INVARIANT SuccessIsReal
INVARIANT ExclusiveClaim
INVARIANT AnnouncedIsCommitted
INVARIANT RepeatsNeedDoubt
PROPERTY ImplementsErpSync
