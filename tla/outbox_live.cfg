SPECIFICATION FairSpec
CONSTANTS
  k1 = k1
  k2 = k2
  p1 = p1
  p2 = p2
  Keys <- TwoKeys
  Replicas <- TwoReplicas
  MaxAttempts = 2
  Concurrency = 2
  MarkMayFail = FALSE
  MaxFaults = 1
  MaxReplays = 0
 
PROPERTY Decided
