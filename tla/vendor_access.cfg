SPECIFICATION FairSpec
CONSTANTS
  sap = sap
  oracle = oracle
  p1 = p1
  p2 = p2
  k1 = k1
  Vendors <- Both
  Kind <- KindOf
  Pushes <- TwoRows
  Target <- Sap
  Checks <- OneCheck
  Required = FALSE
  FailMax = 1
  MaxAttempts = 2
  MaxLosses = 1
INVARIANT OneRefreshPerLoss
PROPERTY DroppedIsNotReused
PROPERTY AllSettle
CHECK_DEADLOCK FALSE
