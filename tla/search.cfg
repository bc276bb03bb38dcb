SPECIFICATION SearchFairSpec
CONSTANTS
  a = a
  b = b
  s1 = s1
  s2 = s2
  s3 = s3
  Networks <- TwoNetworks
  Searches <- ThreeSearches
  Items <- AllItems
  Near <- NearPlaces
  NoPlace = 0
  Answers <- AnswersOf
  FailureThreshold = 2
INVARIANT NothingLost
PROPERTY SearchEnds
CHECK_DEADLOCK FALSE
