SPECIFICATION Spec
CONSTANTS
  c1 = c1
  c2 = c2
  Clients <- TwoClients
  Asks <- AnyAndCompare
  Items <- TheItems
  Keywords <- TheKeywords
  Queries <- SomeQueries
  Ranking <- TheRanking
  PriceScore <- TheScore
  Maker <- TheMaker
  Histories <- SomeHistories
  MaxFaults <- OneIsHit
INVARIANT OrphansAreExplained
INVARIANT RecordsFollowRuns
CHECK_DEADLOCK FALSE
