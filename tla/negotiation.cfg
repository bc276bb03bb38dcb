SPECIFICATION FairSpec
CONSTANTS
  Rankings <- SomeRankings
  Session <- SomePolicies
  Prices <- SomePrices
  MaxRounds = 2
  Budget = 2
  Used <- SomeCategories
  Others <- SomeMessages
  MaxForeign = 4
  MaxPending = 1
  MaxFaults = 2
  Durable = TRUE
INVARIANT KeysTellEventsApart
INVARIANT OnlyOverridesPass
INVARIANT RoundsAreBounded
PROPERTY DealsAreKept
CHECK_DEADLOCK FALSE
