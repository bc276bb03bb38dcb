SPECIFICATION BreakerFairSpec
CONSTANTS
  c1 = c1
  c2 = c2
  c3 = c3
  Calls <- ThreeCalls
  FailMax = 2
PROPERTY OutageIsShielded
PROPERTY TripsOnStreak
PROPERTY RecoversWithVendor
