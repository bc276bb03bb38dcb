SPECIFICATION Spec
CONSTANTS
  r1 = r1
  h1 = h1
  h2 = h2
  h3 = h3
  h4 = h4
  NumItems = 2
  Total <- AboveAndUnread
  Readable <- First
  Bargains <- OneBargain
  Threshold = 5
  Envelopes <- PlainAndForbidding
  Runs <- OneRun
  Handlers <- ThreeHandlers
  BudgetGate = TRUE
  ErpSync = TRUE
  MaxFaults = 1
SYMMETRY SymmetryOne
INVARIANT LargeNeedsApprover
INVARIANT AutonomyIsLicensed
INVARIANT SessionOrderIsReal
INVARIANT ErpHoldsRealOrders
CHECK_DEADLOCK FALSE
