SPECIFICATION Spec
CONSTANTS
  r1 = r1
  h1 = h1
  h2 = h2
  h3 = h3
  h4 = h4
  NumItems = 2
  Total <- AtAndAbove
  Readable <- Both
  Bargains <- NoBargains
  Threshold = 5
  Envelopes <- AllEnvelopes
  Runs <- OneRun
  Handlers <- FourHandlers
  BudgetGate = FALSE
  ErpSync = TRUE
  MaxFaults = 2
CONSTRAINT OrderlySoFar
SYMMETRY Symmetry4
INVARIANT OneOrder
INVARIANT QueueAgrees
PROPERTY LifecycleRespected
CHECK_DEADLOCK FALSE
