SPECIFICATION FairSpec
CONSTANTS
  c1 = c1
  c2 = c2
  order = order
  probe1 = probe1
  None = None
  Calls <- TwoCalls
  Txns <- OrderAndProbe
  Probes <- OneProbe
  Actions <- ActionsUsed
  MaxRestarts = 1
  MaxSaid = 2
  Copies = {1, 2}
INVARIANT LoneCallMissesNothing
INVARIANT QueuesAreOwned
INVARIANT ProbeMissesNothing
PROPERTY ImplementsExchange
PROPERTY KeptOnBySellers
CHECK_DEADLOCK FALSE
