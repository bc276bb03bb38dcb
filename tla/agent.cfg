SPECIFICATION Spec
CONSTANTS
  t1 = t1
  cheap = cheap
  dear = dear
  u1 = u1
  r1 = r1
  r2 = r2
  r3 = r3
  None = None
  Txns <- OneTxn
  Items <- TwoItems
  Price <- Prices
  Quantity <- Pair
  Users <- OneUser
  Thresholds <- FreeAndFive
  NoLimit = 10
  DbAvailable = TRUE
  Requests <- ThreeRequests
  MaxRestarts = 1
INVARIANT LargeIsApproved
INVARIANT RejectionStands
INVARIANT DoubtIsFinal
INVARIANT SessionIsCoherent
SYMMETRY Symmetric
CHECK_DEADLOCK FALSE
