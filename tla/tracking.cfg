SPECIFICATION Spec
CONSTANTS
  g1 = g1
  g2 = g2
  None = None
  Used = {"CREATED", "DELIVERED"}
  ErpStates = {"SHIPPED"}
  Pages <- TwoPages
  MaxEvents = 2
  MaxRequests = 1
  MaxDrops = 1
INVARIANT NothingInvented
INVARIANT SocketsMissNothing
INVARIANT DatabaseLeads
CHECK_DEADLOCK FALSE
SYMMETRY Symmetric
