SPECIFICATION Spec
CONSTANTS
  JobIds = {j1}
  Workers = {w1, w2}
  Clients = {c1}
  p1 = p1
  p2 = p2
  u1 = u1
  None = None
  Ponds <- MCPonds
  Pumps <- MCPumps
  Orders <- MCOrders
  Levels <- MCLevels
  InitContent <- MCInit
  Keep <- MCKeep
  Rim <- MCRim
  Rate <- MCRate
  DefaultRate = 1
  MaxRunHours = 4
  MaxHours = 4
  QueueCap = 1
  Horizon = 1
  Budget <- RaceBudget
CONSTRAINT FewDisturbances
SYMMETRY Interchangeable
CHECK_DEADLOCK FALSE
INVARIANTS TypeOK AtMostOncePerWorker FloorKept OrphanNeedsFailure DoneHasMoved Inductive
PROPERTIES NeverRequeued
