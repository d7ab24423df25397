SPECIFICATION BooksFairSpec
CONSTANTS
  JobIds = {j1, j2}
  Workers = {w1}
  Clients = {c1}
  p1 = p1
  p2 = p2
  u1 = u1
  None = None
  Ponds <- MCPonds
  Pumps <- MCPumps
  Orders <- BooksOrders
  Levels <- BooksLevels
  InitContent <- MCInit
  Keep <- MCKeep
  Rim <- MCRim
  Rate <- MCRate
  DefaultRate = 1
  MaxRunHours = 3
  MaxHours = 3
  QueueCap = 1
  Horizon = 1
  Budget <- BooksBudget
CHECK_DEADLOCK FALSE
INVARIANTS BooksBalance OneJobUnlessRaced
PROPERTIES KeepsLedger DueIsServed WindsDown
