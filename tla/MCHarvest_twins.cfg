SPECIFICATION Spec
CONSTANTS
  Clients = {r1, r2}
  BatchIds = {b1, b2}
  k1 = k1
  None = None
  Crysts <- MCCrysts
  Cap <- MCCap
  Pours <- MCPours
  Salinities <- Strong
  Yields <- MCYields
  RipeTime = 1
  Budget <- TwinBudget
INVARIANTS OneOpenBatch
