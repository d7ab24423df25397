SPECIFICATION Spec
CONSTANTS
  Clients = {r1}
  BatchIds = {b1}
  k1 = k1
  None = None
  Crysts <- MCCrysts
  Cap <- MCCap
  Pours <- MCPours
  Salinities <- Weak
  Yields <- MCYields
  RipeTime = 1
  Budget <- DumpBudget
PROPERTIES CompletionEmpties
