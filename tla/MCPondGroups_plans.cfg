SPECIFICATION Spec
CONSTANTS
  Clients = {r1, r2}
  p1 = p1
  p2 = p2
  p3 = p3
  None = None
  Area <- MCArea
  Levels = {10, 24, 100}
  LastStage = 2
  Chains <- MCChains
  MinKeep = 20
  Gap = 5
  Budget <- MCBudget
INVARIANTS TypeOK GroupsBounded PlanExplainsRows WithinRange KeepLine
PROPERTIES RequestsEnd
