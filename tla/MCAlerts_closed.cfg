SPECIFICATION Spec
CONSTANTS
  Clients = {r1}
  p1 = p1
  u1 = u1
  t1 = t1
  None = None
  PondList <- MCPonds
  StageZero = {}
  PumpList <- MCPumps
  Tasks = {t1}
  Target <- MCTarget
  Reading <- AllReading
  LevelDrop = 40
  Budget <- QuietBudget
  MaxCount = 3
PROPERTIES RaisedIsActive
