SPECIFICATION FairSpec
CONSTANTS
  Clients = {r1}
  p1 = p1
  u1 = u1
  t1 = t1
  None = None
  PondList <- MCPonds
  StageZero = {}
  PumpList <- MCPumps
  Tasks = {t1}
  Target <- MCTarget
  Reading <- MCReading
  LevelDrop = 40
  Budget <- BusyBudget
  MaxCount = 2
INVARIANTS TypeOK StampsMatch
PROPERTIES KeepsBook StampsStay WrongIsNoted WellIsCleared
