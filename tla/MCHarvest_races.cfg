SPECIFICATION FairSpec
CONSTANTS
  Clients = {r1, r2}
  BatchIds = {b1, b2, b3}
  k1 = k1
  None = None
  Crysts <- MCCrysts
  Cap <- MCCap
  Pours <- MCPours
  Salinities <- Strong
  Yields <- MCYields
  RipeTime = 2
  Budget <- RaceBudget
INVARIANTS TypeOK RipeBeforeHarvest OneBatchUnlessMet OnlyWhatWasPoured RowsSound
PROPERTIES RipeIsPromoted
