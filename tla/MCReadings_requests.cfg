SPECIFICATION Spec
CONSTANTS
  Clients = {r1, r2}
  p1 = p1
  s1 = s1
  None = None
  Pond0 <- MCPond0
  Sensors = {s1}
  Batches <- MCBatches
  Calibrations <- MCCalibrations
  BeMin = 1
  BeMax = 20
  BeJump = 2
  LevelJump = 1
  OffsetMax = 2
  LastStage = 4
  TargetStep = 2
  TargetCap = 8
  Budget <- MCBudget
SYMMETRY Alike
INVARIANTS TypeOK  LevelIsMeasured AcceptedAreStored OffsetIsRecorded ColdStageIsEarned TargetFollowsStage
