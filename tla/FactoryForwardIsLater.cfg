SPECIFICATION FairSpec
CONSTANTS
  Slots <- OneSlot
  FirstSessions = 4
  LastSession = 5
  MaxGen = 0
  MaxGenerations = 2
  MaxRotations = 1
  RotationBudget = 1
  MaxAttempts = 1
  LlmEnabled = TRUE
  MaxFaults = 0
INVARIANTS
  ForwardIsLater
CHECK_DEADLOCK FALSE
