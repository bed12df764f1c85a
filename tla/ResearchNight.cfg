SPECIFICATION FairNights
CONSTANTS
  Slots <- OneSlot
  FirstSessions = 4
  LastSession = 5
  MaxGen = 2
  MaxGenerations = 2
  MaxRotations = 1
  RotationBudget = 1
  MaxAttempts = 1
  LlmEnabled = TRUE
  MaxFaults = 1
INVARIANTS
  EvidenceUsedOnce
  RetiredIsReplaced
PROPERTIES
  GoneForGood
  CorpusIsFinished
  NegativeIsObserved
CHECK_DEADLOCK FALSE
