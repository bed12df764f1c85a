SPECIFICATION FairRecorderSpec
CONSTANTS
  LastTick = 5
  SessionLength = 3
  Night = 1
  Quoted <- MCQuoted
  Window = 1
  Horizon = 1
  MaxLag = 1
  MaxWindows = 0
  Policies <- MCBoth
  MaxOperations = 1
  MaxRecorderFaults = 1
INVARIANTS
  KeyRecordedOnce
  NoQuotePassed
  LateIsNeverForward

  
CHECK_DEADLOCK FALSE
