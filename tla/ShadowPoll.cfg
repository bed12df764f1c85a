SPECIFICATION FairPollSpec
CONSTANTS
  LastSession = 2
  Bars <- MCBars
  SignalBars <- MCSignal
  ClosingBars <- MCClosing
  MaxPending = 2
  Retention = 1
  MaxOdd = 1
  MaxPollFaults = 1
INVARIANTS
  NoRowSkipped
  FloorBehindEvidence

  
CHECK_DEADLOCK FALSE
