SPECIFICATION FairSpec
CONSTANTS
    Qty = 2
    LaggingFills = {}
    FirstSeen = FALSE
    Halts = FALSE
    FaultKinds = {"submit", "crash", "die"}
    MaxFaults = 1
    MaxAttempts = 1
    MaxPolls = 2
CHECK_DEADLOCK FALSE
PROPERTIES
    StopComesBack
    EveryKnownExitBooked
    FlatByTheClose
