SPECIFICATION Spec
CONSTANTS
    Qty = 2
    LaggingFills = {"leg"}
    FirstSeen = FALSE
    Halts = TRUE
    FaultKinds = {"submit", "journal", "state", "crash", "die"}
    MaxFaults = 1
    MaxAttempts = 1
    MaxPolls = 2
CHECK_DEADLOCK FALSE
INVARIANTS
    NeverOversold
    BookedInFull
