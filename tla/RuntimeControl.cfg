SPECIFICATION FairSpec
CONSTANTS
    tr1 = tr1
    tr2 = tr2
    None = None
    Traders <- MCTrader
    MaxMoves = 1
    MaxDays = 1
    MaxFaults = 1
    MaxCommands = 1
INVARIANTS
    OneMutator
PROPERTIES
    ResumeOnlyFlat
    NoEntryPastLossLimit
    ExposureIsAttended
