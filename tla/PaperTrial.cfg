SPECIFICATION FairSpec
CONSTANTS
    Old = Old
    New = New
    First = Old
    NoTrial = NoTrial
    NoAudit = NoAudit
    Incumbents <- MCIncumbents
    Parents <- MCParent
    MinSessions = 1
    MinTrades = 1
    MaxReview = 1
    MaxDays = 2
    MaxStops = 2
    MaxMounts = 1
    MaxFaults = 1
INVARIANTS
    SettledByItsIncumbent
    EvidenceKept

    
    
CHECK_DEADLOCK FALSE
