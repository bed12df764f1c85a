SPECIFICATION FairSpec
CONSTANTS
    t1 = t1
    t2 = t2
    t3 = t3
    Trades <- MCTrades
    Refused <- MCRefused
    Losers <- MCLosers
    MinOutcomes = 1
    DriftThreshold = 1
    LaggingPositions = FALSE
    MaxFaults = 3
INVARIANTS
    ObservedAtMostOnce
    NoOutcomeLost
PROPERTIES
    ImplementsOutcomeLedger
    EveryCloseSettles
