SPECIFICATION FairSpec
CONSTANTS
    research = research
    Trader = trader
    Candidates <- MCPair
    Researchers <- MCResearchers
    MaxDay = 1
    MaxRuns = 3
    RunBound <- MCRunBound
    MaxFaults = 1
CHECK_DEADLOCK FALSE
INVARIANTS
    DeployedIsProved
    ProofInOrder

    
    
