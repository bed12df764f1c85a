SPECIFICATION FairSpec
CONSTANTS
    A = A
    B = B
    Edges <- MCTwo
    Symbols <- MCSymbols
    NoSymbol = NoSymbol
    RuleEdges <- MCTwo
    Correlated <- MCNone
    Weight <- MCWeightTwo
    Cap = 1
    MaxPositions = 2
    PositionsLag = FALSE
    MaxLag = 2
    MaxBars = 1
    MaxFaults = 1
INVARIANTS
    WithinCaps
    OncePerSession
    NothingForgotten
PROPERTIES
    BookSettles
CHECK_DEADLOCK FALSE
