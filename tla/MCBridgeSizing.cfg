SPECIFICATION Spec
CONSTANTS
    FEE_DENOM = 4
    MAX_FEE_BPS = 2
    MAX_SLIPPAGE_BPS = 3
    RATE_DENOM = 5
    MAX_U64 = 31
    WIDTH = 5
    SLACK = 4
    Bridges <- MCBridges
    Pools <- MCPools
    Spends <- MCSpends
INVARIANTS TypeOK LeastInput HopsAgree ShrunkBuysAsMuch OnlyGraduatedRefused SearchIsShort
