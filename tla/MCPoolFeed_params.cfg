SPECIFICATION Spec
CONSTANTS
    WSOL_MINT = WSOL_MINT
    USDC_MINT = USDC_MINT
    UNSET = UNSET
    meme = meme
    stock = stock
    Targets <- MCPumpTargets
    Wild <- MCWild
    Policies <- MCPolicies
    MaxRange = 1
    MaxApplied = 2
INVARIANT ParamsBuyIsBuilt
CHECK_DEADLOCK FALSE
