SPECIFICATION Spec
CONSTANTS
    WSOL_MINT = WSOL_MINT
    USDC_MINT = USDC_MINT
    UNSET = UNSET
    meme = meme
    stock = stock
    Targets <- MCUseful
    Wild <- MCWild
    Policies <- MCPolicies
    MaxRange = 1
    MaxApplied = 3
INVARIANTS TypeOK QuotesMatchLegs LegsConnect AccountsPrepared LegsTrue GuardedPools RequestedMintTraded
CHECK_DEADLOCK FALSE
