SPECIFICATION Spec
CONSTANTS
    FEE_DENOM = 10
    MAX_FEE_BPS = 2
    MAX_SLIPPAGE_BPS = 9
    RATE_DENOM = 10
    MAX_U64 = 1000
    WSOL_MINT = WSOL_MINT
    USDC_MINT = USDC_MINT
    QuoteMints = {WSOL_MINT, USDC_MINT}
    NONE = NONE
    meme = meme
    c1 = c1
    c2 = c2
    f1 = f1
    f2 = f2
    m1 = m1
    b1 = b1
    Creators = {c1, c2}
    Recipients = {f1, f2}
    Coins <- MCCoins
    Curves <- MCCurves
    Globals <- MCGlobals
    SwapPools <- MCSwapPools
    Graduated <- MCGraduated
    Hookable = {}
    MaxLamports = 2
    Rent = 2
    CreatorFee = 1
    SUPPLY = 20
    MaxVault = 10
    MaxBudget = 30
INVARIANTS TypeOK SellQuoteCovered PreparedTradesSettle BudgetsHold
PROPERTY DeliveredTrue
CHECK_DEADLOCK FALSE
