SPECIFICATION PairSpec
CONSTANTS
    Trades = {t1, t2}
    Orders <- AllOrders
    PreparedOrders <- AllForSale
    ChainBps = {0, 1}
    Hops = {2}
    MinOuts = {0, 1}
    FEE_DENOM = 4
    MAX_FEE_BPS = 2
    MAX_SLIPPAGE_BPS = 3
    ClientBps = 1
    Surplus = {0, 1}
    Start <- MCStart
INVARIANTS
    TypeOK
    TradeBalances
    NoStrandedWsol
    MatchingFeeSettles
    PreparedSuffices
CHECK_DEADLOCK FALSE
