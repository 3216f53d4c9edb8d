SPECIFICATION Spec
CONSTANTS
    Trades = {t1}
    Orders <- DefaultOrders
    PreparedOrders <- DefaultForSale
    ChainBps = {1}
    Hops = {2}
    MinOuts = {1}
    FEE_DENOM = 4
    MAX_FEE_BPS = 2
    MAX_SLIPPAGE_BPS = 3
    ClientBps = 1
    Surplus = {0, 1}
    Start <- MCStart
INVARIANTS
    SolSellsPaySol
CHECK_DEADLOCK FALSE
