SPECIFICATION DynamicSpec
CONSTANTS
    Wallets <- MCWallets
    ZeroAddress = zero
    Accounts <- MCAccounts
    Holder <- MCHolder
    Mint <- MCMint
    Program <- MCProgram
    SystemProgram = "System"
    TokenProgram = "Token"
    Token2022Program = "Token22"
    NativeMint = "sol"
    TransferFeeMints = {"F"}
    MAX_FEE_BPS = 2
    FEE_DENOM = 4
    MAX_U64 = 4
    MAX_LEGS = 4
    Requests <- DynamicRequests
    BpsInputs = {0, 2}
    MaxLanded = 2
INVARIANTS HopsSpendOnlyDelivered
PROPERTIES TradesAreAtomic HonestTradesSettle
