SPECIFICATION StaticSpec
CONSTANTS
    Wallets <- MCWallets
    ZeroAddress = zero
    Accounts <- MCAccounts
    Holder <- MCHolder
    Mint <- MCMint
    Program <- MCProgram
    SystemProgram = "System"
    TokenProgram = "Token"
    Token2022Program = "Token22"
    NativeMint = "sol"
    TransferFeeMints = {"F"}
    MAX_FEE_BPS = 2
    FEE_DENOM = 4
    MAX_U64 = 4
    MAX_LEGS = 4
    Requests <- StaticRequests
    BpsInputs = {0, 1, 2, 3}
    MaxLanded = 1

PROPERTY AnyRecipientTradesSettle
