SPECIFICATION Spec
CONSTANTS
    n1 = n1
    n2 = n2
    NonceAccounts = {n1, n2}
    Configured <- MCConfigured
    Trades = {1, 2}
    MaxAttempts = 2
INVARIANT FreshAfterLanding
CHECK_DEADLOCK FALSE
