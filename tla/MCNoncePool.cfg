SPECIFICATION Spec
CONSTANTS
    n1 = n1
    n2 = n2
    NonceAccounts = {n1, n2}
    Configured <- MCConfigured
    Trades = {1, 2, 3}
    MaxAttempts = 2
INVARIANTS TypeOK EntriesConserved NonceHeldOnce FreshIfReadLate
PROPERTY RefreshEnds
CHECK_DEADLOCK FALSE
