\* Several transactions wait at once, and wallets may pay themselves.
CONSTANTS
    a = a
    b = b
    c = c
    Addr = {a, b}
    Miners = {a}
    Transfers <- AllTransfers
    Amounts = {1}
    Reward = 2
    MaxHeight = 4
    MaxPending = 2
    MaxPayments = 8
SPECIFICATION Spec
INVARIANT NoDoubleSpend
CHECK_DEADLOCK FALSE
