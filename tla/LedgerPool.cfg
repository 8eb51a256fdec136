\* Several transactions wait at once, and wallets may pay themselves.
CONSTANTS
    a = a
    b = b
    c = c
    Addr = {a, b}
    Miners = {a}
    Transfers <- PayAndSplit
    Amounts = {0, 1}
    Reward = 2
    MaxHeight = 4
    MaxPending = 2
    MaxPayments = 3
SPECIFICATION Spec
INVARIANTS
    TypeOK
    VerifyNeverPanics
    SameIdOnlyAfterShift
PROPERTIES
    FailsOnlyOnConflict
CHECK_DEADLOCK FALSE
