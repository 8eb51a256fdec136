\* A process that dies while its first block is being saved.
CONSTANTS
    Interval = 2
    DefaultBits = 2
    MinBits = 1
    MaxBits = 3
    MaxMined = 5
    PutMayFail = FALSE
    GetMayFail = FALSE
SPECIFICATION Spec
INVARIANT AlwaysRestarts
CHECK_DEADLOCK FALSE
