\* A process that dies anywhere, on a disk whose writes and reads may fail.
CONSTANTS
    Interval = 2
    DefaultBits = 2
    MinBits = 1
    MaxBits = 3
    MaxMined = 5
    PutMayFail = TRUE
    GetMayFail = TRUE
SPECIFICATION FairSpec
INVARIANTS
    TypeOK
    RecoverableOnceBorn
    AckedDurable
PROPERTIES
    LoadEnds
    RefinesDurableChain
CHECK_DEADLOCK FALSE
