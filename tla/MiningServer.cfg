\* Two goroutines, started before or after the other has gone.
CONSTANTS
    Tx = {good, bad}
    Unverifiable = {bad}
    OutOfRange = {bad}
    MaxStarts = 2
    MaxBlocks = 3
SPECIFICATION FairSpec
INVARIANTS
    TypeOK
    OnlyCurrentOpen
    LinkedUnlessOverlapped
    CountedUnlessOverlapped
    MinedOnce
PROPERTIES
    StopsForGood
    DrainedWhileMining
CHECK_DEADLOCK FALSE
