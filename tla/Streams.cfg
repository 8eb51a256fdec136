\* Two streams with room for one item each, one submission, two blocks.
CONSTANTS
    MaxStreams = 2
    Tx = {t1}
    Capacity = 1
    MaxBlocks = 3
    MaxStarts = 2
    MaxCalls = 3
    None = None
SPECIFICATION FairSpec
INVARIANTS TypeOK NoSendOnClosed ToldInOrder MissesOnlyWhenFull
PROPERTIES NotifyEnds StopEnds
CHECK_DEADLOCK FALSE
