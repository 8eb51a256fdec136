\* Two nodes, two dials each; one stops once.
CONSTANTS
    NodeCount = 2
    MaxDials = 2
    MaxMade = 3
    MaxStops = 1
SPECIFICATION FairSpec
INVARIANTS
    TypeOK
    ChainsLinked
    SyncingIsTrue
    PendingOnce
PROPERTIES
    SyncEnds
CHECK_DEADLOCK FALSE
