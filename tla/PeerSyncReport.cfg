\* A dial, a download, and what the node has afterwards.
CONSTANTS
    NodeCount = 2
    MaxDials = 1
    MaxMade = 3
    MaxStops = 0
SPECIFICATION Spec
INVARIANT SyncedIsAdded
CHECK_DEADLOCK FALSE
