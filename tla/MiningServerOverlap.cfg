\* StartMining while the goroutine of an earlier start has not exited.
CONSTANTS
    Tx = {good}
    Unverifiable = {}
    OutOfRange = {}
    MaxStarts = 2
    MaxBlocks = 3
SPECIFICATION Spec
INVARIANT ChainLinked
CHECK_DEADLOCK FALSE
