\* The ledger takes one transaction at a time, as cmd/node runs it; two
\* submissions, well formed or not, two blocks after the genesis and a query;
\* three wallets in the database and two faults; short lists and intervals.
CONSTANTS
    a = a
    b = b
    c = c
    Addr = {a, b, c}
    Miners = {a}
    Transfers <- DistinctTransfers
    Amounts = {1, 3}
    Reward = 2
    MaxHeight = 5
    MaxPending = 1
    MaxPayments = 8
    Hex = {"6a", "7b"}
    Messages <- SomeMessages
    ServerAddress = {a}
    MaxSubmitted = 2
    MaxChain = 3
    MaxCount = 3
    Address = {a, b, c}
    MaxFaults = 2
    Content <- Contents
    Ids <- SomeIds
    Interval = 10
    Seconds = 10
    MinBits = 8
    MaxBits = 32
    MaxNonce = 3
    HashBits = 3
SPECIFICATION PartsSpec
INVARIANTS
    SupplyConserved
    ReloadAgrees
    
    AnsweredAsSubmitted
    
    SavedIsListed
    OnlyCutIsHidden
    MerkleRootTellsIds
    DifficultyFollowsPace
    MinedIsAccepted
PROPERTIES
    PaysExactly
    
CHECK_DEADLOCK FALSE
