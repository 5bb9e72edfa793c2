SPECIFICATION FairBatchSpec
CONSTANTS
    b1 = b1
    b2 = b2
    c1 = c1
    p1 = p1
    l1 = l1
    l2 = l2
    NoTask = NoTask
    NoKey = NoKey
    NoLock = NoLock
    NoEntry = NoEntry
    Batches <- MCBatches
    Callers <- MCCallers
    CallerKeys <- MCCallerKeys
    Tasks <- MCTasks
    PrefixOf <- MCPrefixOf
    Keys <- MCKeys
    LockIds <- MCLockIds
    Count = 2
    MaxConcurrency = 1
    MaxChanges = 2
INVARIANTS
    MutualExclusion
    UsersCounted
    QueueMatchesWaiters
    PermitsExact
    ItemsMatchKeys
    BatchStopped
PROPERTIES
    NoBarging
    BatchesAnswered
    ImplementsMutex
