SPECIFICATION FairRegistrySpec
CONSTANTS
    t1 = t1
    t2 = t2
    i1 = i1
    NoTask = NoTask
    NoCall = NoCall
    NoClient = NoClient
    NoToken = NoToken
    Tasks <- MCTasks
    Instances <- MCInstances
    MaxClients = 3
    MaxUpdates = 2
    MaxDeaths = 1
    MaxCancels = 1
INVARIANTS
    NoClientLeaks
    CachedOpen
    NoRefreshStorm
    TokenIsLast
    OwnConfiguration
PROPERTIES
    NobodyStuck
