SPECIFICATION FairCreationSpec
CONSTANTS
    u1 = u1
    k1 = k1
    t1 = t1
    t2 = t2
    d1 = d1
    d2 = d2
    i1 = i1
    i2 = i2
    NoTask = NoTask
    NoKey = NoKey
    NoJob = NoJob
    NoRecord = NoRecord
    NoMailbox = NoMailbox
    NoDomain = NoDomain
    NoInstance = NoInstance
    NoHold = NoHold
    Users <- MCUsers
    Keys <- MCNoKeys
    Tasks <- MCOneTask
    Domains <- MCDomains
    Instances <- MCTwoInstances
    Refs <- MCIdRefs
    OtherRefs <- MCOtherRefs
    Earlier <- MCNoneEarlier
    Requests <- MCAnyRequest
    Costs <- MCCosts
    Grants <- MCGrants
    Adjustments <- MCAdjustments
    Threshold = 1
    MaxAttempts = 2
    MaxIds = 1
    MaxRows = 3
    MaxCrashes = 0
    MaxDbFaults = 1
    MaxAdmin = 2
    MaxFaults = 1
INVARIANTS
    MailboxAtItsServer
PROPERTIES
    CallsEnd
