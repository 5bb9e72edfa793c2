SPECIFICATION CreationSpec
CONSTANTS
    u1 = u1
    k1 = k1
    t1 = t1
    t2 = t2
    d1 = d1
    d2 = d2
    i1 = i1
    i2 = i2
    NoTask = NoTask
    NoKey = NoKey
    NoJob = NoJob
    NoRecord = NoRecord
    NoMailbox = NoMailbox
    NoDomain = NoDomain
    NoInstance = NoInstance
    NoHold = NoHold
    Users <- MCUsers
    Keys <- MCKeys
    Tasks <- MCTasks
    Domains <- MCDomains
    Instances <- MCInstances
    Refs <- MCRefs
    OtherRefs <- MCOtherRefs
    Earlier <- MCEarlier
    Requests <- MCRequests
    Costs <- MCCosts
    Grants <- MCGrants
    Adjustments <- MCAdjustments
    Threshold = 2
    MaxAttempts = 2
    MaxIds = 2
    MaxRows = 5
    MaxCrashes = 1
    MaxDbFaults = 1
    MaxAdmin = 0
    MaxFaults = 1
SYMMETRY MCSymmetry
INVARIANTS
    ChargedForMailbox
    MailboxCharged
    PendingAccountedFor
    NoConflictAtSave
    HealthConsistent
PROPERTIES
    ImplementsCreation
