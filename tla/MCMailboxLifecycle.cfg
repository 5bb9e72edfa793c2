SPECIFICATION LifecycleSpec
CONSTANTS
    m1 = m1
    m2 = m2
    k1 = k1
    r1 = r1
    r2 = r2
    NoMailbox = NoMailbox
    Mailboxes <- MCMailboxes
    Keys <- MCKeys
    Readers <- MCReaders
    RetentionDays <- MCRetentionDays
    Ttl = 2
    Day = 2
    MaxNow = 3
    MaxMessages = 2
SYMMETRY MCSymmetry
INVARIANTS
    KeyKeepsMailbox
PROPERTIES
    ReceivedStays
