SPECIFICATION AccessSpec
CONSTANTS
    m1 = m1
    m2 = m2
    k1 = k1
    u1 = u1
    c1 = c1
    c2 = c2
    c3 = c3
    NoMailbox = NoMailbox
    Mailboxes <- MCMailboxes
    Keys <- MCKeys
    Readers <- MCReaders
    Users <- MCUsers
    Conns <- MCConns
    Owner <- MCOwner
    RetentionDays <- MCRetentionDays
    Ttl = 1
    Day = 1
    MaxNow = 3
    MaxMessages = 0
    MaxConnections = 2
    MaxAuthFailures = 2
    LockThreshold = 3
    MaxLocks = 1
SYMMETRY MCSymmetry
INVARIANTS
    ConnectionsExact
    GuessesBounded
PROPERTIES
    ReleasedForGood
