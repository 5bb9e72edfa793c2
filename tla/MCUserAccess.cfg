SPECIFICATION AccessSpec
CONSTANTS
    u1 = u1
    a1 = a1
    r1 = r1
    r2 = r2
    k1 = k1
    NoRow = NoRow
    NoRequest = NoRequest
    Never = Never
    Administrator = a1
    Users <- MCUsers
    Requests <- MCRequests
    Names <- MCNames
    Limit = 2
    Window = 2
    MaxTime = 2
    Ttl = 1
    MaxTokens = 2
    MaxAdminTokens = 1
    MaxSecrets = 2
    MaxPasswords = 1
SYMMETRY MCSymmetry
CHECK_DEADLOCK FALSE
INVARIANTS
    WindowKept
    RefusedRightly
    SessionsCurrent
PROPERTIES
    ImplementsCredentials
