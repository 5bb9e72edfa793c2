SPECIFICATION RegistrationSpec
CONSTANTS
    t1 = t1
    t2 = t2
    Threads <- MCThreads
    MaxAttempts = 3
    MaxCodes = 2
SYMMETRY MCSymmetry
INVARIANTS
    LimitKeptAlone
    OneLiveCode
