CONSTANTS
    s1 = s1
    s2 = s2
    h1 = h1
    h2 = h2
    Sessions <- MCSessions
    Handlers <- MCHandlers
    TicksPerSecond = 2
    AccessTtl = 1
    RefreshTtl = 2
    NoSession = NoSession
    Requests <- MCRequests
    NotIssued = NotIssued
    NoRequest = NoRequest
    MaxNow = 4
SPECIFICATION Spec
SYMMETRY SessionSymmetry
INVARIANTS
    TypeOK
    RevokedTokenRefused
    LogoutRevokesBoth
    ServedWhileInOrder
PROPERTIES
    ImplementsTokenLife
