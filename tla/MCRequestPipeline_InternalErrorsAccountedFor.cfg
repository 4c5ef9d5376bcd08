CONSTANTS
    r1 = r1
    r2 = r2
    id1 = id1
    home = home
    stranger = stranger
    NoOrigin = NoOrigin
    Origins <- MCOrigins
    Deployments <- MCDeployments
    None = None
    Requests <- MCRequests
    ClientIds <- MCClientIds
SPECIFICATION Spec
SYMMETRY RequestSymmetry
\* Requests end; nothing is left to do once all are answered.
CHECK_DEADLOCK FALSE
INVARIANTS
    InternalErrorsAccountedFor
