CONSTANTS
    u1 = u1
    u2 = u2
    h1 = h1
    h2 = h2
    p1 = p1
    p2 = p2
    Users <- MCUsers
    Emails = {"a@example.com"}
    Passwords <- MCPasswords
    Handlers <- MCHandlers
    NoAccount = NoAccount
    NoJob = NoJob
    NoPassword = NoPassword
SPECIFICATION Spec
SYMMETRY AccountSymmetry
INVARIANTS
    ResetSticks
