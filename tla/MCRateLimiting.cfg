CONSTANTS
    client = client
    other = other
    proxy = proxy
    unparsable = unparsable
    Blank = Blank
    Anonymous = Anonymous
    Trusted <- MCTrusted
    Identities <- MCIdentities
    Requests <- MCRequests
    Limit = 2
    Window = 3
    CountCap = 3
SPECIFICATION FairSpec
INVARIANTS
    ChargedToCaller
    NeverOverLimit
    AtMostTwiceTheLimit
    EveryCounterExpires
PROPERTIES
    RefusedOnlyWhenFull
    IdleIdentitiesForgotten
    LockoutEnds
