CONSTANTS
    c1 = c1
    c2 = c2
    k1 = k1
    Callers <- MCCallers
    Keys <- MCKeys
    NoPayload = NoPayload
    FailureThreshold = 2
    RecoverySeconds = 1
    FailureCap = 2
    MaxRetries = 1
    CacheTtl = 2
SPECIFICATION ClientFairSpec
INVARIANTS
    ClientTypeOK
    RequestsAfterOpeningBounded
PROPERTIES
    OpensExactlyOnStreak
    QuietAfterFailure
    ClosesOnceUpstreamAnswersWell
    EveryCallEnds
    RecoversOnceUpstreamAnswersWell
