CONSTANTS
    c1 = c1
    c2 = c2
    c3 = c3
    Callers <- MCCallers
    FailureThreshold = 2
    RecoverySeconds = 2
    FailureCap = 3
SPECIFICATION FairSpec
PROPERTIES
    RejectsForRecoverySeconds
