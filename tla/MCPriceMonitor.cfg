CONSTANTS
    a1 = a1
    a2 = a2
    w1 = w1
    w2 = w2
    Alerts <- MCAlerts
    Workers <- MCWorkers
    Targets = {1}
    Fares = {1}
    NoFare = NoFare
    NoAlert = NoAlert
    MaxQueue = 1
SPECIFICATION FairSpec
INVARIANTS
    TypeOK
    DeactivatedMeansNotified
PROPERTIES
    DeletedStaysDeleted
    MetAlertsAreSettled
