\* Seven arrivals fill a quota twice and leave a backlog of more than one batch.
CONSTANTS
    n1 = n1
    n2 = n2
    Notification <- MCNotification
    Configs <- MCConfigs
    MaxArrivals = 7
SPECIFICATION LimiterSpec
INVARIANTS
    TypeOK
    OneTimerRuns
    CounterMatchesBacklog
    NoLossNoOvertaking
    BurstBounded
PROPERTIES
    RefusedOnlyOverRate
    EveryAcceptedStarts
    QuotaReturns
    ImplementsFifo
