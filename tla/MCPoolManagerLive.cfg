SPECIFICATION FairSpec
CONSTANTS
    a = a
    b = b
    c = c
    None = None
    Pools <- MCPoolsPair
    Secure <- MCSecure
    Version <- MCVersionPair
    Reachable <- MCReachablePair
    Configured <- MCConfigured
    ExitPools <- MCExit
    MaxRetries = 2
    FailoverTimeout = FALSE
    ReportHashrate = FALSE
    MaxBacklog = 1
PROPERTIES
    SelectionHonoured
    FindsLivePool
    StopReturns
