SPECIFICATION Spec
CONSTANTS
    a = a
    b = b
    c = c
    None = None
    Pools <- MCPools
    Secure <- MCSecure
    Version <- MCVersion
    Reachable <- MCReachable
    Configured <- MCConfigured
    ExitPools <- MCExit
    MaxRetries = 2
    FailoverTimeout = TRUE
    ReportHashrate = FALSE
    MaxBacklog = 1
PROPERTIES
    SelectionHonoured
