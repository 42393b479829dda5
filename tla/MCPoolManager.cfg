SPECIFICATION Spec
CONSTANTS
    a = a
    b = b
    c = c
    None = None
    Pools <- MCPools
    Secure <- MCSecure
    Version <- MCVersionDetectAll
    Reachable <- MCReachable
    Configured <- MCConfigured
    ExitPools <- MCExitLast
    MaxRetries = 2
    FailoverTimeout = TRUE
    ReportHashrate = TRUE
    MaxBacklog = 1
INVARIANTS
    ActiveInBounds
    ClientFitsActive
    SessionMines
    TimersArmed
