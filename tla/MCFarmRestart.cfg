SPECIFICATION Spec
CONSTANTS
    N = 2
    Jobs <- MCJobs
    None = None
    Bits = 5
    Digit = 1
    DefaultWidth = 2
    Widths = {3}
    Scramblers <- MCScramblers
    Sensors = {1}
    Scopes <- MCScopes
    MaxFound = 1
    MaxStarts = 2
INVARIANT RestartedMinersRun
CHECK_DEADLOCK FALSE
