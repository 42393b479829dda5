SPECIFICATION FairSpec
CONSTANTS
    N = 2
    Jobs <- MCJobs
    None = None
    Bits = 5
    Digit = 1
    DefaultWidth = 2
    Widths = {3}
    Scramblers <- MCScramblers
    Sensors = {1}
    Scopes <- MCScopesStop
    MaxFound = 1
    MaxStarts = 2
PROPERTY StopReturns
CHECK_DEADLOCK FALSE
