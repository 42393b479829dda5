SPECIFICATION Spec
CONSTANTS
    a = a
    b = b
    None = None
    Pools <- MCPoolsPlain
    Secure <- MCNone
    Version <- MCVersionPlain
    Reachable <- MCPoolsPlain
    Hosts <- MCNone
    Endpoints = 2
    MaxPleas = 1
    MaxBacklog = 2
PROPERTIES
    LateDataIgnored
CHECK_DEADLOCK FALSE
