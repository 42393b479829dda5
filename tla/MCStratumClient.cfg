SPECIFICATION Spec
CONSTANTS
    a = a
    b = b
    None = None
    Pools <- MCPools
    Secure <- MCSecure
    Version <- MCVersion
    Reachable <- MCPools
    Hosts <- MCHosts
    Endpoints = 2
    MaxPleas = 1
    MaxBacklog = 2
INVARIANTS
    SessionAndEndpointThere
    OneReadOneWrite
    NothingStalls
    JobHasItsNonce
PROPERTIES
    ImplementsPoolClient
CHECK_DEADLOCK FALSE
