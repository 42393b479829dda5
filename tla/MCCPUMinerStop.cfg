SPECIFICATION FairSpec
CONSTANTS
    j1 = j1
    j2 = j2
    j3 = j3
    heat = heat
    api = api
    NoWork = NoWork
    Torn = Torn
    Jobs <- MCJobs
    Unsupported <- MCUnsupported
    Reasons <- MCReasons
PROPERTIES
    StopCompletes
