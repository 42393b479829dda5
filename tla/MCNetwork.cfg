SPECIFICATION NetSpec
CONSTANTS
    Endpoints = 2
    Miners = {m0, m1}
    MaxTemplates = 2
    MaxQueue = 3
    MaxFound = 1
    FirstBlock = 5
    MaxSolutions = 3
    Sessions = {1, 2}
    Batches <- MCBatches
    MaxReads = 3
INVARIANTS
    GetworkPolls
    SolutionsOnce
    SessionsServed
    WritesAllowed
PROPERTIES
    NetworkProgress
CHECK_DEADLOCK FALSE
