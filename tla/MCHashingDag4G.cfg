SPECIFICATION HSpec
CONSTANTS
    th1 = th1
    th2 = th2
    th3 = th3
    Threads <- MCThreads
    FullThreads <- MCFullThreads
    Epochs <- MCEpochs
    Items <- MCItems
    L1Items <- MCL1Items
    MaxContexts = 3
    None = None
    Bounds <- MCBounds
    NumTries = 5
    MaxEpoch = 7
    Other = Other
    Nothing = Nothing
CHECK_DEADLOCK FALSE
INVARIANT DagComplete
