SPECIFICATION Spec
CONSTANTS
    Blocks = {3, 4, 5, 6}
    Headers = {30, 40, 41, 50, 60}
    EpochLength = 2
    Fitting = {1, 2}
    Streams = 2
    BatchSpace = 3
    Wrap = 3
    MaxJobs <- JobsOf
    MaxFailures = 1
    None = None
INVARIANTS
    ReportIsOfWork
    RunsOnItsData
PROPERTIES
    WorkIsMined
CHECK_DEADLOCK FALSE
