SPECIFICATION Spec
CONSTANTS
    Blocks = {3, 4, 6}
    Headers = {30, 31, 40, 60}
    EpochLength = 2
    Fitting = {1, 2}
    Streams = 2
    BatchSpace = 3
    Wrap = 3
    MaxJobs <- JobsOf
    MaxFailures = 1
    None = None
INVARIANT DagIsOfEpoch
CHECK_DEADLOCK FALSE
