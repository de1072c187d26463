SPECIFICATION FairSpec
CONSTANTS
    N = 2
    MaxRequests = 2
PROPERTY ShutdownCompletes
CHECK_DEADLOCK FALSE
