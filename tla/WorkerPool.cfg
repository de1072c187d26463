SPECIFICATION FairSpec
CONSTANTS
    N = 3
    MaxRequests = 4
INVARIANT TypeOK
INVARIANT RequestsConserved
INVARIANT JoinedWorkersExited
PROPERTY NoNewSleeperAfterShutdown
PROPERTY DispatcherSpec
PROPERTY ShutdownCompletesUnlessMissed
PROPERTY AwakeWorkerDrainsQueue
CHECK_DEADLOCK FALSE
