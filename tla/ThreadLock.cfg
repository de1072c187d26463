SPECIFICATION FairSpec
CONSTANTS
    Threads = {t1, t2, t3}
    Second = 2
    MaxHeld = 1
    MaxCalls = 4
    NULL = NULL
INVARIANT TypeOK
INVARIANT LockAccounted
PROPERTY SkippedOnlyForFraction
PROPERTY NotifierReturns
PROPERTY BroadcastReleases
PROPERTY TimedWaitEnds
CHECK_DEADLOCK FALSE
