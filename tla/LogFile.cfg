SPECIFICATION FairSpec
CONSTANTS
    Threads = {t1, t2, t3}
    Named = {"log"}
    MaxFailures = 2
    NULL = NULL
INVARIANT TypeOK
INVARIANT LockAccounted
INVARIANT LinesWhole
INVARIANT PrintsToOpenStream
PROPERTY LockReleased
CHECK_DEADLOCK FALSE
