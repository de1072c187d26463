SPECIFICATION FairSpec
CONSTANTS
    BufferLen = 2
    UsingTimeout = TRUE
    MaxDatagrams = 4
INVARIANT TypeOK
INVARIANT EachDatagramServedOnce
INVARIANT GluedOnlyAfterFull
INVARIANT BlocksOnlyAfterFull
INVARIANT DeafOnlyAfterEmpty
PROPERTY ArrivedIsRead
PROPERTY ShutdownReturns
CHECK_DEADLOCK FALSE
