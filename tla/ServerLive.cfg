SPECIFICATION FairSpec
CONSTANTS
    Clients = {c1, c2}
    MaxFd = 3
    MaxUnread = 2
    Commands = {"shutdown", "quit", "text"}
    WorkerCount = 0
    RequestMask = {"StreamData", "ConnectionLost"}
    BufferLen = 3
    MaxSelectErrors = 1
    UsingTimeout = TRUE
    MaxQueue = 0
PROPERTY BacklogAccepted
PROPERTY HangUpCloses
PROPERTY ShutdownReturns
CHECK_DEADLOCK FALSE
