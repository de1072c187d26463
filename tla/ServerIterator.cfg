SPECIFICATION Spec
CONSTANTS
    Clients = {c1, c2}
    MaxFd = 3
    MaxUnread = 2
    Commands = {"shutdown", "quit", "text"}
    WorkerCount = 0
    RequestMask = {"NewConnection", "StreamData", "ConnectionLost", "Shutdown"}
    BufferLen = 2
    MaxSelectErrors = 1
    UsingTimeout = TRUE
    MaxQueue = 0
INVARIANT IteratorReadsArray
CHECK_DEADLOCK FALSE
