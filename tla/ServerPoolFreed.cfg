SPECIFICATION Spec
CONSTANTS
    Clients = {c1, c2}
    MaxFd = 3
    MaxUnread = 1
    Commands = {"shutdown", "quit", "text"}
    WorkerCount = 2
    RequestMask = {"NewConnection", "StreamData", "ConnectionLost", "Shutdown"}
    BufferLen = 2
    MaxSelectErrors = 1
    UsingTimeout = TRUE
    MaxQueue = 2
INVARIANT ConnectionsUsedLive
CHECK_DEADLOCK FALSE
