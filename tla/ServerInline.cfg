SPECIFICATION Spec
CONSTANTS
    Clients = {c1, c2, c3}
    MaxFd = 3
    MaxUnread = 2
    Commands = {"shutdown", "quit", "text"}
    WorkerCount = 0
    RequestMask = {"NewConnection", "StreamData", "ConnectionLost", "Shutdown", "Timeout"}
    BufferLen = 2
    MaxSelectErrors = 1
    UsingTimeout = TRUE
    MaxQueue = 0
INVARIANT TypeOK
INVARIANT WatchedConnections
INVARIANT StoppedClosesAll
INVARIANT ConnectionsUsedLive
INVARIANT RequestMatchesSocket
SYMMETRY ClientSymmetry
CHECK_DEADLOCK FALSE
