SPECIFICATION Spec
CONSTANTS
    Clients = {c1, c2}
    MaxFd = 3
    MaxUnread = 1
    Commands = {"quit"}
    WorkerCount = 2
    RequestMask = {"NewConnection", "StreamData", "ConnectionLost", "Shutdown"}
    BufferLen = 2
    MaxSelectErrors = 3
    UsingTimeout = TRUE
    MaxQueue = 2
INVARIANT WatchesOnlyOpen
INVARIANT FailuresExplained
INVARIANT DeletedOnce
INVARIANT NoneForgotten
PROPERTY TakenInOrderOfLife
SYMMETRY ClientSymmetry
CHECK_DEADLOCK FALSE
