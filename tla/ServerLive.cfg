SPECIFICATION FairSpec
CONSTANTS
    Pid = {p1, p2}
    Addr = {1, 2}
    UnixAddr = {}
    MaxChildren = 1
    ShutdownTimeout = 1
    Foreground = FALSE
    ULong = 8
    MaxConn = 2
    MaxTerm = 1
    MaxHup = 1
    MaxFault = 1
PROPERTIES ShutdownCompletes QueuedIsServed
CHECK_DEADLOCK FALSE
