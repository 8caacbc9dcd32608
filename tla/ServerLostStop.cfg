SPECIFICATION FairSpec
CONSTANTS
    Pid = {p1, p2, p3}
    Addr = {1}
    UnixAddr = {}
    MaxChildren = 1
    ShutdownTimeout = 1
    Foreground = FALSE
    ULong = 8
    MaxConn = 0
    MaxTerm = 1
    MaxHup = 0
    MaxFault = 0
PROPERTIES DocTermStops
CHECK_DEADLOCK FALSE
