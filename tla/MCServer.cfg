SPECIFICATION Spec
CONSTANTS
    Pid = {p1, p2, p3, p4, p5}
    Addr = {1, 2}
    UnixAddr = {}
    MaxChildren = 2
    ShutdownTimeout = 1
    Foreground = FALSE
    ULong = 8
    MaxConn = 5
    MaxTerm = 1
    MaxHup = 1
    MaxFault = 1
SYMMETRY Symmetry
INVARIANTS ChildCount TableSound  FewUnregistered  IndInv
PROPERTIES RestartFindsAddress
CHECK_DEADLOCK FALSE
