CONSTANTS
    mesh = mesh
    host = host
    p1 = p1
    p2 = p2
    p3 = p3
    c1 = c1
    None = None
    Watcher = {mesh, host}
    Host = {host}
    Pid = {p1, p2, p3}
    Caller = {c1}
    MissLimit = 2
    MaxFaults = 1
    MaxCalls = 2
SPECIFICATION Spec
PROPERTIES WatcherStays
CHECK_DEADLOCK FALSE
