CONSTANTS
    mesh = mesh
    host = host
    p1 = p1
    p2 = p2
    p3 = p3
    c1 = c1
    None = None
    Watcher = {mesh, host}
    Host = {host}
    Pid = {p1, p2, p3}
    Caller = {c1}
    MissLimit = 2
    MaxFaults = 2
    MaxCalls = 2
SPECIFICATION FairSpec
INVARIANTS TypeOK OneServes
PROPERTIES Recovers
CHECK_DEADLOCK FALSE
