CONSTANTS
    c1 = c1
    c2 = c2
    c3 = c3
    c4 = c4
    c5 = c5
    Check = {c1, c2, c3, c4, c5}
    KeyOf <- OwnKeys
    Supervise = {c1}
    Lead = {}
    Watch = {c2}
    Nudge = {c3}
    Retired = {c5}
    Coord = {}
    Retry = {c4}
    Legacy = {}
    Roleless = {}
    Renewing = {c1, c2, c3}
    Follow <- NoFollow
    Frozen = {c5}
    Panes = {"ready", "busy"}
    Budget = 1
    MaxFires = 2
    MaxPosts = 2
    MaxServed = 1
    MaxFaults = 1
SPECIFICATION FairSpec
PROPERTIES SuperviseRuns
