CONSTANTS
    c1 = c1
    c2 = c2
    c3 = c3
    c4 = c4
    c5 = c5
    Check = {c1, c2}
    KeyOf <- OneKey
    Supervise = {}
    Lead = {}
    Watch = {}
    Nudge = {}
    Retired = {}
    Coord = {c2}
    Retry = {}
    Legacy = {}
    Roleless = {}
    Renewing = {c2}
    Follow <- NoFollow
    Frozen = {}
    Panes = {"ready", "busy", "gated", "gone", "foreign"}
    Budget = 1
    MaxFires = 2
    MaxPosts = 2
    MaxServed = 1
    MaxFaults = 1
SPECIFICATION FairSpec
INVARIANTS TypeOK ShownOncePerPost
PROPERTIES CancelSticks ChecksSettle
