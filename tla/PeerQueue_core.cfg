CONSTANTS
    m1 = m1
    m2 = m2
    m3 = m3
    s1 = s1
    s2 = s2
    p1 = p1
    p2 = p2
    p3 = p3
    NoPane = NoPane
    NoToken = NoToken
    Msg = {m1, m2}
    Seat = {s1}
    Pane = {p1, p2}
    SeatOf <- OneSeat
    Token <- NoFooters
    Prio <- SameKind
    Cold = {}
    Room = {}
    Thin = {}
    AckClass = {}
    Progress = {}
    Ask = {}
    Override = {}
    Skippable = {}
    Coord = {}
    Manager = {}
    BulkMax = 2
    Threshold = 2
    Composers = {"empty", "busy"}
    MaxFaults = 1
SPECIFICATION Spec
INVARIANTS TypeOK AtMostOncePerFault FilesAgree
PROPERTIES SettledIsFinal KeepsContract
