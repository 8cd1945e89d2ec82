CONSTANTS
    m1 = m1
    m2 = m2
    m3 = m3
    s1 = s1
    s2 = s2
    p1 = p1
    p2 = p2
    p3 = p3
    NoPane = NoPane
    NoToken = NoToken
    Msg = {m1, m2, m3}
    Seat = {s1}
    Pane = {p1}
    SeatOf <- OneSeat
    Token <- SharedFooter
    Prio <- Kinds
    Cold = {m1}
    Room = {m2}
    Thin = {m2}
    AckClass = {m2}
    Progress = {}
    Ask = {}
    Override = {m3}
    Skippable = {}
    Coord = {}
    Manager = {}
    BulkMax = 2
    Threshold = 4
    Composers = {"empty", "typing", "shell", "followUpBusy"}
    MaxFaults = 1
SPECIFICATION FairSpec
INVARIANTS DeliveredWasPasted
PROPERTIES ColdStartBlocksMail MailSettles
