CONSTANTS
    sa = sa
    sb = sb
    m1 = m1
    m2 = m2
    m3 = m3
    m4 = m4
    x = x
    y = y
    p = p
    q = q
    Seat = {sa, sb}
    Mail = {m1, m2, m3, m4}
    From <- MCFrom
    To <- MCTo
    AskOf <- MCAskOf
    Inbox = {m2}
    Scheduled = {m4}
    AckClass = {m3}
    Prompt = {p, q}
    NoText = NoText
    Watched = {sb}
    MaxClock = 3
    MaxAckFaults = 1

    n1 = n1
    n2 = n2
    n3 = n3
    t1 = t1
    t2 = t2
    t3 = t3
    t4 = t4
    Note = {n1, n2, n3}
    Carded = {n1, n2}
    Token = {t1, t2, t3, t4}
    NoteOf <- MCNoteOf
    Decide = {t3, t4}
    NoToken = NoToken
    NoCard = NoCard
    Absent = Absent
    MaxActFaults = 1

    w1 = w1
    w2 = w2
    c1 = c1
    c2 = c2
    Call = {c1, c2}
    Answer = {a1, a2}
    Caller <- MCCaller
    Callee <- MCCallee

    Job = {j1, j2, j3}
    Workers = 1
    Client = {k1}
    MaxPoolFaults = 1
    NoJob = NoJob
    NoClient = NoClient

    PRow = {r1, r2}
    Held = {r2}
    Cb = {b1}
    MaxBreaks = 0
    MaxStoreFaults = 3

    d1 = d1
    Daemon = {d1}
    NoMark = NoMark
    MaxEpisodes = 2
    MaxButtons = 1
    MaxKills = 1

    g1 = g1
    g2 = g2
    g3 = g3
    go = go
    gp = gp
    Target = {g1, g2, g3}
    Scope = {g1, g2}
    GoalOf <- MCGoalOf
    TargetBudget = 1
    NoRequest = NoRequest
    MaxPressed = 1
    MaxTargetFaults = 1
    pa = pa
    pb = pb
    Panes <- MCPanes
    ScanBatch = 1
    ConnectNeed = 2
    MaxLocks = 1
SPECIFICATION ServicesSpec
CHECK_DEADLOCK FALSE
INVARIANTS
    ServicesTypeOK
    OneOpenPerAsk AskTracked PastedOncePerDeath
    OneShot LinksSurvive AnswerOnRecord
    OnePendingCall AcceptedHasRoom
    JobsOnce
    PostedKept StorePastesOnce
    EpisodeBounded
    RemindedOncePerAsk
PROPERTIES
    ReplyIsLater AnswersClear
    JobsStart
    EpisodeEnds
    DeadlinesShow
    HoldsEnd ResumeFollows
