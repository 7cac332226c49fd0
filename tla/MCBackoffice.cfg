SPECIFICATION BackofficeSpec
CONSTANTS
    i1 = i1
    e1 = e1
    e2 = e2
    p1 = p1
    p2 = p2
    w1 = w1
    w2 = w2
    t1 = t1
    t2 = t2
    x1 = x1
    x2 = x2
    c1 = c1
    c2 = c2
    d1 = d1
    d2 = d2
    f1 = f1
    Intents = {i1}
    Events = {e1, e2}
    Result <- OneOfEach
    About <- AllAboutOne
    Calls = {p1, p2}
    LastJob = 2
    Workers = {w1, w2}
    Drafts = {t1, t2}
    LastVersion = 3
    LastWrite = 5
    Editors = {x1, x2}
    Terms = {t1, t2}
    LastContract = 2
    Actors = {c1, c2}
    Families = {f1}
    LastToken = 4
    Devices = {d1, d2}
CHECK_DEADLOCK FALSE
INVARIANTS
    BackofficeTypeOK
    SettledOnce
    AppliedIsTrue
    ClaimedOnce
    CompletedIsStored
    OneLivePerFamily
PROPERTIES
    WebhooksSettle
    EveryJobIsClaimed
    SavedAsRead
    VersionsAreALog
    ContractsAreALog
