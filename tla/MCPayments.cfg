SPECIFICATION MCPaymentsSpec
CONSTANTS
    i1 = i1
    i2 = i2
    e1 = e1
    f1 = f1
    a = a
    b = b
    s1 = s1
    p1 = p1
    p2 = p2
    d1 = d1
    d2 = d2
    m1 = m1
    b1 = b1
    b2 = b2
    r1 = r1
    r2 = r2
    Price = 2
    LastInvoice = 1
    Credits = {}
    Returns = {}
    Lines = {}
    Quantity <- NoLines
    UnitPrice <- NoLines
    Requests = {s1}
    LastPayment = 0
    MaxInt = 4
    Intents = {i1, i2}
    Events = {e1}
    Result <- AllSucceeded
    About <- AllAboutOne
    Calls = {p1}
    Refunds = {f1}
    Clerks = {a, b}
    Threshold = 2
    Desks = {d1}
    Admins = {m1}
    Buyers = {b1, b2}
    Subtotals <- OneUnevenCart
    Values = {1, 67}
    Budgets = {1}
    Callers = {r1, r2}
    MaxFailures = 2
    MaxAttempts = 1
    LastFailure = 3
SYMMETRY Symmetry
CHECK_DEADLOCK FALSE
INVARIANTS
    MCPaymentsTypeOK
    PaidByIntents
    ReversalsAreApproved
    DiscountsAddUp
    FlagsAreEarned
