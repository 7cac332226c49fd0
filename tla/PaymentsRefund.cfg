SPECIFICATION MCPaymentsSpec
CONSTANTS
    i1 = i1
    i2 = i2
    e1 = e1
    f1 = f1
    a = a
    b = b
    s1 = s1
    p1 = p1
    p2 = p2
    d1 = d1
    d2 = d2
    m1 = m1
    b1 = b1
    b2 = b2
    r1 = r1
    r2 = r2
    Price = 2
    LastInvoice = 1
    Credits = {}
    Returns = {}
    Lines = {}
    Quantity <- NoLines
    UnitPrice <- NoLines
    Requests = {s1}
    LastPayment = 0
    MaxInt = 4
    Intents = {i1}
    Events = {e1}
    Result <- AllSucceeded
    About <- AllAboutOne
    Calls = {p1}
    Refunds = {f1}
    Clerks = {a, b}
    Threshold = 2
    Desks = {d1, d2}
    Admins = {}
    Buyers = {}
    Subtotals <- NoCarts
    Values = {}
    Budgets = {}
    Callers = {}
    MaxFailures = 2
    MaxAttempts = 1
    LastFailure = 0
SYMMETRY Symmetry
CHECK_DEADLOCK FALSE
INVARIANT
    ReversedOnce
