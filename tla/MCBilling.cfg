SPECIFICATION Spec
CONSTANTS
    c1 = c1
    c2 = c2
    r1 = r1
    r2 = r2
    s1 = s1
    s2 = s2
    Price = 1
    LastInvoice = 2
    Credits = {c1, c2}
    Returns = {r1}
    Lines = {2}
    Quantity <- OneOfEach
    UnitPrice <- OneAndTwo
    Requests = {s1, s2}
    MaxInt = 2
    LastPayment = 1
SYMMETRY Symmetry
CHECK_DEADLOCK FALSE
INVARIANTS
    TypeOK
    SettledIsBacked
    ReturnCreditedOnce
    CreditedInFull
PROPERTIES
    OldestFirst
