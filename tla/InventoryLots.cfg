SPECIFICATION StockedSpec
CONSTANTS
    v1 = v1
    a = a
    b = b
    r1 = r1
    r2 = r2
    p1 = p1
    p2 = p2
    p3 = p3
    Levels = {v1}
    Lots = {1, 2}
    LevelOf <- OneLevel
    Numbers = {a, b}
    Requests = {r1, r2}
    Procs = {p1, p2, p3}
    Clerks = {}
    MaxInt = 2
    MaxQty = 2
    MaxPush = 1
    MaxDelta = 1
    MaxRecords = 1
SYMMETRY SymmetryOfThree
CHECK_DEADLOCK FALSE
PROPERTIES
    EarliestFirst
    ReservesWhatWasAsked
    ReservationsMoveUnits
    KeepsPromise
