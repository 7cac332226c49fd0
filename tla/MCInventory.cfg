SPECIFICATION Spec
CONSTANTS
    v1 = v1
    a = a
    b = b
    r1 = r1
    r2 = r2
    p1 = p1
    p2 = p2
    p3 = p3
    Levels = {v1}
    Lots = {1}
    LevelOf <- OneLevel
    Numbers = {a}
    Requests = {r1, r2}
    Procs = {p1, p2}
    Clerks = {p1, p2}
    MaxInt = 2
    MaxQty = 1
    MaxPush = 1
    MaxDelta = 1
    MaxRecords = 2
SYMMETRY Symmetry
INVARIANTS
    TypeOK
    LotReservedExact
PROPERTIES
    ReservationHistory
    QuarantineBlocks
