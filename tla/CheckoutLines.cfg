SPECIFICATION Spec
CONSTANTS
    b1 = b1
    b2 = b2
    k1 = k1
    k2 = k2
    x1 = x1
    x2 = x2
    s1 = s1
    s2 = s2
    s3 = s3
    Buyers = {b1}
    Keys = {k1}
    Products = {x1, x2}
    Suppliers = {x1, x2}
    SupplierOf <- OneSupplierEach
    Sessions = {s1, s2}
    Budget = 1
    MaxQty = 1
    MaxClaims = 3
    MaxStock = 1
    MaxInt = 4
SYMMETRY Symmetry
INVARIANTS
    FirstAttemptIsHeld
PROPERTIES
    PlacedIsTheCart
