SPECIFICATION Spec
CONSTANTS
    b1 = b1
    b2 = b2
    k1 = k1
    k2 = k2
    x1 = x1
    x2 = x2
    s1 = s1
    s2 = s2
    s3 = s3
    Buyers = {b1}
    Keys = {k1, k2}
    Products = {x1}
    Suppliers = {x1}
    SupplierOf <- OneSupplierEach
    Sessions = {s1, s2, s3}
    Budget = 2
    MaxQty = 1
    MaxClaims = 2
    MaxStock = 1
    MaxInt = 4
SYMMETRY SessionSymmetry
INVARIANT
    RedeemedOncePerBuyer
