SPECIFICATION Spec
CONSTANTS
    o1 = o1
    x1 = x1
    x2 = x2
    h1 = h1
    h2 = h2
    h3 = h3
    s1 = s1
    s2 = s2
    Orders = {o1}
    Products = {x1}
    Quantity <- OneOfEach
    Shipments = {h1, h2}
    Sessions = {s1, s2}
    MaxInt = 3
SYMMETRY Symmetry
CHECK_DEADLOCK FALSE
INVARIANT
    ShippedHoldsStock
