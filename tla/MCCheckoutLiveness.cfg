CONSTANTS
    p1 = p1
    p2 = p2
    p3 = p3
    s1 = s1
    s2 = s2
    s3 = s3
    Products = {p1, p2, p3}
    Sessions = {s1, s2, s3}
    Requests = {r1, r2, r3}
    NoRequest = NoRequest
    NoProduct = NoProduct
    NoSession = NoSession
    Quantities = {1, 2}
    StockLevels = {2}
SPECIFICATION CyclicSpec
PROPERTY EveryCheckoutEnds
CHECK_DEADLOCK FALSE
