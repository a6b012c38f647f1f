CONSTANTS
    Products = {p1}
    Sessions = {s1}
    Requests = {r1, r2}
    Adds = {a1, a2}
    Quantities = {1}
    Amounts = {1}
    MaxRequests = 2
    StockLevels = {2}
    NoRequest = NoRequest
    NoProduct = NoProduct
    NoSession = NoSession
    NoAdd = NoAdd
SPECIFICATION StorefrontSpec
SYMMETRY Symmetry
INVARIANTS
    OrdersWereAsked
    PaidOnce
PROPERTIES
    ImplementsInventory
    ClearedMeansFulfilled
CHECK_DEADLOCK FALSE
