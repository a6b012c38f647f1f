CONSTANTS
    p1 = p1
    p2 = p2
    p3 = p3
    s1 = s1
    s2 = s2
    s3 = s3
    Products = {p1, p2}
    Sessions = {s1, s2}
    Requests = {r1, r2, r3}
    NoRequest = NoRequest
    NoProduct = NoProduct
    NoSession = NoSession
    Quantities = {1}
    StockLevels = {1, 2}
SPECIFICATION CheckoutSpec
SYMMETRY Symmetry
INVARIANTS
    BooksBalance
    SoldIsOnOrders
    DraftsAreCurrent
    OrderIdsAreUnique
    ConfirmedMeansOrdered
PROPERTY ImplementsInventory
CHECK_DEADLOCK FALSE
