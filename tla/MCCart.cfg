CONSTANTS
    Products = {p1, p2}
    Sessions = {s1}
    Adds = {a1, a2}
    Amounts = {1}
    MaxRequests = 1
    NoAdd = NoAdd
SPECIFICATION FairCartSpec
INVARIANTS
    UntimedOnlyMidAdd
    NothingInvented
PROPERTIES
    AbandonedCartsDisappear
    CounterResets
CHECK_DEADLOCK FALSE
