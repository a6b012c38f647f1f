CONSTANTS
    Products = {p1, p2}
    Sessions = {s1}
    Adds = {a1, a2}
    Amounts = {1, 2}
    MaxRequests = 2
    NoAdd = NoAdd
SPECIFICATION OverlappingAdds
SYMMETRY Symmetry
INVARIANT AddsAccumulate
CHECK_DEADLOCK FALSE
