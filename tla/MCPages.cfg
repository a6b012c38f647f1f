CONSTANTS
    ab = ab
    abBlank = abBlank
    shoes = shoes
    MaxCalls = 2
    Params <- const_Params
    Values <- const_Values
    NoValue = NoValue
    NoUrl = NoUrl
    Products = {p1, p2}
    StockLevels = {0, 2}
    Invalid = Invalid
    NoId = NoId
    Texts <- const_Texts
    ShortTexts <- const_ShortTexts
    Empty = Empty
    Trim <- const_Trim
    NoText = NoText
SPECIFICATION AppSpec
INVARIANTS
    QuantityWithinStock
    HealthIsOneOrTheOther
    SuggestionsLagForAReason
    StaysDismissed
PROPERTIES
    HomeImplementsView
    ProductImplementsView
    HomeSettles
