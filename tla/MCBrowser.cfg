CONSTANTS
    Products = {p1}
    MaxClicks = 4
    Emails = {e1}
    NoCart = NoCart
    NoUser = NoUser
    NoClick = NoClick
    MaxElsewhere = 1
    MaxMoves = 2
SPECIFICATION BrowserSpec
INVARIANTS
    ScreenLagsForAReason
    ConfirmedIsOrdered
    OneOrderPerClick
    
PROPERTIES
    ConfirmationStays
    SpinnerEnds
CHECK_DEADLOCK FALSE
