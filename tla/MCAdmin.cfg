CONSTANTS
    MaxCalls = 2
    Prices = {1, 2, 3}
    Rounded <- const_Rounded
    Stocks = {0, 1}
    Fills <- const_Fills
    Drafts = 2
    MaxProducts = 2
    MaxEdits = 2
    MaxLeaves = 1
SPECIFICATION AdminSpec
INVARIANTS
    ListIsComplete
    DuplicatesNeedFailures
    DirtyForAReason
PROPERTIES
    SaveChangesWhatWasTyped
CHECK_DEADLOCK FALSE
