CONSTANTS
    Gets = {g1, g2}
    Writers = {w1, w2, w3}
SPECIFICATION FairCatalogSpec
INVARIANTS
    StaleForAReason
    LagsForAReason
PROPERTY StaleEntriesEnd
CHECK_DEADLOCK FALSE
