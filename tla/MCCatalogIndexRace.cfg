CONSTANTS
    Gets = {g1, g2, g3}
    Writers = {w1, w2, w3}
SPECIFICATION CatalogSpec
SYMMETRY Symmetry
INVARIANT IndexIsCurrent
CHECK_DEADLOCK FALSE
