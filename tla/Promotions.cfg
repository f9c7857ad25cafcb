CONSTANTS
    b1 = b1
    b2 = b2
    p1 = p1
    p2 = p2
    c1 = c1
    c2 = c2
    NoCaller = NoCaller
    NoPromo = NoPromo
    NoBuild = NoBuild
    Builds = {b1, b2}
    Callers = {c1, c2}
    Promos = {p1, p2}
    SharedSlot = TRUE
CHECK_DEADLOCK FALSE
SPECIFICATION PromotionsSpec
SYMMETRY Symmetry
INVARIANTS PromotedOnce CallsApart
PROPERTIES RowsTellTheStore
