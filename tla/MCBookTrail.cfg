SPECIFICATION Spec
CONSTANTS
    Pairs = {p1, p2}
    NoPair = NoPair
    MaxOrders = 3
    MaxDays = 2
    Sides <- Entries
    Events <- Trail
SYMMETRY Symmetry
INVARIANTS
    OpenSurvivesCrash
    PendingIsNotReopened
CHECK_DEADLOCK FALSE
