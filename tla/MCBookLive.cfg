SPECIFICATION FairSpec
CONSTANTS
    Pairs = {p1}
    NoPair = NoPair
    MaxOrders = 3
    MaxDays = 2
    Sides <- SignalSides
    Events <- Live
PROPERTIES
    FilledIsNotClosedAgain
    FilledIsRemoved
CHECK_DEADLOCK FALSE
