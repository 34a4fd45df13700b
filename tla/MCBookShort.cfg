SPECIFICATION Spec
CONSTANTS
    Pairs = {p1}
    NoPair = NoPair
    MaxOrders = 3
    MaxDays = 2
    Sides <- Short
    Events <- Crashes
PROPERTY StopsReduce
CHECK_DEADLOCK FALSE
