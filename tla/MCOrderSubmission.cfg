CONSTANTS
    o1 = o1
    o2 = o2
    NoOrder = NoOrder
    NoRef = NoRef
    Orders <- TwoOrders
    MaxSends = 2
    MaxPolls = 1
    SubmitTries = 2
    CancelTries = 2
    Faults = {}
    Listening = {"idle", "check", "place", "perm", "poll", "cancel"}
SPECIFICATION Spec
CHECK_DEADLOCK FALSE
SYMMETRY Interchangeable
INVARIANTS
    AtMostOnce
    NoOrphan
    FilledReportIsFinal
PROPERTIES
    ContractHolds
