CONSTANTS
    o1 = o1
    o2 = o2
    NoOrder = NoOrder
    NoRef = NoRef
    Orders <- OneOrder
    MaxSends = 2
    MaxPolls = 1
    SubmitTries = 2
    CancelTries = 2
    Faults = {"crashBeforeRecord", "lostAck", "saveFails", "loadFails"}
    Listening = {"idle", "check", "place", "perm", "poll", "cancel"}
SPECIFICATION Spec
CHECK_DEADLOCK FALSE
INVARIANTS
    TrackedTimeoutIsCancelled
PROPERTIES
    RecordedIsNotResent
