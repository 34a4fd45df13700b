SPECIFICATION RunnerSpec
CONSTANTS
    MaxStale = 2
    MaxAttempts = 2
    Events <- Everything
    Workers = {w1, w2}
    Alerts = {"CRITICAL:HALT", "WARNING:STALE"}
    Mailed = {"CRITICAL:HALT"}
    SaveJob = "save"
    Throttle = 2
    PostTimeout = 1
    MailTimeout = 1
    QueueBound = 1
INVARIANTS
    SilenceIsEarned
    RepeatsAreBounded
PROPERTIES
    HaltIsFinal
    EndsForAReason
    HaltEndsTheLoop
    RequestIsHonoured
    QueuedAlertsAreHandled
CHECK_DEADLOCK FALSE
