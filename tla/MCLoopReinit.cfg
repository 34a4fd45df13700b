SPECIFICATION RunnerSpec
CONSTANTS
    MaxStale = 2
    MaxAttempts = 2
    Events = {"gateway"}
    Workers = {w1}
    Alerts = {"CRITICAL:HALT", "WARNING:STALE"}
    Mailed = {"CRITICAL:HALT"}
    SaveJob = "save"
    Throttle = 2
    PostTimeout = 1
    MailTimeout = 1
    QueueBound = 1
PROPERTIES
    OnlyRequestsOrHaltsEndTheLoop
CHECK_DEADLOCK FALSE
