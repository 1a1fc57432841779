SPECIFICATION Spec
CONSTANTS
    latest = latest
    m1 = m1
    m2 = m2
    Batteries = 2
    Located = {1}
    Models <- MCModels
    Alias = latest
    Requested = latest
    MaxRetries = 2
    MaxBackoff = 3
    MaxAfter = 4
    Hints = {0, 3, 5}
    StepTime = 1
    Slack = 1
    MaxTime = 14
    MaxFaults = 2
INVARIANTS
    TypeOK
    AnswersPinned
    RetriesBounded
PROPERTIES
    WaitsOut
    BlockedStays
CHECK_DEADLOCK FALSE
