SPECIFICATION SuiteSpec
CONSTANTS
    Requests = {r1}
    Handlers = {g1}
    Workers = {w1}
    Reconcilers = {c1}
    NoRequest = NoRequest
    NoTask = NoTask
    Free = Free
    MaxAttempts = 2
    MaxDispatch = 2
    Faults = {"crash", "broker", "database", "access"}
    MaxFaults = 1
    Deliveries = {d1, d2}
    Nobody = Nobody
    None = None
    Off = Off
CHECK_DEADLOCK FALSE
PROPERTIES
    ImplementsLifecycle
    AnswersEnd
    WorkEnds
