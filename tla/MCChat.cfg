SPECIFICATION SuiteSpec
CONSTANTS
    Requests = {r1}
    Handlers = {h1, h2}
    Workers = {w1, w2}
    Reconcilers = {c1, c2}
    NoRequest = NoRequest
    NoTask = NoTask
    Free = Free
    MaxAttempts = 2
    MaxDispatch = 2
    Faults = {"crash", "broker", "database", "redis", "expiry", "access"}
    MaxFaults = 1
    Deliveries = {d1, d2}
    OneDelivery = {d1}
    Nobody = Nobody
    MaxEvents = 3
    Off = Off
SYMMETRY Symmetry
CHECK_DEADLOCK FALSE
INVARIANTS
    SettledTogether
    AcceptedOnce
    OneRunPerAttempt
    DispatchReservedOnce
    ReplyIsDurable
PROPERTIES
    StreamIsTrue
    StaleWorkerFenced
    KeepsLifecycle
