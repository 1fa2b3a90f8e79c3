SPECIFICATION LiveSpec
CONSTANTS
    Files = {f1}
    Tasks = {t1, t2}
    Workers = {w1}
    Publishers = {p1}
    OneRelay = p1
    Reconcilers = {r1}
    Unowned = {}
    NoOwner = NoOwner
    NoFile = NoFile
    NoTask = NoTask
    MaxPublish = 1
    MaxQueue = 1
    MaxIngest = 2
    MaxReplays = 0
    RelayFaults = {"crash", "broker"}
    MaxRelayFaults = 1
    WorkerFaults = {"crash"}
    MaxWorkerFaults = 1
CHECK_DEADLOCK FALSE
PROPERTIES
    LinkedTaskSettles
    ImplementsLifecycle
