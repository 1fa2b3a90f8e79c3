SPECIFICATION Spec
CONSTANTS
    Files = {f1}
    Tasks = {t1, t2}
    Workers = {w1}
    Publishers = {p1}
    Reconcilers = {r1}
    Unowned = {}
    NoOwner = NoOwner
    NoFile = NoFile
    NoTask = NoTask
    MaxPublish = 1
    MaxQueue = 1
    MaxIngest = 1
    MaxReplays = 0
    RelayFaults = {}
    MaxRelayFaults = 0
    WorkerFaults = {"db"}
    MaxWorkerFaults = 1
CHECK_DEADLOCK FALSE
PROPERTIES
    AcceptedFileSettles
