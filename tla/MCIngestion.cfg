SPECIFICATION SuiteSpec
CONSTANTS
    Files = {f1}
    Tasks = {t1, t2}
    Workers = {w1, w2}
    Publishers = {p1, p2}
    OneRelay = p1
    Reconcilers = {r1}
    Unowned = {f1}
    NoOwner = NoOwner
    NoFile = NoFile
    NoTask = NoTask
    MaxPublish = 2
    MaxQueue = 2
    MaxIngest = 2
    MaxReplays = 1
    RelayFaults = {"crash", "broker"}
    MaxRelayFaults = 1
    WorkerFaults = {"crash", "db", "commit"}
    MaxWorkerFaults = 1
SYMMETRY Symmetry
CHECK_DEADLOCK FALSE
INVARIANTS
    PairsAgree
    ReadyIffIndexed
    RetryBudget
    PublishedMeansSent
PROPERTIES
    WorkerFenced
    LiveAttemptKept
    LeaseRespected
