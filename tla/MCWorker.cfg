SPECIFICATION SuiteSpec
CONSTANTS
    Calls = {c1, c2, c3}
    Route = 2
    Threshold = 2
    HalfOpenMax = 1
    MaxConcurrency = 2
    MaxFailures = 5
    MaxCancels = 2
    Two = {x1, x2}
    Runs = {r1, r2}
    Workers = {w1, w2}
    Ttl = 1
    MaxTime = 3
    MaxVersions = 2
    FlagFailures = 1
    MaxEvictions = 2
    MaxRestarts = 1
    MaxLosses = 1
    MaxBeats = 2
    Providers = {"named"}
    MaxMade = 2
    Backends = {"local", "s3"}
    Sizes = {0, 1, 2, 3, 4, 5, 6, 7, 8, 9, 10, 11, 12, 13}
    MaxSize = 11
    ChunkSize = 3
    FlushSize = 6
    UploadFaults = 2
    MaxStops = 1
    MaxFaults = 2
    MaxCrashes = 1
    None = None
    Off = Off
SYMMETRY Symmetry
CHECK_DEADLOCK FALSE
INVARIANTS
    CallsSafe
    RedisWatched
    ObjectsWhole
PROPERTIES
    FlagsFresh
    NoServiceLost
    AnalysisAgrees
