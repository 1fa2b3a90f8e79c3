SPECIFICATION Spec
CONSTANTS
    Calls = {c1}
    Route = 1
    Threshold = 1
    HalfOpenMax = 1
    MaxConcurrency = 1
    MaxFailures = 1
    MaxCancels = 1
CHECK_DEADLOCK FALSE
PROPERTIES
    Recovers
