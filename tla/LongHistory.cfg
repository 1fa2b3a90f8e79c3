SPECIFICATION Spec
CONSTANTS
    None = None
    Rounds = {r1, r2, r3}
    FetchLimit = 4
    PageLimit = 2
    MaxAttempts = 2
CHECK_DEADLOCK FALSE
INVARIANTS
    HistoryIsRecent
