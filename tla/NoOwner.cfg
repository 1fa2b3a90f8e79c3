SPECIFICATION Safety
CONSTANTS
    Users = {u1, u2}
    Superusers = {}
    NoUser = nobody
    MaxOpen = 2
CHECK_DEADLOCK FALSE
INVARIANTS
    AlwaysAnOwner
