SPECIFICATION SuiteSpec
CONSTANTS
    ann = ann
    Users = {ann, bob, root}
    Superusers = {root}
    Kbs = {own, common}
    Shared = {common}
    KbOwner <- Creator
    NoKb = none
    NoUser = nobody
    Sessions = {s1}
    NoSession = nowhere
    Requests = {x1, x2}
    MaxAttempts = 2
    Members = {x1, x2, u3}
    Pair = {x1, x2}
    Root = u0
    Calls = {x1, x2}
    Names = {n1, n2}
    Email = e1
    OtherEmail = e2
    Sub = g1
    OtherSub = g2
    Rounds = {x1, x2}
    None = None
    Off = Off
SYMMETRY Symmetry
CHECK_DEADLOCK FALSE
INVARIANTS
    SearchedWithRights
    IdentitiesKept
    HistoryWhole
PROPERTIES
    RolesKept
