SPECIFICATION SuiteSpec
CONSTANTS
    Senders = {x1, x2}
    Limit = 3
    MaxCodes = 4
    MaxExpiries = 3
    Two = {x1, x2}
    First = {x1}
    Three = {i1, i2, i3}
    None = None
    Off = Off
SYMMETRY Symmetry
CHECK_DEADLOCK FALSE
INVARIANTS
    CodeIsOneTime
    LocksKept
    
PROPERTIES
    LimitsHold
    ChargesRight
