SPECIFICATION SessionSpec
CONSTANTS
    None = None
    Browser = {b1, b2}
    b1 = b1
    b2 = b2
    Slot = {i1, i2}
    i1 = i1
    i2 = i2
    Account = {a1}
    a1 = a1
    MaxSessions = 3
    Faults = {"provider", "expiry", "request"}
    MaxFaults = 1
SYMMETRY Symmetry
CHECK_DEADLOCK FALSE
INVARIANTS
    SessionTypeOK
    BrowsersApart
PROPERTIES
    OnlyOldAnswersReplace
