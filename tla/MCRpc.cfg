SPECIFICATION FairSpec
CONSTANTS
    i1 = i1
    i2 = i2
    c1 = c1
    c2 = c2
    Instance = {i1, i2}
    Call = {c1, c2}
    NoInstance = NoInstance
    NoMessage = NoMessage
    Text = {"", "x"}
    Password = {"short", "longer"}
    Short = {"short"}
    MaxFaults = 2
INVARIANTS
    TypeOK
    ExecutedOnce
    ReadsAreCurrent
    UnavailableHasACause
PROPERTIES
    EveryCallAnswered
CHECK_DEADLOCK FALSE
