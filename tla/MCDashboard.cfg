SPECIFICATION FairSpec
CONSTANTS
    MaxEvents = 3
    Grave = {1, 2, 3}
    MaxToasts = 2
    Run = {1, 2}
    MaxFailures = 1
    NoList = NoList
INVARIANTS
    TypeOK
    AlertedOnce
    NoAlertSwallowed
PROPERTIES
    NeverGoesBack
    CatchesUp
