SPECIFICATION Spec
CONSTANTS
    login = login
    bad = bad
    p1 = p1
    Partition = {p1}
    NoPartition = NoPartition
    Message = {login, bad}
    Malformed = {bad}
    KeyPartition <- MCKeyPartition
    Creator = {c1}
    MaxAttempts = 3
    MaxLog = 1
    MaxFaults = 1
    MaxCopies = 1
    MaxDirect = 0
INVARIANTS
    NothingLost
CHECK_DEADLOCK FALSE
