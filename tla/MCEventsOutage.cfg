SPECIFICATION FairSpec
CONSTANTS
    login = login
    bad = bad
    p1 = p1
    Partition = {p1}
    NoPartition = NoPartition
    Message = {login, bad}
    Malformed = {bad}
    KeyPartition <- MCKeyPartition
    Creator = {c1}
    MaxAttempts = 3
    MaxLog = 3
    MaxFaults = 3
    MaxCopies = 2
    MaxDirect = 1
INVARIANTS
    TypeOK
    RowsInOrder
    DuplicatesCostFaults
    ExactlyOnceWithoutFaults
    CommittedAreSettled
PROPERTIES
    ImplementsAtLeastOnce
    Drains
CHECK_DEADLOCK FALSE
