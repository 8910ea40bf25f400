SPECIFICATION FairSpec
CONSTANTS
    low = low
    high = high
    bad = bad
    p1 = p1
    Partition = {p1}
    NoPartition = NoPartition
    Message = {low, high, bad}
    Malformed = {bad}
    KeyPartition <- MCKeyPartition
    Severity = {"low", "high"}
    SeverityOf <- MCSeverityOf
    Client = {"c1", "c2"}
    MaxAttempts = 3
    MaxLog = 2
    MaxFaults = 2
    MaxRequests = 3
INVARIANTS
    TypeOK
    CountedSinceStart
    AnswersConsistent
    ChecksAccountForRows
PROPERTIES
    AnswersGrow
    NobodyStuck
CHECK_DEADLOCK FALSE
