SPECIFICATION Spec
CONSTANTS
    m1 = m1
    m2 = m2
    p1 = p1
    p2 = p2
    Member = {m1, m2}
    Partition = {p1, p2}
    NoMessage = NoMessage
    MaxLog = 3
    MaxGenerations = 3
    MaxFaults = 1
SYMMETRY Symmetric
INVARIANTS
    RepeatsCostGenerations
PROPERTIES
    BackOnlyByALateCommit
    ImplementsSharedGroup
CHECK_DEADLOCK FALSE
