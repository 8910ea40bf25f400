SPECIFICATION FairSpec
CONSTANTS
    Request = {r1, r2}
    MaxAttempts = 3
    MaxFaults = 3
    MaxStarts = 2
INVARIANTS
    TypeOK
    RpcsNeverDropped
    OutOfConsulFirst
PROPERTIES
    ListTellsLife
    StopEnds
