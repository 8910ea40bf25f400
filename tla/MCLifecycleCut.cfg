SPECIFICATION Spec
CONSTANTS
    Request = {r1, r2}
    MaxAttempts = 3
    MaxFaults = 0
    MaxStarts = 2
INVARIANTS
    NothingCut
