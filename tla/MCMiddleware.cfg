SPECIFICATION FairSpec
CONSTANTS
    i1 = i1
    i2 = i2
    c1 = c1
    c2 = c2
    Instance = {i1, i2}
    Call = {c1, c2}
    NoInstance = NoInstance
    NoAnswer = NoAnswer
    Pooled = TRUE
    Counter = 64
    MaxChanges = 2
    MaxPicks = 4
INVARIANTS
    TypeOK
    NoEmptyPick
    RoundRobin
    OneConnection
PROPERTIES
    ListFollowsHealth
