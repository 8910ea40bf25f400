SPECIFICATION Spec
CONSTANTS
    r1 = r1
    r2 = r2
    r3 = r3
    ana = ana
    luis = luis
    long = long
    other = other
    short = short
    p1 = p1
    p2 = p2
    Partition = {p1, p2}
    NoPartition = NoPartition
    Message = {"account_created", "login_success", "login_failed"}
    KeyPartition <- MCKeyPartition
    Request = {r1, r2, r3}
    User = {ana, luis}
    Password = {long, other, short}
    Short = {short}
    MaxCopies = 2
    MaxFaults = 1
SYMMETRY Symmetric
INVARIANTS
    TypeOK
    OneAccountPerUser
    RegisteredCanLogin
    ActivityTellsAnswers
CHECK_DEADLOCK FALSE
