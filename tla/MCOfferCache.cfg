SPECIFICATION Spec
CHECK_DEADLOCK FALSE
CONSTANTS
    j1 = j1
    j2 = j2
    i1 = i1
    i2 = i2
    l1 = l1
    q1 = q1
    x = x
    None = None
    Jobs = {j1, j2}
    Instances = {i1, i2}
    Lists = {l1}
    Questions = {q1}
    ListOf <- MCListOf
    Ids = {x}
    Wanted <- MCWanted
    ListTTL = 1
    CacheTTL = 1
    EmptyTTL = 0
    MaxRun = 1
    MaxTime = 6
    MaxRequests = 3
    MaxFaults = 1
SYMMETRY MCSymmetry
INVARIANTS
    TypeOK
    ChangesAppear
    RefreshHolds
