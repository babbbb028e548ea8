CONSTANTS
    s1 = s1
    s2 = s2
    short = short
    long = long
    None = None
    SearchIds = {s1, s2}
    Keys = {k1}
    Payloads = {short, long}
    Cards <- MCCards
    MaxCards = 2
    BatchSize = 2
    Callers = {c1, c2}
    Turns = {t1}
    Owners = {o1}
    Damaged <- OneDamaged
    Ttl = 1
    LeaseTime = 1
    DoneParking = 1
    MaxDiscards = 1
    MaxTime = 3
SPECIFICATION Spec
CHECK_DEADLOCK FALSE
INVARIANTS
    OneSearchPerKey
PROPERTIES
    LiveWorkStays
