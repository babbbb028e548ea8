CONSTANTS
    s1 = s1
    s2 = s2
    short = short
    long = long
    None = None
    SearchIds = {s1}
    Keys = {k1}
    Payloads = {long}
    Cards <- MCCards
    MaxCards = 2
    BatchSize = 1
    Callers = {c1}
    Turns = {t1, t2}
    Owners = {o1, o2}
    Damaged <- NoDamage
    Ttl = 3
    LeaseTime = 1
    DoneParking = 1
    MaxDiscards = 1
    MaxTime = 5
SPECIFICATION Spec
CHECK_DEADLOCK FALSE
SYMMETRY WorkerSymmetry
INVARIANTS
    TypeOK
    ProgressMatchesResults
    FinishedWhenDone
    LeaseOfOneTask
    OffersOutlastResults
PROPERTIES
    ImplementsLog
