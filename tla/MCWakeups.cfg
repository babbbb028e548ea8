CONSTANTS
    s1 = s1
    s2 = s2
    c1 = c1
    None = None
    SweepTask = SweepTask
    Searches = {s1, s2}
    NumCards <- OneCard
    Calls = {c1, c2}
    SearchOf <- OneCallEach
    Slots = {w1, w2}
    Damaged <- NoDamage
    MaxDiscards = 1
    MaxWakes = 2
    MaxPending = 2
    MaxFaults = 1
SPECIFICATION Spec
CHECK_DEADLOCK FALSE
PROPERTIES
    EveryCardServed
