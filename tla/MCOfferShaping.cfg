CONSTANTS
    MaxMarks = 5
    MaxOffers = 4
    MaxEntries = 2
    Percent = 50
    Limit = 2
SPECIFICATION Spec
CHECK_DEADLOCK FALSE
INVARIANTS
    Wider
    OneKey
    HalfTrusted
    Cheapest
    NoDrift
