CONSTANTS
    c1 = c1
    Calls = {c1, c2, c3}
    MaxAttempts <- OneSession
    Pace = 1
    ThrottleCooldown = 2
    Threshold = 2
    CircuitCooldown = 1
    Ceiling = 3
    MaxShift = 2
    MaxBlind = 1
    MaxTime = 3
SPECIFICATION Spec
CHECK_DEADLOCK FALSE
SYMMETRY Fetchers
INVARIANTS
    TypeOK
    SlotsSpaced
PROPERTIES
    NeverCloser
    OnlySuccessCloses
