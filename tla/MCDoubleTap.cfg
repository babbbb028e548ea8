CONSTANTS
    None = None
    OrderIds = {o1, o2}
    Keys = {k1}
    Carts = {p1}
    Numbers = {n1, n2}
    Calls = {c1, c2}
    Reports = {r1}
    Hooks = {h1}
    Sweeps = {w1}
    Ttl = 1
    MaxAge = 1
    MaxReleases = 1
    MaxFaults = 0
    MaxTime = 2
SPECIFICATION Spec
CHECK_DEADLOCK FALSE
PROPERTY OneStoreOrderPerKey
