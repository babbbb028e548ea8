SPECIFICATION Spec
CHECK_DEADLOCK FALSE
CONSTANTS
    a = a
    b = b
    w = w
    g = g
    x = x
    y = y
    z = z
    q = q
    p = p
    None = None
    Offers = {"s1", "s2", "w1", "w2", "t1", "m1", "m2", "j1", "j2", "j3", "p1", "u1"}
    OfferOf <- MCOfferOf
    Variants = {a, b, w, g, x, y, z, q, p}
    HomeOf <- MCHomeOf
    Platform <- MCPlatform
    Shows <- MCShows
    Single = {q}
    Lists = {"list"}
    Items <- MCItems
    Calls <- MCCalls
    Stocks <- MCStocks
    Shelves <- MCShelves
    PageLimit = 1
    MaxLines = 3
    MaxLineUnits = 2
    MaxConcurrent = 2
    MaxUnits = 2
    MaxChanges = 1
    MaxFaults = 1
INVARIANTS
    TypeOK
    CollectedAll
    ReadingFresh
    QuoteHonest
    LinkCarriesCart
    OneWholeOrder
PROPERTIES
    AnswerComes
