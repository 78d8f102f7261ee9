CONSTANTS
    Magnets = {m1, m2}
    NoId = NoId
    Profiles = {p1, p2}
    MaxIds = 2
    MaxReloads = 1
    MaxCalls = 0
    MaxFaults = 1
SPECIFICATION TorrentsSpec
CHECK_DEADLOCK FALSE
INVARIANT NeverAddsOnOldRoute
