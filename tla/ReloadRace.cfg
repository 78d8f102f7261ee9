CONSTANTS
    Magnets = {m1}
    NoId = NoId
    Profiles = {p1, p2}
    MaxIds = 1
    MaxReloads = 1
    MaxCalls = 1
    MaxFaults = 0
SPECIFICATION TorrentsSpec
CHECK_DEADLOCK FALSE
INVARIANT PausedTorrentsRest
