CONSTANTS
    Magnets = {m1}
    NoId = NoId
    Profiles = {p1, p2}
    MaxIds = 3
    MaxReloads = 1
    MaxCalls = 2
    MaxFaults = 1
SPECIFICATION TorrentsSpec
INVARIANTS AddsOnCurrentRoute NoOrphanTorrent StoppedTorrentsRest ReloadsEndClean
PROPERTIES MagnetsResolve
CHECK_DEADLOCK FALSE
