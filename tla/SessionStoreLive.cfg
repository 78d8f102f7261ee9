CONSTANTS
    g1 = g1
    g2 = g2
    p1 = p1
    p2 = p2
    Gids <- MCOneGid
    Procs <- MCProcs
    None = None
    MaxRev = 2
    Disconnects = TRUE
    MaxCrashes = 0
SPECIFICATION LiveSpec
PROPERTIES DirtyIsSaved SavedRevMonotone
