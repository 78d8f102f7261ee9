CONSTANTS
    g1 = g1
    g2 = g2
    p1 = p1
    p2 = p2
    Gids <- MCGids
    Procs <- MCProcs
    None = None
    MaxRev = 3
    Disconnects = FALSE
    MaxCrashes = 1
SYMMETRY Sym
SPECIFICATION Spec
INVARIANTS SavedRevTruthful AckedAddsAreOnDisk
