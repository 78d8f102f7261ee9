CONSTANTS
    Workers = {w1, w2}
    Size = 3
    PieceLen = 2
    MaxRetries = 1
    Nothing = Nothing
    MaxVersions = 1
    MaxFaults = 2
    MaxRuns = 2
    Probes = {"ok", "fails"}
    Orphans = FALSE
SPECIFICATION HttpSpec
INVARIANT FinishedIsWhole
CHECK_DEADLOCK FALSE
