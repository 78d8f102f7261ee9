CONSTANTS
    Workers = {w1, w2}
    Size = 3
    PieceLen = 2
    MaxRetries = 1
    Nothing = Nothing
    MaxVersions = 1
    MaxFaults = 1
    MaxRuns = 1
    Probes = {"ok", "fails", "skipped"}
    Orphans = FALSE
SPECIFICATION HttpSpec
PROPERTY PauseEndsRun
CHECK_DEADLOCK FALSE
