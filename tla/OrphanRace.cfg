CONSTANTS
    Workers = {w1, w2}
    Size = 3
    PieceLen = 2
    MaxRetries = 1
    Nothing = Nothing
    MaxVersions = 2
    MaxFaults = 3
    MaxRuns = 3
    Probes = {"ok", "fails", "skipped"}
    Orphans = TRUE
SPECIFICATION HttpSpec
INVARIANT CountedIsWritten
CHECK_DEADLOCK FALSE
