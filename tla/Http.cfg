CONSTANTS
    Workers = {w1, w2}
    Size = 3
    PieceLen = 2
    MaxRetries = 1
    Nothing = Nothing
    MaxVersions = 2
    MaxFaults = 2
    MaxRuns = 2
    Probes = {"ok", "fails", "skipped"}
    Orphans = FALSE
SPECIFICATION HttpSpec
INVARIANTS PieceHasOneWorker CountedIsWritten PiecesMakeWhole
PROPERTY RunsEnd
CHECK_DEADLOCK FALSE
