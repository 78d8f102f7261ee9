CONSTANTS
    Peers = {s, l}
    Seeds = {s}
    FastPeers = {l}
    NPieces = 2
    NOne = 2
    NTwo = 1
    NChunks <- Lengths
    Selected = {{1}}
    MaxOutstanding = 1
    MaxWriteFailures = 2
    FullQueues = FALSE
    MaxFaults = 1
    MaxSelections = 1
SPECIFICATION SwarmSpec
INVARIANTS PieceRecordsAgree OrderIsComplete HoldersAreTold
PROPERTIES Downloads
CHECK_DEADLOCK FALSE
