CONSTANTS
    a = a
    b = b
    c1 = c1
    c2 = c2
    Gids <- OneGid
    Clients <- TwoClients
    Tick = tick
    None = None
    Epochs = {1,2,3}
    Sessions <- OneTask
    Limits = {0,2}
    MaxStopped = 0
    Ops = {"add","pause","remove","unpause","pauseAll","unpauseAll","schedule","startNow","retry","purge","limit","update","shutdown"}
    Timeouts = TRUE
    Disconnects = TRUE
SYMMETRY Sym
SPECIFICATION Spec
INVARIANTS OneWorkerPerTask WorkersAreRegistered
PROPERTIES OnlyStoppedLeave
