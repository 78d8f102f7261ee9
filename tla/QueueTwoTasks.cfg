CONSTANTS
    a = a
    b = b
    c1 = c1
    c2 = c2
    Gids <- TwoGids
    Clients <- OneClient
    Tick = tick
    None = None
    Epochs = {1,2,3,4}
    Sessions <- TwoTasks
    Limits = {1}
    MaxStopped = 1
    Ops = {"move","position","remove","unpause","pause","update","purge"}
    Timeouts = FALSE
    Disconnects = FALSE
SPECIFICATION Spec
INVARIANTS ReorderingIsExact BusyWithinLimit ActiveHasWorker RestartWaitsForWorker
PROPERTIES RemovedStaysRemoved
