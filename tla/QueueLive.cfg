CONSTANTS
    a = a
    b = b
    c1 = c1
    c2 = c2
    Gids <- TwoGids
    Clients <- TwoClients
    Tick = tick
    None = None
    Epochs = {1,2,3}
    Sessions <- OneOrTwo
    Limits = {1}
    MaxStopped = 1
    Ops = {"move","retry","schedule","pauseAll","unpauseAll","startNow","update"}
    Timeouts = FALSE
    Disconnects = FALSE
SPECIFICATION LiveSpec
INVARIANTS NoRunaway
PROPERTIES QueueAdvances SchedulesSettle
