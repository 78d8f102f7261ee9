CONSTANTS
    a = a
    b = b
    c1 = c1
    c2 = c2
    Gids <- OneGid
    Clients <- TwoClients
    Tick = tick
    None = None
    Epochs = {1,2,3}
    Sessions <- OneWaitingTwice
    Limits = {1}
    MaxStopped = 1
    Ops = {"schedule","update"}
    Timeouts = FALSE
    Disconnects = FALSE
SPECIFICATION Spec
INVARIANTS ScheduledHasTime
