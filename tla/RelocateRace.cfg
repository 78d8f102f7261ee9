CONSTANTS
    a = a
    b = b
    c1 = c1
    c2 = c2
    Gids <- OneGid
    Clients <- OneClient
    Tick = tick
    None = None
    Epochs = {1,2,3}
    Sessions <- OneWaiting
    Limits = {1}
    MaxStopped = 1
    Ops = {"update"}
    Timeouts = FALSE
    Disconnects = FALSE
SPECIFICATION Spec
INVARIANTS PartialMovedWhileIdle
