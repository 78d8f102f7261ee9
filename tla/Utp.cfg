CONSTANTS
    Mod = 20
    Isn <- IsnNearWrap
    PacketSize = 2
    RecvMax = 5
    SendMax = 7
    MaxReorder = 4
    PendingReorder = 1
    MaxSack = 4
    DupAcks = 2
    MaxTransmits = 3
    Windows = {3, 9}
    SendsA = 7
    SendsB = 0
    Load <- Loads
    Chunk = 7
    Leaves <- Leaving
    MaxFaults = 1
SPECIFICATION UtpSpec
INVARIANTS AckedHasArrived NothingStalls
PROPERTIES ImplementsByteStream
CHECK_DEADLOCK FALSE
