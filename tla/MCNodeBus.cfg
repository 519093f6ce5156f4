SPECIFICATION BusSpec
CONSTANTS
    Orders = {"EnterBootloader", "ResetApp", "Activate"}
    MaxNodes = 2
    QueueSize = 1
    BootGrace = 2
    SlaveQueue = 2
    MaxMissed = 1
    MaxLosses = 1
INVARIANTS
    NodesFoundExact
PROPERTIES
    NoBypass
    BootloaderKeepsItsPlace
    UpNodeIsPolled
    GoneNodeLeaves
