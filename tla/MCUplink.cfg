SPECIFICATION Spec
CONSTANTS
    MaxAttempts = 2
    MaxProbes = 2
    EventQueue = 8
    MaxHappenings = 3
    Nodes = {n1, n2}
    Paired = n1
    QueueSize = 5
    Ring = 2
    Slots = 2
INVARIANTS
    KnowsTheBus
    ThermostatIsTold
    ShownWhileServing
PROPERTIES
    UplinkComesBack
