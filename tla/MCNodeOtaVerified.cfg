SPECIFICATION Spec
CONSTANTS
    Chunks = 3
    Words = 2
    MaxStaged = 2
    MaxReplies = 2
    AppQueue = 2
    Window = 3
    Retries = 1
    ReenterAfter = 2
    StepProbes = 1
    ReportCap = 2
    OpCap = 2
    WriteCap = 3
    MaxUp = 4
    Conditions <- OneLoss
INVARIANTS
    DoneMeansVerified
CHECK_DEADLOCK FALSE
