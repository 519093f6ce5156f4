SPECIFICATION Spec
CONSTANTS
    None = None
    Openings = {50, 100}
    Neutral = 50
    QueueSize = 4
    BeginTries = 2
    WriteRetries = 1
    MaxResumes = 1
    ReportCap = 4
    Chunks = 2
    Words = 1
    MaxStaged = 2
    MaxReplies = 2
    AppQueue = 4
    Mishaps <- JustAPush
PROPERTIES
    DisplayOutlivesPush
