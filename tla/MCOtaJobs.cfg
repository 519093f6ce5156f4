SPECIFICATION Spec
CONSTANTS
    Targets = {"node", "thermostat"}
    Requests = {"first", "second"}
    MaxJobs = 3
    Kept = 1
    MaxTroubles = 3
INVARIANTS
    OnePush
PROPERTIES
    NoPushTwice
    QueuedJobsEnd
CHECK_DEADLOCK FALSE
