SPECIFICATION FairSpec
CONSTANTS
    s1 = s1
    s2 = s2
    w1 = w1
    w2 = w2
    NoEvent = 0
    Events = {1, 2}
    Sweepers <- MCSweepers
    Workers <- MCWorkers
    MaxRetries = 1
    MaxFaults = 1
    Threads = 2
    Copies = 2
    Wired = TRUE
INVARIANTS
    TypeOK
    EventsAreHeld
    SentTwiceNeedsCause
    GivenUpAfterRetries
    CountersFollowLogs
PROPERTIES
    EventsSettle
