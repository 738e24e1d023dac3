SPECIFICATION FairGateSpec
CONSTANTS
    t1 = t1
    t2 = t2
    Topics <- MCTopics
    Broker = TRUE
    Matter = TRUE
    StartupTimeout = 3
    SentinelTimeout = 2
    MatterTimeout = 6
    MaxConnects = 3
    MaxUptime = 7
INVARIANTS SentinelMeansComplete StartsByDeadline
PROPERTIES EventuallyStarts
CHECK_DEADLOCK FALSE
