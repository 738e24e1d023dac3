SPECIFICATION FairVarSpec
CONSTANTS
    a = a
    b = b
    Vals <- MCVals
    Faults = {"foreign", "clear", "close", "offline", "restart"}
    MaxSets = 3
    MaxClock = 4
    MaxFaults = 2
INVARIANTS LastSetWins SubscriberCurrent
PROPERTY Agrees
CHECK_DEADLOCK FALSE
