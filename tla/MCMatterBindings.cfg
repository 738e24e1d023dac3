SPECIFICATION Spec
CONSTANTS
    n1 = n1
    n2 = n2
    n3 = n3
    lamp = lamp
    onOff = onOff
    level = level
    Sources <- MCSwitches
    Targets <- MCLamp
    Clusters <- MCClusters
    Reqs = {1, 2}
    MaxEntries = 2
    Faults = {"offline", "fails", "lost", "crash", "unpair", "overlap"}
    MaxRequests = 3
    MaxFaults = 1
    Idle = Idle
SYMMETRY MCSymmetry
INVARIANTS TypeOK EntryGranted AsAsked
CHECK_DEADLOCK FALSE
