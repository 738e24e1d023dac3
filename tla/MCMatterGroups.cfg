SPECIFICATION Spec
CONSTANTS
    lamp = lamp
    lamp2 = lamp2
    switch = switch
    Members <- MCMembers
    Sources <- MCSources
    Gids = {1, 2}
    Made = 2
    Start <- MCStart
    OwnKeys = FALSE
    MaxKeys = 2
    MaxGroups = 2
    Reqs <- MCReqs
    r1 = r1
    r2 = r2
    Faults = {"offline", "lost", "crash", "unpair", "overlap"}
    MaxObjects = 3
    MaxRequests = 2
    MaxFaults = 1
    Idle = Idle
SYMMETRY MCSymmetry
INVARIANTS TypeOK MemberUsable NothingLeft BoundUsable
CHECK_DEADLOCK FALSE
