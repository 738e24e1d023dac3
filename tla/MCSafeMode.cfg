SPECIFICATION Spec
CONSTANTS
    i1 = i1
    i2 = i2
    Instances <- MCTwo
    Early = 2
    Count = 2
    Window = 3
    Keep = 3
    Downtime = 1
    Races = {}
    MaxTime = 6
    MaxRuns = 5
SYMMETRY MCSymmetry
INVARIANTS SafeOnlyAfterLoop LoopDetected MarkerOwned
CHECK_DEADLOCK FALSE
