SPECIFICATION Spec
CONSTANTS
    d1 = d1
    d2 = d2
    v1 = v1
    v2 = v2
    p = p
    x = x
    y = y
    Ids <- MCIds
    ViewIds <- MCViews
    Props <- MCProps
    Vals <- MCVals
    NoVal = NoVal
    NoDoc = NoDoc
    NoDef = NoDef
    NoView = NoView
    Payloads <- MCPayloads
    Partials <- MCPartials
    Defs <- PureDefs
    OnDelete <- NoListener
    MaxRev = 2
    MaxViewRev = 2
    MaxInbox = 2
    MaxCrashes = 1
    MaxRestarts = 0
INVARIANTS ReplicaInSync DefsInSync ViewsCurrent PublishedCurrent
SYMMETRY MCSymmetry
VIEW NoFiles
CHECK_DEADLOCK FALSE
