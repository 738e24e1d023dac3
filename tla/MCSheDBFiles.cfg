SPECIFICATION FairSpec
CONSTANTS
    d1 = d1
    d2 = d2
    v1 = v1
    v2 = v2
    p = p
    x = x
    y = y
    Ids <- MCOneId
    ViewIds <- MCOneView
    Props <- MCProps
    Vals <- MCVals
    NoVal = NoVal
    NoDoc = NoDoc
    NoDef = NoDef
    NoView = NoView
    Payloads <- MCPayloads
    Partials <- MCPartials
    Defs <- FewDefs
    OnDelete <- NoListener
    MaxRev = 2
    MaxViewRev = 1
    MaxInbox = 2
    MaxCrashes = 1
    MaxRestarts = 1
INVARIANTS ViewsCurrent DocsSaved
PROPERTIES ImplementsDocsFile Converges
CHECK_DEADLOCK FALSE
