SPECIFICATION FairSpec
CONSTANTS
    d1 = d1
    d2 = d2
    d3 = d3
    None = None
    Downloads <- ThreeDownloads
    Total = 4
    Window = 2
    MaxHead = 1
    Depth = 2
INVARIANTS
    ClaimExclusive
    DoneIffWhole
    ReplayWhole
    StreamInOrder
PROPERTIES
    LinkEnds
    ClaimEnds
CHECK_DEADLOCK FALSE
