SPECIFICATION Spec
CONSTANTS
    c1 = c1
    c2 = c2
    t1 = t1
    t2 = t2
    Main = Main
    None = None
    Conns <- TwoConns
    Tickets <- TwoTickets
    Effective = 1
    Ceiling = 2
    AutoCarriers = TRUE
    CursorMod = 2
    MaxNudges = 1
    MaxMsgs = 1
SYMMETRY Symm
INVARIANTS
    LiveCount
PROPERTIES
    PickLeastLoaded
CHECK_DEADLOCK FALSE
