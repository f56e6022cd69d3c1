SPECIFICATION FairSpec
CONSTANTS
    c1 = c1
    c2 = c2
    t1 = t1
    t2 = t2
    Main = Main
    None = None
    Conns <- TwoConns
    Tickets <- OneTicket
    Effective = 2
    Ceiling = 2
    AutoCarriers = FALSE
    CursorMod = 2
    MaxNudges = 1
    MaxMsgs = 1
PROPERTIES
    TopUp
CHECK_DEADLOCK FALSE
