SPECIFICATION FairSpec
CONSTANTS
    l1 = l1
    l2 = l2
    c1 = c1
    c2 = c2
    None = None
    Listeners <- TwoListeners
    Connectors <- TwoConnectors
    PoolSize = 16
    HubSize = 8
    MaxClients = 2
    EventCap = 1
INVARIANTS
    LeasesExact
    WaitingIsListed
    SpokeRouted
PROPERTIES
    EndsTogether
CHECK_DEADLOCK FALSE
