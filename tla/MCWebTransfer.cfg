SPECIFICATION FairSpec
CONSTANTS
    RelayPermits = 1
    UpgradeTries = 2
    RoomKinds = {TRUE, FALSE}
    MaxAttempts = 5
INVARIANTS
    SlotFollowsRelay
    TicketsCurrent
    QueuedIsWatched
PROPERTIES
    NegotiationEnds
    EndedUnlessProbed
CHECK_DEADLOCK FALSE
