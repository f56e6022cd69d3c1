SPECIFICATION Spec
CONSTANTS
    RelayPermits = 1
    UpgradeTries = 2
    RoomKinds = {TRUE, FALSE}
    MaxAttempts = 5
INVARIANTS
    TicketsNameTheirAttempt
CHECK_DEADLOCK FALSE
