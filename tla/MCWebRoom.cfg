SPECIFICATION RoomFairSpec
CONSTANTS
    Rooms = {r1}
    Owners = {o1, o2}
    Peers = {p1, p2}
    NoRoom = NoRoom
    Capacity = 1
    RevisionLimit = 3
    MaxEpoch = 1
INVARIANTS
    ViewsAgree
    AttachedIsListed
PROPERTIES
    DetachedEnds
    ClosedIsHeard
CHECK_DEADLOCK FALSE
