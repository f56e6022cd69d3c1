CONSTANTS
    Callers = {c1, c2}
    Streams = {s1, s2}
    OpenCap = 1
    InboundCap = 1
    None = None
    Cancelled = Cancelled
SPECIFICATION Spec
INVARIANTS
    NoLostWake
    IdleCloseSafe
PROPERTIES
    IdleConnectionReleased
    OpenAnswered
CHECK_DEADLOCK FALSE
