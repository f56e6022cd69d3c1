SPECIFICATION ClientFairSpec
CONSTANTS
    Target = 3
    MaxSignals = 3
INVARIANTS
    WithinTarget
    ShortfallLostOnlyByDrain
PROPERTIES
    DirectTopUp
CHECK_DEADLOCK FALSE
