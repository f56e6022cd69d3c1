SPECIFICATION Spec
CONSTANTS
    f1 = f1
    f2 = f2
    w1 = w1
    w2 = w2
    Chunks <- TheChunks
    Files <- TheFiles
    FileOf <- TheFileOf
    Workers <- TheWorkers
    FlushEvery = 2
    Modes <- ThreeModes
    MaxFaults = 2
INVARIANTS
    ClaimsHold
PROPERTIES
    Delivers
    DeliversEventually
CHECK_DEADLOCK FALSE
