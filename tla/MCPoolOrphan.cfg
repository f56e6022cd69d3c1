SPECIFICATION SharedSpec
CONSTANTS
    t1 = t1
    t2 = t2
    up = up
    down = down
    u1 = u1
    u2 = u2
    j1 = j1
    j2 = j2
    q1 = q1
    q2 = q2
    q3 = q3
    n1 = n1
    n2 = n2
    s1 = s1
    s2 = s2
    s3 = s3
    Pinned <- TwoTickets
    Halves <- TwoHalves
    Threshold = 3
    MaxBytes = 2
    Tunnels <- TwoTunnels
    Joiners <- TwoJoiners
    GuardFirst <- OneGuardFirst
    Conns <- ThreeConns
    MaxRegs = 2
    MaxOffers = 2
    PoolCap = 2
    Budget = 2
    OwnerCheck = TRUE
    Native <- TwoNative
    Ssh <- ThreeSsh
    Identity <- TwoIdentities
    Consumers = {c1}
    None = None
    MaxChannels = 2
SYMMETRY Symm
INVARIANTS
    NoOrphanToken
CHECK_DEADLOCK FALSE
