SPECIFICATION FairSpec
CONSTANTS
    Nodes = {n1, n2}
    NoNode = NoNode
    MaxRequests = 3
    MaxOfKind <- Limits
    PoolSize = 2
    MaxEpoch = 2
    MaxMishaps = 1
INVARIANTS TypeOK FencedWhileHeld
PROPERTY TransitionEnds
CHECK_DEADLOCK FALSE
