SPECIFICATION FairSpec
CONSTANTS
    Gates = {g1, g2}
    NoGate = NoGate
    MaxRequests = 3
    MaxKeys = 2
    MaxCounter = 1
    MaxMishaps = 1
INVARIANTS Reconciled NoReplay BoundKeyLive
PROPERTY BootstrapCompletes
CHECK_DEADLOCK FALSE
