SPECIFICATION Spec
CONSTANTS
    a1 = a1
    a2 = a2
    h1 = h1
    None = None
    Agents <- MCAgents
    Windows <- MCWindows
    Recovering <- MCRecovering
    Listening = TRUE
    MaxAge = 0
    BackoffTime = 1
    RecoveryWindow = 0
    BypassTtl = 0
    MaxTime = 1
    MaxKeys = 2
    MaxReuse = 2
INVARIANT RecoveredKeyConfirmed
PROPERTY VerifiedPeerAnswered Level2Authentic
CHECK_DEADLOCK FALSE
