\* Two approvals and one nonce, a clock that may be set back, retention, purging and a crash.
CONSTANTS
  Approvals = {a1, a2}
  EventIds = {1, 2, 3, 4}
  Threads = {t1}
  Nonces = {n1}
  Operators = {o1}
  Subjects = {s1}
  Items = {}
  Ttl = 1
  MaxAge = 0
  Retention = 2
  MaxTime = 2
  MaxCrashes = 1
  MaxSetbacks = 1
  NoEvent = NoEvent
  NoNonce = NoNonce
  NoApproval = NoApproval
  NoOperator = NoOperator
  NoProof = NoProof
  ProofWindow = 1
SPECIFICATION Spec
SYMMETRY Symmetry
CHECK_DEADLOCK FALSE
INVARIANTS
  NonceNotReplayed
  ConsumedWithinTtl
PROPERTIES
  BootDeliversAll
