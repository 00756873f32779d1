\* One approval, two threads, a crash: every interleaving of the delivery steps.
CONSTANTS
  Approvals = {a1}
  EventIds = {1, 2, 3}
  Threads = {t1, t2}
  Nonces = {n1}
  Operators = {o1, o2}
  Subjects = {s1}
  Items = {i1}
  Ttl = 1
  MaxAge = 0
  Retention = 1
  MaxTime = 2
  MaxCrashes = 1
  MaxSetbacks = 0
  NoEvent = NoEvent
  NoNonce = NoNonce
  NoApproval = NoApproval
  NoOperator = NoOperator
  NoProof = NoProof
  ProofWindow = 1
SPECIFICATION Spec
SYMMETRY Symmetry
CHECK_DEADLOCK FALSE
INVARIANTS
  TypeOK
  AtMostOnceExecution
  VisibleOnlyWhenAudited
  LedgerLineage
  OutboxConsistent
PROPERTY
  ImplementsOperatorQueue
