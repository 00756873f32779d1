\* Two threads race two proofs of one action id in one session, with a crash and a lapse of the key.
CONSTANTS
  a1 = a1
  Agents = {a1}
  Grants = {g1}
  Subject <- OneAgent
  Owner = owner
  Executor = executor
  Body <- MCBody
  Statement <- MCStatement
  s1 = s1
  y1 = y1
  y2 = y2
  y3 = y3
  MaxSessions = 1
  Sessions = {s1}
  Actions = {x1}
  Payloads = {y1, y2, y3}
  Workers = {w1, w2}
  MaxCrashes = 1
  MaxLapses = 1
  NoProof = NoProof
SPECIFICATION Spec
SYMMETRY Symmetry
CHECK_DEADLOCK FALSE
INVARIANTS
  TypeOK
  OneAnswer
  NoActuationAfterRevocation
  BoundSessionEnds
PROPERTIES
  ImplementsOneShotPermit
