\* Two workers, one lease and window; a handle reused once, one failed step.
CONSTANTS
  Workers = {w1, w2}
  Leases = {l1}
  Windows = {h1}
  None = None
  Processes = {p1, p2}
  Terminals = {p1, p2}
  Titles = {t1, t2}
  Logical = t1
  Messages = 2
  QueueLimit = 1
  MaxShown = 1
  Ttl = 1
  Timeout = 1
  MaxFaults = 1
SPECIFICATION Spec
INVARIANTS
  RetryHazardOnRecord
  ConfirmedInBoundTarget
  NoUseAfterRevoke
