\* Two processes on paths that may be links of the same files, one of them relinked before it is bound.
CONSTANTS
  p1 = p1
  Processes = {p1, p2}
  Threads = {t1}
  Paths = {1, 2, 3, 4}
  Inodes = {1, 2, 3}
  NoInode = 0
  NoProcess = NoProcess
  LedgerPath <- OwnLedger
  ApprovalPath <- OwnApprovals
  InitialFiles <- Linked
  MaxNested = 0
  MaxRotations = 0
  MaxSubstitutions = 1
  MaxCrashes = 1
SPECIFICATION Spec
CHECK_DEADLOCK FALSE
INVARIANTS
  ExclusiveWriter
