\* Two processes race for one pair of existing files, operate, close, die and start again.
CONSTANTS
  p1 = p1
  Processes = {p1, p2}
  Threads = {t1, t2}
  Paths = {1, 2}
  Inodes = {1, 2, 3}
  NoInode = 0
  NoProcess = NoProcess
  LedgerPath <- SharedLedger
  ApprovalPath <- SharedApprovals
  InitialFiles <- Existing
  MaxNested = 1
  MaxRotations = 1
  MaxSubstitutions = 0
  MaxCrashes = 1
SPECIFICATION FairSpec
CHECK_DEADLOCK FALSE
INVARIANTS
  WritesUnderLock
  StartupHasWinner
PROPERTIES
  CloseTerminates
