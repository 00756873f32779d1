\* Failed writes, failed truncations, crashes and rotation; no write loses just its newline.
CONSTANTS
  Ids = {1, 2, 3, 4, 5}
  TornShapes = {"nothing", "part", "whole"}
  MaxPerSegment = 2
  MaxCrashes = 2
  MaxFailures = 2
  MaxRecoveryFailures = 1
  Junk = Junk
  NoEntry = NoEntry
SPECIFICATION Spec
CHECK_DEADLOCK FALSE
INVARIANTS
  VerifiedHoldsAcknowledged
PROPERTIES
  ImplementsAppendOnlyLog
