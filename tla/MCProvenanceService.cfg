\* Two pipe workers, three requests, one failed step, a restart at any point.
CONSTANTS
  Workers = {w1, w2}
  Agents <- MCAgents
  Sid <- MCSid
  Token <- MCToken
  Enrolled <- MCEnrolled
  Buckets <- MCBuckets
  Retention = 2
  Deployments <- MCDeployments
  Requests <- MCRequests
  Freshness = 1
  SealInterval = 2
  MaxTime = 2
  MaxLines = 5
  MaxTries = 2
  MaxFaults = 1
  MaxRestarts = 1
SPECIFICATION Spec
SYMMETRY Symmetry
CHECK_DEADLOCK FALSE
INVARIANTS
  RequestRecordedOnce
  AckedDurable
  ResumableAfterCrash
