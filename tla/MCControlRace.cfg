\* Two operators over two agents, a tool call with an approval, and a restart.
CONSTANTS
  Agents <- MCAgents
  Bundle <- MCBundle
  TrustRoot = "root"
  Profile <- CuiBaseline
  Requests <- MCRequests
  Times = {0, 1, 2}
  Approvals = {p1}
  Operators = {o1, o2}
  Dispatchers = {d1}
  NoApproval = NoApproval
  MaxLog = 2
  MaxRestarts = 1
SPECIFICATION ControlSpec
SYMMETRY Symmetry
CHECK_DEADLOCK FALSE
INVARIANTS
  NoActionAfterStop
  AuditMatchesState
  KillAllRevokes
PROPERTIES
  ReturnsDrained
