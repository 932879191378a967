SPECIFICATION Spec
CONSTANTS
  None = None
  Users = {u1, u2}
  FirstUser = u1
  Agents = {a1}
  Procs = {p1, p2}
  MaxOrgs = 2
  MaxCodes = 1
  MaxConns = 2
INVARIANTS TypeOK NoGhostRows ApprovalWasGranted RejectSticks NoOrphans OnlineIsConnected
SYMMETRY Symmetry
CONSTRAINT Trade
CHECK_DEADLOCK FALSE
